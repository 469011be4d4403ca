------------------------------ MODULE MdProofs ------------------------------
(***************************************************************************)
(* Digests, for any length of a block, a lane, a rate and a buffer, any    *)
(* sizes of the pieces written and squeezed, and any number of algorithms  *)
(* on a handle.  From the sequences up: the block buffer and each context  *)
(* against the definition of its algorithm, then an entry of a handle in   *)
(* each of its phases, then the list of entries, then the calls.           *)
(***************************************************************************)
EXTENDS MdHandle, TLAPS, SequenceTheorems, FiniteSetTheorems, WellFoundedInduction

(* Sequences, by their elements *)

\* s is a sequence, of whatever.
IsSeq(s) == s \in Seq({s[i] : i \in 1..Len(s)})

\* Every member of a Seq is a sequence over its own elements.
LEMMA SeqIs ==
  ASSUME NEW S, NEW s \in Seq(S)
  PROVE  IsSeq(s) /\ Len(s) \in Nat /\ DOMAIN s = 1..Len(s)
  BY DEF IsSeq

\* The length of a sequence and its domain.
LEMMA IsSeqLen ==
  ASSUME NEW s, IsSeq(s)
  PROVE  Len(s) \in Nat /\ DOMAIN s = 1..Len(s)
  BY DEF IsSeq

\* A sequence whose elements are in S is a sequence over S.
LEMMA InSeq ==
  ASSUME NEW s, IsSeq(s), NEW S, \A i \in 1..Len(s) : s[i] \in S
  PROVE  s \in Seq(S)
  BY DEF IsSeq

\* A function on 1..n is a sequence of length n.
LEMMA SeqFcn ==
  ASSUME NEW n \in Nat, NEW s, DOMAIN s = 1..n, s = [i \in 1..n |-> s[i]]
  PROVE  IsSeq(s) /\ Len(s) = n
<1> DEFINE S == {s[i] : i \in 1..n}
<1>1. s \in [1..n -> S]
  OBVIOUS
<1>2. s \in Seq(S)
  BY <1>1
<1>3. Len(s) = n
  BY <1>1, <1>2
<1> QED BY <1>2, <1>3 DEF IsSeq

\* Two sequences with the same elements are the same.
LEMMA SeqSame ==
  ASSUME NEW s, IsSeq(s), NEW t, IsSeq(t), Len(s) = Len(t),
         \A i \in 1..Len(s) : s[i] = t[i]
  PROVE  s = t
<1> DEFINE S == {s[i] : i \in 1..Len(s)} \cup {t[i] : i \in 1..Len(t)}
<1>1. s \in Seq(S) /\ t \in Seq(S)
  BY InSeq DEF IsSeq
<1> HIDE DEF S
<1> QED BY <1>1, SeqEqual

\* The elements of a concatenation.
LEMMA ConcatIs ==
  ASSUME NEW s, IsSeq(s), NEW t, IsSeq(t)
  PROVE  /\ IsSeq(s \o t) /\ Len(s \o t) = Len(s) + Len(t)
         /\ \A i \in 1..(Len(s) + Len(t)) :
              (s \o t)[i] = IF i <= Len(s) THEN s[i] ELSE t[i - Len(s)]
<1> DEFINE S == {s[i] : i \in 1..Len(s)} \cup {t[i] : i \in 1..Len(t)}
<1>1. s \in Seq(S) /\ t \in Seq(S)
  BY InSeq DEF IsSeq
<1> HIDE DEF S
<1> QED BY <1>1, ConcatProperties, SeqIs

\* The elements of a part of a sequence.
LEMMA SubSeqIs ==
  ASSUME NEW s, IsSeq(s), NEW m \in Nat \ {0}, NEW n \in Nat, m <= n + 1, n <= Len(s)
  PROVE  /\ IsSeq(SubSeq(s, m, n)) /\ Len(SubSeq(s, m, n)) = n - m + 1
         /\ \A i \in 1..(n - m + 1) : SubSeq(s, m, n)[i] = s[m + i - 1]
<1> DEFINE S == {s[i] : i \in 1..Len(s)}
<1>1. s \in Seq(S)
  BY InSeq DEF IsSeq
<1>2. Len(s) \in Nat
  BY IsSeqLen
<1> HIDE DEF S
<1>3. SubSeq(s, m, n) \in Seq(S)
  BY <1>1, <1>2, SubSeqProperties
<1>4. Len(SubSeq(s, m, n)) = IF m <= n THEN n - m + 1 ELSE 0
  BY <1>1, <1>2, SubSeqProperties
<1>5. \A i \in 1..(n - m + 1) : SubSeq(s, m, n)[i] = s[m + i - 1]
  BY <1>1, <1>2, SubSeqProperties
<1>6. Len(SubSeq(s, m, n)) = n - m + 1
  BY <1>4
<1> QED BY <1>3, <1>5, <1>6, SeqIs

\* The empty sequence is the only one of length 0.
LEMMA EmptyIs == IsSeq(<<>>) /\ Len(<<>>) = 0 /\ \A s : IsSeq(s) /\ Len(s) = 0 => s = <<>>
<1>1. IsSeq(<<>>) /\ Len(<<>>) = 0
  <2>1. <<>> \in Seq({1})
    BY EmptySeq
  <2> QED BY <2>1, EmptySeq, SeqIs
<1>2. ASSUME NEW s, IsSeq(s), Len(s) = 0 PROVE s = <<>>
  BY <1>1, <1>2, SeqSame
<1> QED BY <1>1, <1>2

\* Nothing in front or behind changes nothing.
LEMMA ConcatEmpty ==
  ASSUME NEW s, IsSeq(s)
  PROVE  <<>> \o s = s /\ s \o <<>> = s
  BY ConcatEmptySeq DEF IsSeq

\* Concatenation is associative.
LEMMA ConcatAssoc ==
  ASSUME NEW s, IsSeq(s), NEW t, IsSeq(t), NEW u, IsSeq(u)
  PROVE  (s \o t) \o u = s \o (t \o u)
<1>1. \A x, y : IsSeq(x) /\ IsSeq(y) =>
         /\ IsSeq(x \o y) /\ Len(x \o y) = Len(x) + Len(y)
         /\ \A i \in 1..(Len(x) + Len(y)) :
              (x \o y)[i] = IF i <= Len(x) THEN x[i] ELSE y[i - Len(x)]
  BY ConcatIs
<1> DEFINE p == (s \o t) \o u
           q == s \o (t \o u)
<1>2. IsSeq(p) /\ IsSeq(q) /\ Len(p) = Len(q)
  BY <1>1, IsSeqLen
<1>3. ASSUME NEW i \in 1..Len(p) PROVE p[i] = q[i]
  BY <1>1, IsSeqLen
<1> HIDE DEF p, q
<1>4. p = q
  BY <1>2, <1>3, SeqSame
<1> QED BY <1>4 DEF p, q

\* First and Behind cut a sequence in two.
LEMMA FirstIs ==
  ASSUME NEW s, IsSeq(s), NEW n \in 0..Len(s)
  PROVE  /\ IsSeq(First(s, n)) /\ Len(First(s, n)) = n
         /\ \A i \in 1..n : First(s, n)[i] = s[i]
         /\ IsSeq(Behind(s, n)) /\ Len(Behind(s, n)) = Len(s) - n
         /\ \A i \in 1..(Len(s) - n) : Behind(s, n)[i] = s[n + i]
         /\ First(s, n) \o Behind(s, n) = s
<1>1. Len(s) \in Nat
  BY IsSeqLen
<1>2. /\ IsSeq(First(s, n)) /\ Len(First(s, n)) = n
      /\ \A i \in 1..n : First(s, n)[i] = s[i]
  BY <1>1, SubSeqIs DEF First
<1>3. /\ IsSeq(Behind(s, n)) /\ Len(Behind(s, n)) = Len(s) - n
      /\ \A i \in 1..(Len(s) - n) : Behind(s, n)[i] = s[n + i]
  BY <1>1, SubSeqIs DEF Behind
<1>4. First(s, n) \o Behind(s, n) = s
  <2> DEFINE u == First(s, n) \o Behind(s, n)
  <2>1. /\ IsSeq(u) /\ Len(u) = Len(s)
        /\ \A i \in 1..Len(s) :
             u[i] = IF i <= n THEN First(s, n)[i] ELSE Behind(s, n)[i - n]
    BY <1>1, <1>2, <1>3, ConcatIs
  <2>2. \A i \in 1..Len(s) : u[i] = s[i]
    BY <1>1, <1>2, <1>3, <2>1
  <2> HIDE DEF u
  <2>3. u = s
    BY <2>1, <2>2, SeqSame
  <2> QED BY <2>3 DEF u
<1> QED BY <1>2, <1>3, <1>4

-----------------------------------------------------------------------------
(* Bytes in blocks *)

\* A number by its quotient and rest.
LEMMA DivParts ==
  ASSUME NEW n \in Nat, NEW d \in Nat \ {0}
  PROVE  n \div d \in Nat /\ n % d \in 0..(d - 1) /\ n = d * (n \div d) + (n % d)
  OBVIOUS

\* Quotient and rest exist.
LEMMA DivMod ==
  ASSUME NEW n \in Nat, NEW d \in Nat \ {0}
  PROVE  \E q \in Nat, r \in 0..(d - 1) :
            n = d * q + r /\ n \div d = q /\ n % d = r
<1>1. n \div d \in Nat /\ n % d \in 0..(d - 1) /\ n = d * (n \div d) + (n % d)
  OBVIOUS
<1> QED BY <1>1

\* Quotient and rest are unique.
LEMMA DivUnique ==
  ASSUME NEW n \in Nat, NEW q \in Nat, NEW d \in Nat \ {0}, NEW r \in 0..(d - 1),
         n = d * q + r
  PROVE  n \div d = q /\ n % d = r
<1>1. (d * q + r) \div d = q /\ (d * q + r) % d = r
  OBVIOUS
<1> QED BY <1>1

\* The little that is needed of multiplication.
LEMMA MultAdd ==
  ASSUME NEW d \in Nat, NEW a \in Int, NEW b \in Int
  PROVE  d * (a + b) = d * a + d * b /\ d * a \in Int /\ (a >= 0 => d * a >= 0)
         /\ d * a = a * d
  OBVIOUS

\* Byte j of block i is among the bytes of q blocks.
LEMMA IndexIn ==
  ASSUME NEW d \in Nat \ {0}, NEW q \in Nat, NEW i \in 1..q, NEW j \in 1..d
  PROVE  d * (i - 1) + j \in 1..(d * q)
<1>1. d * (i - 1) \in Nat /\ d * i = d * (i - 1) + d /\ d * i <= d * q
  OBVIOUS
<1>2. d * q \in Nat
  OBVIOUS
<1> QED BY <1>1, <1>2

\* The quotient and the rest of the length of s.
Divided(s, q, r) == q \in Nat /\ r \in 0..(BlockLen - 1) /\ Len(s) = BlockLen * q + r

\* Every sequence is some blocks and less than one more.
LEMMA Dividing ==
  ASSUME NEW s, IsSeq(s)
  PROVE  \E q, r : /\ Divided(s, q, r)
                   /\ Len(s) \div BlockLen = q /\ Len(s) % BlockLen = r
  BY IsSeqLen, DivMod, BlockLenAssumption DEF Divided

\* The bytes of the blocks of s and of the rest.
LEMMA BlocksIs ==
  ASSUME NEW s, IsSeq(s), NEW q, NEW r, Divided(s, q, r)
  PROVE  /\ IsSeq(FullBlocks(s)) /\ Len(FullBlocks(s)) = q
         /\ \A i \in 1..q :
              /\ IsSeq(FullBlocks(s)[i]) /\ Len(FullBlocks(s)[i]) = BlockLen
              /\ \A j \in 1..BlockLen :
                   FullBlocks(s)[i][j] = s[BlockLen * (i - 1) + j]
         /\ IsSeq(Tail0(s)) /\ Len(Tail0(s)) = r
         /\ \A j \in 1..r : Tail0(s)[j] = s[BlockLen * q + j]
<1>1. Len(s) \in Nat /\ q \in Nat /\ r \in 0..(BlockLen - 1)
      /\ Len(s) = BlockLen * q + r
  BY IsSeqLen DEF Divided
<1>0. Len(s) \div BlockLen = q
  BY <1>1, DivUnique, BlockLenAssumption
<1>2. IsSeq(FullBlocks(s)) /\ Len(FullBlocks(s)) = q
  BY <1>1, <1>0, SeqFcn DEF FullBlocks
<1>3. ASSUME NEW i \in 1..q
      PROVE  /\ IsSeq(FullBlocks(s)[i]) /\ Len(FullBlocks(s)[i]) = BlockLen
             /\ \A j \in 1..BlockLen :
                   FullBlocks(s)[i][j] = s[BlockLen * (i - 1) + j]
  <2>1. FullBlocks(s)[i] = SubSeq(s, (i - 1) * BlockLen + 1, i * BlockLen)
    BY <1>0 DEF FullBlocks
  <2>2. BlockLen * i <= BlockLen * q /\ BlockLen * i = BlockLen * (i - 1) + BlockLen
        /\ BlockLen * (i - 1) \in Nat
    BY <1>1, <1>3, BlockLenAssumption
  <2>3. (i - 1) * BlockLen = BlockLen * (i - 1) /\ i * BlockLen = BlockLen * i
    BY <1>1, BlockLenAssumption
  <2>4. BlockLen * i <= Len(s)
    BY <1>1, <2>2, BlockLenAssumption
  <2> QED BY <1>1, <2>1, <2>2, <2>3, <2>4, SubSeqIs, BlockLenAssumption
<1>4. q * BlockLen = BlockLen * q /\ BlockLen * q \in 0..Len(s)
  BY <1>1, BlockLenAssumption
<1>5. Tail0(s) = Behind(s, BlockLen * q)
  BY <1>0, <1>4 DEF Tail0
<1>6. Len(s) - BlockLen * q = r
  BY <1>1, <1>4
<1>7. /\ IsSeq(Tail0(s)) /\ Len(Tail0(s)) = r
      /\ \A j \in 1..r : Tail0(s)[j] = s[BlockLen * q + j]
  <2>1. /\ IsSeq(Behind(s, BlockLen * q))
        /\ Len(Behind(s, BlockLen * q)) = Len(s) - BlockLen * q
        /\ \A j \in 1..(Len(s) - BlockLen * q) :
             Behind(s, BlockLen * q)[j] = s[BlockLen * q + j]
    BY <1>4, FirstIs
  <2> QED BY <1>5, <1>6, <2>1
<1> QED BY <1>2, <1>3, <1>7

\* A block is known by its bytes.
LEMMA BlockSame ==
  ASSUME NEW s, IsSeq(s), NEW q, NEW r, Divided(s, q, r),
         NEW t, IsSeq(t), NEW p, NEW x, Divided(t, p, x),
         NEW i \in 1..q, NEW k \in 1..p,
         \A j \in 1..BlockLen :
            s[BlockLen * (i - 1) + j] = t[BlockLen * (k - 1) + j]
  PROVE  FullBlocks(s)[i] = FullBlocks(t)[k]
<1>1. /\ IsSeq(FullBlocks(s)[i]) /\ Len(FullBlocks(s)[i]) = BlockLen
      /\ \A j \in 1..BlockLen : FullBlocks(s)[i][j] = s[BlockLen * (i - 1) + j]
  <2>1. \A m \in 1..q :
           /\ IsSeq(FullBlocks(s)[m]) /\ Len(FullBlocks(s)[m]) = BlockLen
           /\ \A j \in 1..BlockLen : FullBlocks(s)[m][j] = s[BlockLen * (m - 1) + j]
    BY ONLY BlocksIs, IsSeq(s), Divided(s, q, r)
  <2> QED BY ONLY <2>1, i \in 1..q
<1>2. /\ IsSeq(FullBlocks(t)[k]) /\ Len(FullBlocks(t)[k]) = BlockLen
      /\ \A j \in 1..BlockLen : FullBlocks(t)[k][j] = t[BlockLen * (k - 1) + j]
  <2>1. \A m \in 1..p :
           /\ IsSeq(FullBlocks(t)[m]) /\ Len(FullBlocks(t)[m]) = BlockLen
           /\ \A j \in 1..BlockLen : FullBlocks(t)[m][j] = t[BlockLen * (m - 1) + j]
    BY ONLY BlocksIs, IsSeq(t), Divided(t, p, x)
  <2> QED BY ONLY <2>1, k \in 1..p
<1>3. \A j \in 1..Len(FullBlocks(s)[i]) : FullBlocks(s)[i][j] = FullBlocks(t)[k][j]
  BY <1>1, <1>2
<1> QED BY ONLY <1>1, <1>2, <1>3, SeqSame

\* v starts with the blocks of s and goes on with u: its blocks are those of s
\* and then those of u, and what is left over is that of u.
LEMMA BlocksSplit ==
  ASSUME NEW v, IsSeq(v), NEW s, IsSeq(s), NEW u, IsSeq(u),
         NEW q, NEW r, Divided(s, q, r), Len(v) = BlockLen * q + Len(u),
         \A j \in 1..(BlockLen * q) : v[j] = s[j],
         \A j \in 1..Len(u) : v[BlockLen * q + j] = u[j]
  PROVE  FullBlocks(v) = FullBlocks(s) \o FullBlocks(u) /\ Tail0(v) = Tail0(u)
<1>1. PICK m, x : Divided(u, m, x)
  BY Dividing
<1> DEFINE w == FullBlocks(s) \o FullBlocks(u)
<1>2. q \in Nat /\ m \in Nat /\ x \in 0..(BlockLen - 1) /\ Len(u) = BlockLen * m + x
      /\ BlockLen \in Nat \ {0}
  BY <1>1, BlockLenAssumption DEF Divided
<1>0. BlockLen * (q + m) = BlockLen * q + BlockLen * m
      /\ BlockLen * m \in Nat /\ BlockLen * q \in Nat
  BY <1>2, MultAdd
<1>d. Divided(v, q + m, x)
  BY <1>0, <1>2 DEF Divided
<1>3. IsSeq(FullBlocks(v)) /\ Len(FullBlocks(v)) = q + m
  BY <1>d, BlocksIs
<1>s. IsSeq(FullBlocks(s)) /\ Len(FullBlocks(s)) = q
  BY BlocksIs
<1>u. IsSeq(FullBlocks(u)) /\ Len(FullBlocks(u)) = m
  BY <1>1, BlocksIs
<1>4. /\ IsSeq(w) /\ Len(w) = q + m
      /\ \A i \in 1..(q + m) : w[i] = IF i <= q THEN FullBlocks(s)[i]
                                      ELSE FullBlocks(u)[i - q]
  BY <1>s, <1>u, ConcatIs, ZenonT(60)
<1>5. ASSUME NEW i \in 1..(q + m) PROVE FullBlocks(v)[i] = w[i]
  <2>1. CASE i <= q
    <3>0. i \in 1..q
      BY <2>1, <1>2
    <3>1. ASSUME NEW j \in 1..BlockLen
          PROVE  BlockLen * (i - 1) + j \in 1..(BlockLen * q)
      BY <3>0, <1>2, IndexIn
    <3>2. \A j \in 1..BlockLen :
            v[BlockLen * (i - 1) + j] = s[BlockLen * (i - 1) + j]
      BY <3>1
    <3>3. FullBlocks(v)[i] = FullBlocks(s)[i]
      BY <3>0, <3>2, <1>d, BlockSame
    <3> QED BY <3>3, <2>1, <1>4
  <2>2. CASE ~(i <= q)
    <3>1. i - q \in 1..m
      BY <2>2, <1>2
    <3>2. ASSUME NEW j \in 1..BlockLen
          PROVE  v[BlockLen * (i - 1) + j] = u[BlockLen * ((i - q) - 1) + j]
      <4>1. BlockLen * (q + ((i - q) - 1)) = BlockLen * q + BlockLen * ((i - q) - 1)
            /\ BlockLen * ((i - q) - 1) \in Int
        BY <3>1, <1>2, MultAdd
      <4>2. BlockLen * ((i - q) - 1) + j \in 1..(BlockLen * m)
        BY <3>1, <1>2, IndexIn
      <4>3. BlockLen * ((i - q) - 1) + j \in 1..Len(u)
        BY <4>2, <1>2, <1>0
      <4>4. q + ((i - q) - 1) = i - 1
        BY <1>2
      <4>5. BlockLen * (i - 1) + j = BlockLen * q + (BlockLen * ((i - q) - 1) + j)
        BY <4>1, <4>4, <1>0
      <4> QED BY <4>3, <4>5
    <3>3. FullBlocks(v)[i] = FullBlocks(u)[i - q]
      BY <3>1, <3>2, <1>d, <1>1, BlockSame
    <3> QED BY <3>3, <2>2, <1>4
  <2> QED BY <2>1, <2>2
<1> HIDE DEF w
<1>6. FullBlocks(v) = w
  BY <1>3, <1>4, <1>5, SeqSame
<1>7. Tail0(v) = Tail0(u)
  <2>1. /\ IsSeq(Tail0(v)) /\ Len(Tail0(v)) = x
        /\ \A j \in 1..x : Tail0(v)[j] = v[BlockLen * (q + m) + j]
    BY <1>d, BlocksIs
  <2>2. /\ IsSeq(Tail0(u)) /\ Len(Tail0(u)) = x
        /\ \A j \in 1..x : Tail0(u)[j] = u[BlockLen * m + j]
    BY <1>1, BlocksIs
  <2>3. ASSUME NEW j \in 1..x
        PROVE  v[BlockLen * (q + m) + j] = u[BlockLen * m + j]
    <3>1. BlockLen * (q + m) + j = BlockLen * q + (BlockLen * m + j)
      BY <1>0, <1>2
    <3>2. BlockLen * m + j \in 1..Len(u)
      BY <1>0, <1>2
    <3> QED BY <3>1, <3>2
  <2> QED BY <2>1, <2>2, <2>3, SeqSame
<1> QED BY <1>6, <1>7 DEF w

\* Bytes that arrive in two parts: the blocks of the whole are those of the
\* first part and those of its rest with the second part behind it.  Everything
\* below about buffers rests on this.
LEMMA BlocksConcat ==
  ASSUME NEW s, IsSeq(s), NEW t, IsSeq(t)
  PROVE  /\ FullBlocks(s \o t) = FullBlocks(s) \o FullBlocks(Tail0(s) \o t)
         /\ Tail0(s \o t) = Tail0(Tail0(s) \o t)
<1>1. PICK q, r : Divided(s, q, r)
  BY Dividing
<1> DEFINE v == s \o t
           u == Tail0(s) \o t
<1>2. Len(s) \in Nat /\ Len(t) \in Nat /\ q \in Nat /\ r \in Nat
      /\ Len(s) = BlockLen * q + r /\ BlockLen * q \in Nat
  BY <1>1, IsSeqLen, MultAdd, BlockLenAssumption DEF Divided
<1>3. /\ IsSeq(v) /\ Len(v) = Len(s) + Len(t)
      /\ \A i \in 1..(Len(s) + Len(t)) : v[i] = IF i <= Len(s) THEN s[i] ELSE t[i - Len(s)]
  BY ConcatIs
<1>4. /\ IsSeq(Tail0(s)) /\ Len(Tail0(s)) = r
      /\ \A j \in 1..r : Tail0(s)[j] = s[BlockLen * q + j]
  BY <1>1, BlocksIs
<1>5. /\ IsSeq(u) /\ Len(u) = r + Len(t)
      /\ \A i \in 1..(r + Len(t)) : u[i] = IF i <= r THEN Tail0(s)[i] ELSE t[i - r]
  BY <1>4, ConcatIs
<1> HIDE DEF v, u
<1>6. \A j \in 1..(BlockLen * q) : v[j] = s[j]
  BY <1>2, <1>3
<1>7. ASSUME NEW j \in 1..Len(u) PROVE v[BlockLen * q + j] = u[j]
  <2>1. CASE j <= r
    <3>1. BlockLen * q + j \in 1..Len(s) /\ j \in 1..r
      BY <2>1, <1>2, <1>5
    <3> QED BY <3>1, <1>2, <1>3, <1>4, <1>5
  <2>2. CASE ~(j <= r)
    <3>1. /\ BlockLen * q + j \in 1..(Len(s) + Len(t))
          /\ ~(BlockLen * q + j <= Len(s))
          /\ (BlockLen * q + j) - Len(s) = j - r
      BY <2>2, <1>2, <1>5
    <3>2. v[BlockLen * q + j] = t[j - r]
      BY <3>1, <1>3
    <3> QED BY <3>2, <2>2, <1>5
  <2> QED BY <2>1, <2>2
<1>8. Len(v) = BlockLen * q + Len(u)
  BY <1>2, <1>3, <1>5
<1>9. FullBlocks(v) = FullBlocks(s) \o FullBlocks(u) /\ Tail0(v) = Tail0(u)
  BY <1>1, <1>3, <1>5, <1>6, <1>7, <1>8, BlocksSplit
<1> QED BY <1>9 DEF v, u

\* Less than a block, and just one.
LEMMA FewBytes ==
  ASSUME NEW s, IsSeq(s)
  PROVE  /\ Len(s) < BlockLen => FullBlocks(s) = <<>> /\ Tail0(s) = s
         /\ Len(s) = BlockLen => FullBlocks(s) = <<s>> /\ Tail0(s) = <<>>
         /\ Len(s) % BlockLen = 0 => Tail0(s) = <<>>
         /\ IsSeq(Tail0(s)) /\ IsSeq(FullBlocks(s)) /\ Len(Tail0(s)) < BlockLen
<1>0. Len(s) \in Nat /\ BlockLen \in Nat \ {0}
  BY IsSeqLen, BlockLenAssumption
<1>1. ASSUME Len(s) < BlockLen PROVE FullBlocks(s) = <<>> /\ Tail0(s) = s
  <2>1. Divided(s, 0, Len(s)) /\ BlockLen * 0 = 0
    BY <1>0, <1>1 DEF Divided
  <2>2. IsSeq(FullBlocks(s)) /\ Len(FullBlocks(s)) = 0
    BY <2>1, BlocksIs
  <2>3. IsSeq(Tail0(s)) /\ Len(Tail0(s)) = Len(s)
        /\ \A j \in 1..Len(s) : Tail0(s)[j] = s[BlockLen * 0 + j]
    BY <2>1, BlocksIs
  <2>4. \A j \in 1..Len(s) : Tail0(s)[j] = s[j]
    BY <2>1, <2>3, <1>0
  <2> QED BY <2>2, <2>3, <2>4, SeqSame, EmptyIs
<1>2. ASSUME Len(s) = BlockLen PROVE FullBlocks(s) = <<s>> /\ Tail0(s) = <<>>
  <2>1. Divided(s, 1, 0) /\ BlockLen * (1 - 1) = 0
    BY <1>0, <1>2 DEF Divided
  <2>2. IsSeq(FullBlocks(s)) /\ Len(FullBlocks(s)) = 1
    BY <2>1, BlocksIs
  <2>4. IsSeq(FullBlocks(s)[1]) /\ Len(FullBlocks(s)[1]) = BlockLen
        /\ \A j \in 1..BlockLen : FullBlocks(s)[1][j] = s[BlockLen * (1 - 1) + j]
    <3>1. \A i \in 1..1 :
            /\ IsSeq(FullBlocks(s)[i]) /\ Len(FullBlocks(s)[i]) = BlockLen
            /\ \A j \in 1..BlockLen :
                 FullBlocks(s)[i][j] = s[BlockLen * (i - 1) + j]
      BY ONLY <2>1, BlocksIs, IsSeq(s)
    <3> QED BY ONLY <3>1
  <2>5. FullBlocks(s)[1] = s
    BY <2>1, <2>4, <1>2, SeqSame
  <2>6. FullBlocks(s) = <<s>>
    <3>1. FullBlocks(s) \in Seq({s})
      BY <2>2, <2>5, InSeq
    <3> QED BY <3>1, <2>2, <2>5
  <2>7. Tail0(s) = <<>>
    BY <2>1, BlocksIs, EmptyIs
  <2> QED BY <2>6, <2>7
<1>3. PICK q, r : Divided(s, q, r) /\ Len(s) % BlockLen = r
  BY Dividing
<1>4. IsSeq(Tail0(s)) /\ IsSeq(FullBlocks(s)) /\ Len(Tail0(s)) = r
  BY <1>3, BlocksIs
<1> QED BY <1>0, <1>1, <1>2, <1>3, <1>4, EmptyIs DEF Divided

\* Rests of small numbers and of multiples.
LEMMA RestIs ==
  ASSUME NEW n \in Nat
  PROVE  /\ n < BlockLen => n % BlockLen = n
         /\ n = BlockLen => n % BlockLen = 0
         /\ \A q \in Nat : n = BlockLen * q => n % BlockLen = 0
<1>1. BlockLen \in Nat \ {0} /\ 0 \in 0..(BlockLen - 1)
  BY BlockLenAssumption
<1>2. ASSUME n < BlockLen PROVE n % BlockLen = n
  <2>1. n = BlockLen * 0 + n /\ n \in 0..(BlockLen - 1)
    BY <1>1, <1>2
  <2> QED BY <2>1, <1>1, DivUnique
<1>3. ASSUME NEW q \in Nat, n = BlockLen * q PROVE n % BlockLen = 0
  <2>1. n = BlockLen * q + 0
    BY <1>1, <1>3
  <2> QED BY <2>1, <1>1, DivUnique
<1>4. BlockLen = BlockLen * 1
  BY <1>1
<1> QED BY <1>2, <1>3, <1>4

-----------------------------------------------------------------------------
(* Small facts *)

\* One element more, at the end.
LEMMA AppendIs ==
  ASSUME NEW s, IsSeq(s), NEW x
  PROVE  Append(s, x) = s \o <<x>> /\ IsSeq(<<x>>) /\ Len(<<x>>) = 1
         /\ IsSeq(Append(s, x)) /\ Len(Append(s, x)) = Len(s) + 1
<1> DEFINE S == {s[i] : i \in 1..Len(s)} \cup {x}
<1>1. s \in Seq(S)
  BY InSeq DEF IsSeq
<1>2. x \in S
  OBVIOUS
<1> HIDE DEF S
<1>3. <<x>> \in Seq(S) /\ Len(<<x>>) = 1
  BY <1>2
<1>4. Append(s, x) = s \o <<x>>
  BY <1>1, <1>2, AppendIsConcat
<1>5. IsSeq(<<x>>)
  BY <1>3, SeqIs
<1> QED BY <1>3, <1>4, <1>5, ConcatIs

\* The lesser of two numbers.
LEMMA LesserIs ==
  ASSUME NEW m \in Nat, NEW n \in Nat
  PROVE  /\ Lesser(m, n) \in Nat /\ Lesser(m, n) <= m /\ Lesser(m, n) <= n
         /\ (m <= n => Lesser(m, n) = m) /\ (n <= m => Lesser(m, n) = n)
  BY DEF Lesser

\* Zeros are a sequence.
LEMMA ZerosIs ==
  ASSUME NEW n \in Nat
  PROVE  IsSeq(Zeros(n)) /\ Len(Zeros(n)) = n /\ \A i \in 1..n : Zeros(n)[i] = Byte0
  BY SeqFcn DEF Zeros

\* Nothing of a sequence, and all of it.
LEMMA FirstAll ==
  ASSUME NEW s, IsSeq(s)
  PROVE  /\ First(s, 0) = <<>> /\ Behind(s, 0) = s
         /\ First(s, Len(s)) = s /\ Behind(s, Len(s)) = <<>>
<1>1. Len(s) \in Nat /\ 0 \in 0..Len(s) /\ Len(s) \in 0..Len(s)
  BY IsSeqLen
<1>2. IsSeq(First(s, 0)) /\ Len(First(s, 0)) = 0 /\ First(s, 0) \o Behind(s, 0) = s
      /\ IsSeq(Behind(s, 0))
  BY <1>1, FirstIs
<1>3. /\ IsSeq(Behind(s, Len(s))) /\ Len(Behind(s, Len(s))) = Len(s) - Len(s)
      /\ First(s, Len(s)) \o Behind(s, Len(s)) = s /\ IsSeq(First(s, Len(s)))
  BY <1>1, FirstIs
<1>4. First(s, 0) = <<>> /\ Behind(s, Len(s)) = <<>>
  BY <1>1, <1>2, <1>3, EmptyIs
<1> QED BY <1>2, <1>3, <1>4, ConcatEmpty

\* What is cut off a concatenation at its seam.
LEMMA ConcatParts ==
  ASSUME NEW s, IsSeq(s), NEW t, IsSeq(t)
  PROVE  First(s \o t, Len(s)) = s /\ Behind(s \o t, Len(s)) = t
<1>1. /\ IsSeq(s \o t) /\ Len(s \o t) = Len(s) + Len(t) /\ Len(s) \in Nat /\ Len(t) \in Nat
      /\ \A i \in 1..(Len(s) + Len(t)) :
              (s \o t)[i] = IF i <= Len(s) THEN s[i] ELSE t[i - Len(s)]
  BY ConcatIs, IsSeqLen
<1> DEFINE u == s \o t
           f == First(u, Len(s))
           b == Behind(u, Len(s))
<1> HIDE DEF u
<1>2. /\ IsSeq(f) /\ Len(f) = Len(s) /\ \A i \in 1..Len(s) : f[i] = u[i]
      /\ IsSeq(b) /\ Len(b) = Len(u) - Len(s)
      /\ \A i \in 1..(Len(u) - Len(s)) : b[i] = u[Len(s) + i]
  <2>1. Len(s) \in 0..Len(u) /\ IsSeq(u)
    BY <1>1 DEF u
  <2> QED BY <2>1, FirstIs
<1> HIDE DEF f, b
<1>3. \A i \in 1..Len(s) : f[i] = s[i]
  BY <1>1, <1>2 DEF u
<1>4. Len(b) = Len(t) /\ \A i \in 1..Len(t) : b[i] = t[i]
  <2>1. Len(u) - Len(s) = Len(t)
    BY <1>1 DEF u
  <2>2. ASSUME NEW i \in 1..Len(t) PROVE b[i] = t[i]
    <3>1. Len(s) + i \in 1..(Len(s) + Len(t)) /\ ~(Len(s) + i <= Len(s))
          /\ (Len(s) + i) - Len(s) = i
      BY <1>1
    <3>2. u[Len(s) + i] = t[(Len(s) + i) - Len(s)]
      BY <3>1, <1>1 DEF u
    <3> QED BY <3>1, <3>2, <2>1, <1>2
  <2> QED BY <2>1, <2>2, <1>2
<1>5. f = s /\ b = t
  BY <1>2, <1>3, <1>4, SeqSame
<1> QED BY <1>5 DEF f, b, u

\* Whole blocks in front.
LEMMA WholeInFront ==
  ASSUME NEW s, IsSeq(s), NEW t, IsSeq(t), Len(s) % BlockLen = 0
  PROVE  FullBlocks(s \o t) = FullBlocks(s) \o FullBlocks(t) /\ Tail0(s \o t) = Tail0(t)
<1>1. Tail0(s) = <<>> /\ <<>> \o t = t
  BY FewBytes, ConcatEmpty
<1>2. /\ FullBlocks(s \o t) = FullBlocks(s) \o FullBlocks(Tail0(s) \o t)
      /\ Tail0(s \o t) = Tail0(Tail0(s) \o t)
  BY BlocksConcat
<1> QED BY ONLY <1>1, <1>2

-----------------------------------------------------------------------------
(* The block hashes *)

\* The context that has taken in s.
ShaOf(s) == [hash |-> FullBlocks(s), buf |-> Tail0(s), out |-> None]

\* Writing t to it.
LEMMA ShaWrites ==
  ASSUME NEW s, IsSeq(s), NEW t, IsSeq(t)
  PROVE  MdBlockWrite(ShaOf(s), t) = ShaOf(s \o t)
<1> DEFINE c == ShaOf(s)
           b == Tail0(s)
           n == IF b = <<>> THEN 0 ELSE Lesser(BlockLen - Len(b), Len(t))
           u == b \o First(t, n)
           w == Behind(t, n)
           full == Len(u) = BlockLen
           g == IF full THEN Append(c.hash, u) ELSE c.hash
<1>1. /\ IsSeq(b) /\ IsSeq(FullBlocks(s)) /\ Len(b) < BlockLen /\ BlockLen \in Nat \ {0}
      /\ Len(b) \in Nat /\ Len(t) \in Nat
      /\ c.hash = FullBlocks(s) /\ c.buf = b
  BY FewBytes, BlockLenAssumption, IsSeqLen DEF ShaOf
<1>2. /\ FullBlocks(s \o t) = FullBlocks(s) \o FullBlocks(b \o t)
      /\ Tail0(s \o t) = Tail0(b \o t)
  BY BlocksConcat
<1>e. FullBlocks(<<>>) = <<>> /\ Tail0(<<>>) = <<>> /\ IsSeq(<<>>) /\ Len(<<>>) = 0
  BY FewBytes, EmptyIs, BlockLenAssumption
<1>3. MdBlockWrite(c, t) =
        IF w = <<>> THEN [c EXCEPT !.hash = g, !.buf = IF full THEN <<>> ELSE u]
        ELSE [c EXCEPT !.hash = g \o FullBlocks(w), !.buf = Tail0(w)]
  BY <1>1 DEF MdBlockWrite
<1>n. /\ n = IF b = <<>> THEN 0 ELSE Lesser(BlockLen - Len(b), Len(t))
      /\ u = b \o First(t, n) /\ w = Behind(t, n)
  OBVIOUS
<1>g. /\ (full <=> Len(u) = BlockLen)
      /\ g = IF full THEN Append(FullBlocks(s), u) ELSE FullBlocks(s)
  BY <1>1
<1>c. c = [hash |-> FullBlocks(s), buf |-> b, out |-> None]
  BY DEF ShaOf
<1>p. ShaOf(s \o t) = [hash |-> FullBlocks(s) \o FullBlocks(b \o t),
                      buf |-> Tail0(b \o t), out |-> None]
  BY <1>2 DEF ShaOf
<1>f. FullBlocks(s) \o <<>> = FullBlocks(s)
  BY <1>1, ConcatEmpty
<1> HIDE DEF c, b, n, u, w, full, g
<1>o. ASSUME NEW f, NEW v
      PROVE  [c EXCEPT !.hash = f, !.buf = v] = [hash |-> f, buf |-> v, out |-> None]
  <2>1. [c EXCEPT !.hash = f, !.buf = v] \in [hash : {f}, buf : {v}, out : {None}]
    BY ONLY <1>c
  <2>2. \A x \in [hash : {f}, buf : {v}, out : {None}] :
           x = [hash |-> f, buf |-> v, out |-> None]
    BY ONLY TRUE
  <2> QED BY ONLY <2>1, <2>2
<1>4. CASE b = <<>>
  <2>1. n = 0 /\ First(t, 0) = <<>> /\ Behind(t, 0) = t /\ <<>> \o t = t /\ <<>> \o <<>> = <<>>
    BY <1>4, <1>n, <1>e, FirstAll, ConcatEmpty
  <2>2. w = t /\ u = <<>> /\ b \o t = t
    BY ONLY <2>1, <1>n, <1>4
  <2>3. ~full
    BY ONLY <2>2, <1>g, <1>e, <1>1
  <2>4. g = FullBlocks(s)
    BY ONLY <2>3, <1>g
  <2>5. CASE t = <<>>
    <3>1. MdBlockWrite(c, t) = [hash |-> FullBlocks(s), buf |-> <<>>, out |-> None]
      BY ONLY <2>2, <2>3, <2>4, <2>5, <1>3, <1>o
    <3> QED BY ONLY <3>1, <1>p, <2>2, <2>5, <1>e, <1>f, c = ShaOf(s) DEF c
  <2>6. CASE t # <<>>
    <3>1. MdBlockWrite(c, t) =
            [hash |-> FullBlocks(s) \o FullBlocks(t), buf |-> Tail0(t), out |-> None]
      BY ONLY <2>2, <2>4, <2>6, <1>3, <1>o
    <3> QED BY ONLY <3>1, <1>p, <2>2 DEF c
  <2> QED BY <2>5, <2>6
<1>5. CASE b # <<>> /\ Len(t) < BlockLen - Len(b)
  <2>0. BlockLen - Len(b) \in Nat
    BY <1>1
  <2>1. n = Len(t)
    BY <2>0, <1>5, <1>1, <1>n, LesserIs
  <2>2. First(t, Len(t)) = t /\ Behind(t, Len(t)) = <<>>
    BY FirstAll
  <2>3. w = <<>> /\ u = b \o t
    BY ONLY <2>1, <2>2, <1>n
  <2>4. IsSeq(u) /\ Len(u) = Len(b) + Len(t)
    BY <2>3, <1>1, ConcatIs
  <2>5. Len(u) < BlockLen
    BY <2>4, <1>5, <1>1
  <2>6. FullBlocks(u) = <<>> /\ Tail0(u) = u
    BY <2>4, <2>5, FewBytes
  <2>7. ~full
    BY ONLY <2>5, <2>4, <1>1, <1>g
  <2>8. g = FullBlocks(s)
    BY ONLY <2>7, <1>g
  <2>9. MdBlockWrite(c, t) = [hash |-> FullBlocks(s), buf |-> u, out |-> None]
    BY ONLY <2>3, <2>7, <2>8, <1>3, <1>o
  <2> QED BY ONLY <2>9, <2>6, <2>3, <1>p, <1>f DEF c
<1>6. CASE b # <<>> /\ ~(Len(t) < BlockLen - Len(b))
  <2>0. BlockLen - Len(b) \in Nat
    BY <1>1
  <2>1. n = BlockLen - Len(b) /\ n \in 0..Len(t)
    BY <2>0, <1>6, <1>1, <1>n, LesserIs
  <2>2. /\ IsSeq(First(t, n)) /\ Len(First(t, n)) = n /\ IsSeq(Behind(t, n))
        /\ First(t, n) \o Behind(t, n) = t
    BY <2>1, FirstIs
  <2>3. /\ IsSeq(w) /\ First(t, n) \o w = t
    BY ONLY <2>2, <1>n
  <2>4. IsSeq(b \o First(t, n)) /\ Len(b \o First(t, n)) = Len(b) + n
    BY <2>2, <1>1, ConcatIs
  <2>5. IsSeq(u) /\ Len(u) = BlockLen
    <3>1. u = b \o First(t, n)
      BY ONLY <1>n
    <3>2. Len(b) + n = BlockLen
      BY ONLY <2>1, <1>1
    <3> QED BY ONLY <3>1, <3>2, <2>4
  <2>6. (b \o First(t, n)) \o w = b \o (First(t, n) \o w)
    <3>1. IsSeq(b) /\ IsSeq(First(t, n)) /\ IsSeq(w)
      BY ONLY <2>2, <2>3, <1>1
    <3> QED BY ONLY <3>1, ConcatAssoc
  <2>7. b \o t = u \o w
    BY ONLY <2>3, <2>6, <1>n
  <2>8. FullBlocks(u) = <<u>> /\ Tail0(u) = <<>>
    BY <2>5, FewBytes
  <2>9. Len(u) % BlockLen = 0
    BY <2>5, <1>1
  <2>10. FullBlocks(u \o w) = <<u>> \o FullBlocks(w) /\ Tail0(u \o w) = Tail0(w)
    BY <2>3, <2>5, <2>8, <2>9, WholeInFront
  <2>11. g = FullBlocks(s) \o <<u>> /\ IsSeq(g) /\ IsSeq(<<u>>) /\ full
    BY <2>5, <1>g, <1>1, AppendIs
  <2>12. IsSeq(FullBlocks(w))
    BY <2>3, FewBytes
  <2>13. (FullBlocks(s) \o <<u>>) \o FullBlocks(w) = FullBlocks(s) \o (<<u>> \o FullBlocks(w))
    BY <2>11, <2>12, <1>1, ConcatAssoc
  <2>14. ShaOf(s \o t) = [hash |-> g \o FullBlocks(w), buf |-> Tail0(w), out |-> None]
    BY ONLY <2>7, <2>10, <2>11, <2>13, <1>p
  <2>15. CASE w = <<>>
    <3>1. MdBlockWrite(c, t) = [hash |-> g, buf |-> <<>>, out |-> None]
      BY ONLY <2>15, <2>11, <1>3, <1>o
    <3>2. g \o <<>> = g
      BY <2>11, ConcatEmpty
    <3> QED BY ONLY <3>1, <3>2, <2>14, <2>15, <1>e DEF c
  <2>16. CASE w # <<>>
    <3>1. MdBlockWrite(c, t) = [hash |-> g \o FullBlocks(w), buf |-> Tail0(w), out |-> None]
      BY ONLY <2>16, <1>3, <1>o
    <3> QED BY ONLY <3>1, <2>14 DEF c
  <2> QED BY <2>15, <2>16
<1> QED BY <1>4, <1>5, <1>6
\* The zeros of the padding of n bytes.
Pads(n) == {z \in 0..BlockLen : (n + 1 + z + LenField) % BlockLen = 0}

\* What the assumptions say of the lengths.
LEMMA Lengths ==
  /\ BlockLen \in Nat \ {0} /\ LenField \in Nat \ {0} /\ LenField < BlockLen
  /\ Lane \in Nat \ {0} /\ Rate \in Nat \ {0} /\ OutLen \in Nat \ {0}
  /\ Rate % Lane = 0 /\ Rate > Lane
  BY BlockLenAssumption, ContextsAssumption

\* A number between two multiples is none.
LEMMA NoMultiple ==
  ASSUME NEW d \in Nat \ {0}, NEW q \in Nat, NEW n \in Nat, n > d * q, n < d * q + d
  PROVE  n % d # 0
<1>1. d * q \in Nat
  OBVIOUS
<1> DEFINE r == n - d * q
<1>2. r \in 0..(d - 1) /\ r # 0 /\ n = d * q + r
  BY <1>1
<1> HIDE DEF r
<1>3. n % d = r
  BY <1>2, DivUnique
<1> QED BY <1>2, <1>3

\* The least padding that fills a block, which is what sha256_final adds.
LEMMA PadIs ==
  ASSUME NEW q \in Nat, NEW r \in 0..(BlockLen - 1), NEW n \in Nat, n = BlockLen * q + r
  PROVE  LET room == BlockLen - LenField
             up   == IF r < room THEN room ELSE BlockLen + room
             z    == CHOOSE y \in Pads(n) : \A x \in Pads(n) : y <= x
         IN  z = up - (r + 1) /\ up - (r + 1) \in Nat
<1> DEFINE room == BlockLen - LenField
           up   == IF r < room THEN room ELSE BlockLen + room
           k    == IF r < room THEN 1 ELSE 2
           z    == up - (r + 1)
<1>1. /\ BlockLen * q \in Nat /\ BlockLen * (q + 1) = BlockLen * q + BlockLen
      /\ BlockLen * (q + 2) = BlockLen * q + 2 * BlockLen
  BY Lengths
<1>2. z \in 0..BlockLen /\ r + 1 + z + LenField = k * BlockLen
  BY Lengths
<1>3. BlockLen * (q + k) = BlockLen * q + k * BlockLen /\ k \in {1, 2}
      /\ k * BlockLen \in {BlockLen, 2 * BlockLen}
  BY <1>1, Lengths
<1>4. n + 1 + z + LenField = BlockLen * (q + k) + 0
  BY <1>1, <1>2, <1>3, Lengths
<1>5. (n + 1 + z + LenField) % BlockLen = 0
  <2> DEFINE m == n + 1 + z + LenField
             p == q + k
  <2>1. m \in Nat /\ m = BlockLen * p + 0 /\ p \in Nat /\ 0 \in 0..(BlockLen - 1)
    BY <1>2, <1>3, <1>4, Lengths
  <2> HIDE DEF m, p
  <2>2. m % BlockLen = 0
    BY ONLY <2>1, DivUnique, Lengths
  <2> QED BY <2>2 DEF m
<1>6. z \in Pads(n)
  BY <1>2, <1>5 DEF Pads
<1>7. ASSUME NEW y \in Pads(n) PROVE z <= y
  <2>1. SUFFICES ASSUME y < z PROVE FALSE
    BY <1>2, <1>7 DEF Pads
  <2>2. y \in 0..BlockLen /\ (n + 1 + y + LenField) % BlockLen = 0
    BY <1>7 DEF Pads
  <2> DEFINE m == n + 1 + y + LenField
  <2>3. m \in Nat /\ m % BlockLen = 0
    BY <2>2, Lengths
  <2>4. CASE r < room
    <3>1. m > BlockLen * q /\ m < BlockLen * q + BlockLen
      BY <2>1, <2>2, <2>4, <1>1, Lengths
    <3> HIDE DEF m
    <3> QED BY ONLY <3>1, <2>3, NoMultiple, Lengths, q \in Nat
  <2>5. CASE ~(r < room)
    <3>1. m > BlockLen * (q + 1) /\ m < BlockLen * (q + 1) + BlockLen
      BY <2>1, <2>2, <2>5, <1>1, Lengths
    <3>2. q + 1 \in Nat
      OBVIOUS
    <3> HIDE DEF m
    <3> QED BY ONLY <3>1, <3>2, <2>3, NoMultiple, Lengths
  <2> QED BY <2>4, <2>5
<1> DEFINE y == CHOOSE y \in Pads(n) : \A x \in Pads(n) : y <= x
<1> HIDE DEF z
<1>8. y \in Pads(n) /\ \A x \in Pads(n) : y <= x
  BY <1>6, <1>7
<1> HIDE DEF y
<1>0. \A x \in Pads(n) : x \in Int
  BY Lengths DEF Pads
<1>9. y \in Int /\ z \in Int
  BY <1>0, <1>6, <1>8
<1>10. y <= z /\ z <= y
  BY <1>6, <1>7, <1>8
<1>11. y = z
  BY ONLY <1>9, <1>10
<1>12. z \in Nat
  BY <1>2
<1> QED BY <1>11, <1>12 DEF y, z

\* sha256_final gives the digest.
LEMMA ShaFinals ==
  ASSUME NEW s, IsSeq(s)
  PROVE  ShaFinal(ShaOf(s)).out = ShaDigest(s)
<1>1. PICK q, r : Divided(s, q, r)
  BY Dividing
<1>2. q \in Nat /\ r \in 0..(BlockLen - 1) /\ Len(s) \in Nat /\ Len(s) = BlockLen * q + r
  BY <1>1, IsSeqLen DEF Divided
<1>3. /\ IsSeq(FullBlocks(s)) /\ Len(FullBlocks(s)) = q /\ IsSeq(Tail0(s))
      /\ Len(Tail0(s)) = r
  BY <1>1, BlocksIs
<1> DEFINE b == Tail0(s)
           up == IF r < BlockLen - LenField THEN BlockLen - LenField
                 ELSE BlockLen + (BlockLen - LenField)
           z == up - (r + 1)
           n == Len(s)
           x == (<<Byte80>> \o Zeros(z)) \o LengthBytes(n)
<1>4. z = (CHOOSE y \in Pads(n) : \A v \in Pads(n) : y <= v) /\ z \in Nat
  BY <1>2, PadIs
<1>5. q * BlockLen + r = n
  BY <1>2, Lengths
<1>6. ShaDigest(s) =
        <<"sha", FullBlocks((Append(s, Byte80) \o Zeros(z)) \o LengthBytes(n))>>
  BY <1>4 DEF ShaDigest, Pads
<1>7. Append(b, Byte80) = b \o <<Byte80>> /\ Len(Append(b, Byte80)) = r + 1
      /\ Append(s, Byte80) = s \o <<Byte80>> /\ IsSeq(<<Byte80>>)
  BY <1>3, AppendIs
<1>8. ShaFinal(ShaOf(s)).out = <<"sha", FullBlocks(s)
         \o FullBlocks((Append(b, Byte80) \o Zeros(z)) \o LengthBytes(n))>>
  BY <1>3, <1>5, <1>7 DEF ShaFinal, ShaOf
<1>9. IsSeq(Zeros(z)) /\ IsSeq(LengthBytes(n))
  BY <1>4, ZerosIs, SeqFcn, Lengths DEF LengthBytes
<1> HIDE DEF z, n
<1>10. ASSUME NEW v, IsSeq(v)
       PROVE  (Append(v, Byte80) \o Zeros(z)) \o LengthBytes(n) = v \o x
  <2>1. Append(v, Byte80) = v \o <<Byte80>>
    BY <1>10, AppendIs
  <2>2. (v \o <<Byte80>>) \o Zeros(z) = v \o (<<Byte80>> \o Zeros(z))
    BY ONLY <1>7, <1>9, <1>10, ConcatAssoc
  <2>3. IsSeq(<<Byte80>> \o Zeros(z))
    BY ONLY <1>7, <1>9, ConcatIs
  <2>4. (v \o (<<Byte80>> \o Zeros(z))) \o LengthBytes(n) = v \o x
    BY <2>3, <1>9, <1>10, ConcatAssoc
  <2> QED BY ONLY <2>1, <2>2, <2>4
<1>11. IsSeq(x)
  <2>1. IsSeq(<<Byte80>> \o Zeros(z))
    BY ONLY <1>7, <1>9, ConcatIs
  <2> QED BY <2>1, <1>9, ConcatIs
<1> HIDE DEF x
<1>12. FullBlocks(s \o x) = FullBlocks(s) \o FullBlocks(b \o x)
  BY <1>11, BlocksConcat
<1>13. /\ (Append(s, Byte80) \o Zeros(z)) \o LengthBytes(n) = s \o x
       /\ (Append(b, Byte80) \o Zeros(z)) \o LengthBytes(n) = b \o x
  BY <1>3, <1>10
<1> HIDE DEF b
<1> QED BY ONLY <1>6, <1>8, <1>12, <1>13
-----------------------------------------------------------------------------
(* BLAKE2 *)

\* The compressed blocks of p, whole blocks none of which is the last.
Squashed(p) == [i \in 1..Len(FullBlocks(p)) |->
                  Compressed(i * BlockLen, FullBlocks(p)[i], FALSE)]

BlakeCtx(key, p, b) ==
  [param |-> key, hash |-> Squashed(p), buf |-> b, t |-> Len(p), out |-> None]

\* What has been compressed and what waits in the buffer: the buffer is empty at
\* the start only.
BlakeSplit(p, b) ==
  /\ IsSeq(p) /\ IsSeq(b) /\ Len(p) % BlockLen = 0 /\ Len(b) <= BlockLen
  /\ b = <<>> => p = <<>>

\* The context has taken in s.
BlakeHolds(c, key, s) == \E p, b : s = p \o b /\ BlakeSplit(p, b) /\ c = BlakeCtx(key, p, b)

\* Whole blocks: how many.
LEMMA WholeLen ==
  ASSUME NEW p, IsSeq(p), Len(p) % BlockLen = 0
  PROVE  \E q \in Nat : /\ Divided(p, q, 0) /\ Len(p) = BlockLen * q
                        /\ IsSeq(FullBlocks(p)) /\ Len(FullBlocks(p)) = q
<1>1. PICK q, r : Divided(p, q, r) /\ Len(p) % BlockLen = r
  BY Dividing
<1>2. r = 0 /\ q \in Nat /\ Len(p) = BlockLen * q + 0 /\ Divided(p, q, 0)
  BY <1>1 DEF Divided
<1>3. IsSeq(FullBlocks(p)) /\ Len(FullBlocks(p)) = q
  BY <1>2, BlocksIs
<1>4. Len(p) = BlockLen * q
  BY <1>2, Lengths
<1> QED BY <1>2, <1>3, <1>4

\* Whole blocks behind whole blocks are whole blocks.
LEMMA WholeSum ==
  ASSUME NEW p, IsSeq(p), Len(p) % BlockLen = 0, NEW g, IsSeq(g), Len(g) % BlockLen = 0
  PROVE  IsSeq(p \o g) /\ Len(p \o g) = Len(p) + Len(g) /\ Len(p \o g) % BlockLen = 0
<1>1. PICK q \in Nat : Len(p) = BlockLen * q
  BY WholeLen
<1>2. PICK m \in Nat : Len(g) = BlockLen * m
  BY WholeLen
<1>3. IsSeq(p \o g) /\ Len(p \o g) = Len(p) + Len(g)
  BY ConcatIs
<1>4. BlockLen * (q + m) = BlockLen * q + BlockLen * m /\ q + m \in Nat
  BY Lengths, MultAdd
<1>5. Len(p \o g) = BlockLen * (q + m)
  BY <1>1, <1>2, <1>3, <1>4
<1>6. Len(p \o g) \in Nat
  BY <1>3, IsSeqLen
<1> QED BY <1>3, <1>4, <1>5, <1>6, RestIs

\* Compressing goes on where it stopped.
LEMMA Squash ==
  ASSUME NEW p, IsSeq(p), Len(p) % BlockLen = 0, NEW g, IsSeq(g), Len(g) % BlockLen = 0
  PROVE  Squashed(p \o g) = Squashed(p) \o
           [i \in 1..Len(FullBlocks(g)) |->
              Compressed(Len(p) + i * BlockLen, FullBlocks(g)[i], FALSE)]
<1>1. PICK q \in Nat : Len(p) = BlockLen * q /\ IsSeq(FullBlocks(p)) /\ Len(FullBlocks(p)) = q
  BY WholeLen
<1>2. PICK m \in Nat : Len(g) = BlockLen * m /\ IsSeq(FullBlocks(g)) /\ Len(FullBlocks(g)) = m
  BY WholeLen
<1> DEFINE fp == FullBlocks(p)
           fg == FullBlocks(g)
           a == Squashed(p)
           b == [i \in 1..m |-> Compressed(Len(p) + i * BlockLen, fg[i], FALSE)]
           f == FullBlocks(p \o g)
           h == Squashed(p \o g)
<1>3. f = fp \o fg
  BY WholeInFront
<1>4. /\ IsSeq(f) /\ Len(f) = q + m
      /\ \A i \in 1..(q + m) : f[i] = IF i <= q THEN fp[i] ELSE fg[i - q]
  <2>1. /\ IsSeq(fp \o fg) /\ Len(fp \o fg) = q + m
        /\ \A i \in 1..(q + m) : (fp \o fg)[i] = IF i <= q THEN fp[i] ELSE fg[i - q]
    BY <1>1, <1>2, ConcatIs
  <2> QED BY ONLY <2>1, <1>3
<1>5. /\ IsSeq(h) /\ Len(h) = q + m
      /\ \A i \in 1..(q + m) : h[i] = Compressed(i * BlockLen, f[i], FALSE)
  BY <1>4, SeqFcn DEF Squashed
<1>6. /\ IsSeq(a) /\ Len(a) = q /\ \A i \in 1..q : a[i] = Compressed(i * BlockLen, fp[i], FALSE)
  BY <1>1, SeqFcn DEF Squashed
<1>7. /\ IsSeq(b) /\ Len(b) = m
      /\ \A i \in 1..m : b[i] = Compressed(Len(p) + i * BlockLen, fg[i], FALSE)
  BY SeqFcn
<1> HIDE DEF a, b, f, h, fp, fg
<1>8. /\ IsSeq(a \o b) /\ Len(a \o b) = q + m
      /\ \A i \in 1..(q + m) : (a \o b)[i] = IF i <= q THEN a[i] ELSE b[i - q]
  BY <1>6, <1>7, ConcatIs
<1>9. ASSUME NEW i \in 1..(q + m) PROVE h[i] = (a \o b)[i]
  <2>1. CASE i <= q
    <3>1. i \in 1..q
      BY <2>1
    <3> QED BY ONLY <3>1, <2>1, <1>4, <1>5, <1>6, <1>8, <1>9
  <2>2. CASE ~(i <= q)
    <3>1. i - q \in 1..m
      BY <2>2
    <3>2. BlockLen * q + (i - q) * BlockLen = i * BlockLen
      BY Lengths, <3>1
    <3>3. b[i - q] = Compressed(i * BlockLen, fg[i - q], FALSE)
      BY ONLY <3>1, <3>2, <1>1, <1>7
    <3> QED BY ONLY <3>3, <2>2, <1>4, <1>5, <1>8, <1>9
  <2> QED BY <2>1, <2>2
<1>10. h = a \o b
  BY ONLY <1>5, <1>8, <1>9, SeqSame
<1> QED BY <1>2, <1>10 DEF a, b, h, fg

\* blake2_write
LEMMA BlakeWrites ==
  ASSUME NEW c, NEW key, NEW s, BlakeHolds(c, key, s), NEW t, IsSeq(t)
  PROVE  BlakeHolds(BlakeWrite(c, t), key, s \o t)
<1>1. PICK p, b : s = p \o b /\ BlakeSplit(p, b) /\ c = BlakeCtx(key, p, b)
  BY DEF BlakeHolds
<1>2. /\ IsSeq(p) /\ IsSeq(b) /\ Len(p) % BlockLen = 0 /\ Len(b) <= BlockLen
      /\ (b = <<>> => p = <<>>) /\ Len(p) \in Nat /\ Len(b) \in Nat /\ Len(t) \in Nat
      /\ BlockLen \in Nat \ {0}
  BY <1>1, IsSeqLen, Lengths DEF BlakeSplit
<1>3. /\ c.param = key /\ c.hash = Squashed(p) /\ c.buf = b /\ c.t = Len(p) /\ c.out = None
  BY <1>1 DEF BlakeCtx
<1>s. IsSeq(p) /\ IsSeq(b) /\ IsSeq(t)
  BY <1>2
<1>4. s \o t = p \o (b \o t)
  BY <1>1, <1>2, ConcatAssoc
<1>5. CASE Len(t) <= BlockLen - Len(b)
  <2>1. BlakeWrite(c, t) = [c EXCEPT !.buf = b \o t]
    BY <1>3, <1>5 DEF BlakeWrite
  <2>2. [c EXCEPT !.buf = b \o t] = BlakeCtx(key, p, b \o t)
    <3> DEFINE R == [param : {key}, hash : {Squashed(p)}, buf : {b \o t}, t : {Len(p)},
                     out : {None}]
    <3>1. [c EXCEPT !.buf = b \o t] \in R
      BY ONLY <1>1 DEF BlakeCtx
    <3>2. \A x \in R : x = BlakeCtx(key, p, b \o t)
      BY ONLY TRUE DEF BlakeCtx
    <3> QED BY ONLY <3>1, <3>2
  <2>3. IsSeq(b \o t) /\ Len(b \o t) = Len(b) + Len(t)
    BY <1>2, ConcatIs
  <2>4. b \o t = <<>> => p = <<>>
    <3>1. SUFFICES ASSUME b \o t = <<>> PROVE p = <<>>
      OBVIOUS
    <3>2. Len(b) = 0
      BY <3>1, <2>3, <1>2, EmptyIs
    <3> QED BY <3>2, <1>2, EmptyIs
  <2>5. BlakeSplit(p, b \o t)
    BY <2>3, <2>4, <1>2, <1>5 DEF BlakeSplit
  <2> QED BY ONLY <2>1, <2>2, <2>5, <1>4 DEF BlakeHolds
<1>6. CASE ~(Len(t) <= BlockLen - Len(b))
  <2> DEFINE fill == BlockLen - Len(b)
             f == First(t, fill)
             rest == Behind(t, fill)
             n == (Len(rest) - 1) \div BlockLen
             g == First(rest, n * BlockLen)
             v == Behind(rest, n * BlockLen)
             u == b \o f
             new == <<u>> \o FullBlocks(g)
             more == [i \in 1..Len(new) |-> Compressed(Len(p) + i * BlockLen, new[i], FALSE)]
  <2>1. BlakeWrite(c, t) = [c EXCEPT !.hash = Squashed(p) \o more,
                                     !.t = Len(p) + Len(new) * BlockLen, !.buf = v]
    BY <1>3, <1>6 DEF BlakeWrite
  <2>n. n = (Len(rest) - 1) \div BlockLen
    OBVIOUS
  <2> HIDE DEF n
  <2>2. /\ IsSeq(f) /\ Len(f) = fill /\ IsSeq(rest) /\ Len(rest) = Len(t) - fill
        /\ f \o rest = t /\ fill \in 0..Len(t)
    <3>1. fill \in 0..Len(t)
      BY <1>2, <1>6
    <3> QED BY <3>1, FirstIs
  <2>3. Len(rest) - 1 \in Nat
    BY <2>2, <1>2, <1>6
  <2>4. PICK r \in 0..(BlockLen - 1) : n \in Nat /\ Len(rest) - 1 = BlockLen * n + r
    <3> DEFINE l == Len(rest) - 1
    <3>1. l \in Nat /\ BlockLen \in Nat \ {0} /\ n = l \div BlockLen
      BY <2>n, <2>3, <1>2
    <3> HIDE DEF l
    <3>2. \E r \in 0..(BlockLen - 1) : n \in Nat /\ l = BlockLen * n + r
      BY ONLY <3>1, DivMod, ZenonT(60)
    <3> QED BY ONLY <3>2 DEF l
  <2> HIDE DEF rest, f, fill
  <2>5. /\ BlockLen * n \in Nat /\ n * BlockLen = BlockLen * n /\ BlockLen * n \in 0..Len(rest)
        /\ Len(rest) - BlockLen * n = r + 1
    BY <2>3, <2>4, <1>2
  <2>6. /\ IsSeq(g) /\ Len(g) = BlockLen * n /\ IsSeq(v) /\ Len(v) = r + 1 /\ g \o v = rest
    <3>1. g = First(rest, BlockLen * n) /\ v = Behind(rest, BlockLen * n)
      BY <2>5
    <3>2. IsSeq(rest) /\ BlockLen * n \in 0..Len(rest)
      BY ONLY <2>2, <2>5
    <3> HIDE DEF g, v
    <3>3. /\ IsSeq(First(rest, BlockLen * n)) /\ Len(First(rest, BlockLen * n)) = BlockLen * n
          /\ IsSeq(Behind(rest, BlockLen * n))
          /\ Len(Behind(rest, BlockLen * n)) = Len(rest) - BlockLen * n
          /\ First(rest, BlockLen * n) \o Behind(rest, BlockLen * n) = rest
      BY ONLY <3>2, FirstIs
    <3> QED BY ONLY <3>1, <3>3, <2>5
  <2> HIDE DEF g, v
  <2>7. IsSeq(u) /\ Len(u) = BlockLen
    <3>1. IsSeq(b \o f) /\ Len(b \o f) = Len(b) + Len(f)
      <4>1. IsSeq(b) /\ IsSeq(f)
        BY ONLY <1>s, <2>2
      <4> QED BY ONLY <4>1, ConcatIs
    <3>2. Len(b) + fill = BlockLen
      BY <1>2 DEF fill
    <3> QED BY ONLY <3>1, <3>2, <2>2 DEF u
  <2>8. Len(u) % BlockLen = 0 /\ Len(g) % BlockLen = 0
    <3>1. Len(u) \in Nat /\ Len(g) \in Nat /\ Len(u) = BlockLen /\ Len(g) = BlockLen * n
          /\ n \in Nat
      BY ONLY <2>4, <2>5, <2>6, <2>7, <1>2
    <3> QED BY ONLY <3>1, RestIs
  <2>9. b \o t = (u \o g) \o v
    <3>1. t = f \o (g \o v)
      BY ONLY <2>2, <2>6
    <3>2. IsSeq(g \o v)
      BY ONLY <2>6, ConcatIs
    <3>3. u \o (g \o v) = b \o (f \o (g \o v))
      <4> DEFINE w == g \o v
      <4>1. IsSeq(b) /\ IsSeq(f) /\ IsSeq(w)
        BY ONLY <3>2, <1>s, <2>2
      <4> HIDE DEF w
      <4>2. (b \o f) \o w = b \o (f \o w)
        BY ONLY <4>1, ConcatAssoc
      <4> QED BY ONLY <4>2 DEF u, w
    <3>4. (u \o g) \o v = u \o (g \o v)
      <4>1. IsSeq(u) /\ IsSeq(g) /\ IsSeq(v)
        BY ONLY <2>6, <2>7
      <4> QED BY ONLY <4>1, ConcatAssoc, SMTT(60)
    <3> QED BY ONLY <3>1, <3>3, <3>4
  <2>10. FullBlocks(u \o g) = new
    <3>1. FullBlocks(u) = <<u>>
      BY ONLY <2>7, FewBytes
    <3>2. FullBlocks(u \o g) = FullBlocks(u) \o FullBlocks(g)
      BY ONLY <2>6, <2>7, <2>8, WholeInFront
    <3> QED BY ONLY <3>1, <3>2 DEF new
  <2> HIDE DEF u, new
  <2>11. IsSeq(u \o g) /\ Len(u \o g) = BlockLen + BlockLen * n /\ Len(u \o g) % BlockLen = 0
    BY <2>6, <2>7, <2>8, WholeSum
  <2>12. Squashed(p \o (u \o g)) = Squashed(p) \o more
    BY <2>10, <2>11, <1>2, Squash, ZenonT(60)
  <2> HIDE DEF more
  <2>13. IsSeq(p \o (u \o g)) /\ Len(p \o (u \o g)) = Len(p) + Len(u \o g)
         /\ Len(p \o (u \o g)) % BlockLen = 0
    BY ONLY <2>11, <1>2, WholeSum
  <2>14. Len(new) * BlockLen = Len(u \o g)
    <3>1. PICK q \in Nat : Len(u \o g) = BlockLen * q /\ Len(FullBlocks(u \o g)) = q
      BY ONLY <2>11, WholeLen
    <3> QED BY <3>1, <2>10, <1>2
  <2>15. [c EXCEPT !.hash = Squashed(p) \o more, !.t = Len(p) + Len(new) * BlockLen, !.buf = v]
         = BlakeCtx(key, p \o (u \o g), v)
    <3> DEFINE R == [param : {key}, hash : {Squashed(p) \o more}, buf : {v},
                     t : {Len(p) + Len(new) * BlockLen}, out : {None}]
    <3>1. [c EXCEPT !.hash = Squashed(p) \o more, !.t = Len(p) + Len(new) * BlockLen, !.buf = v]
          \in R
      BY ONLY <1>1 DEF BlakeCtx
    <3>2. \A x \in R : x = [param |-> key, hash |-> Squashed(p) \o more, buf |-> v,
                            t |-> Len(p) + Len(new) * BlockLen, out |-> None]
      BY ONLY TRUE
    <3> HIDE DEF R
    <3> QED BY ONLY <3>1, <3>2, <2>12, <2>13, <2>14 DEF BlakeCtx
  <2>16. v # <<>>
    BY <2>4, <2>6, EmptyIs
  <2>17. BlakeSplit(p \o (u \o g), v)
    BY ONLY <2>4, <2>6, <2>13, <2>16, <1>2 DEF BlakeSplit
  <2>18. s \o t = (p \o (u \o g)) \o v
    <3>1. (p \o (u \o g)) \o v = p \o ((u \o g) \o v)
      <4>1. IsSeq(p) /\ IsSeq(u \o g) /\ IsSeq(v)
        BY ONLY <2>6, <2>11, <1>s
      <4> QED BY ONLY <4>1, ConcatAssoc
    <3> QED BY ONLY <3>1, <2>9, <1>4
  <2> QED BY ONLY <2>1, <2>15, <2>17, <2>18 DEF BlakeHolds
<1> QED BY <1>5, <1>6
\* The block a key makes in front of the data.
KeyBlock(key) == IF key = None THEN <<>> ELSE <<key>> \o Zeros(BlockLen - 1)

\* The blocks of the input s, the key's among them.
BlakeOf(key, s) ==
  LET n == IF s = <<>> THEN 1 ELSE ((Len(s) - 1) \div BlockLen) + 1
      p == s \o Zeros(n * BlockLen - Len(s))
  IN  <<"blake", key,
        [i \in 1..n |-> Compressed(Lesser(i * BlockLen, Len(s)),
                          SubSeq(p, (i - 1) * BlockLen + 1, i * BlockLen), i = n)]>>

\* The definition, by the input with the key's block.
LEMMA BlakeDigestIs ==
  ASSUME NEW key, NEW data, IsSeq(data)
  PROVE  /\ BlakeDigest(key, data) = BlakeOf(key, KeyBlock(key) \o data)
         /\ IsSeq(KeyBlock(key))
<1>1. CASE key = None
  <2>1. KeyBlock(key) = <<>> /\ <<>> \o data = data
    BY <1>1, ConcatEmpty DEF KeyBlock
  <2> HIDE DEF None
  <2> QED BY <1>1, <2>1, EmptyIs DEF BlakeDigest, BlakeOf
<1>2. CASE key # None
  <2>1. KeyBlock(key) = <<key>> \o Zeros(BlockLen - 1)
    BY <1>2 DEF KeyBlock
  <2>2. IsSeq(<<key>>) /\ IsSeq(Zeros(BlockLen - 1))
    BY AppendIs, EmptyIs, ZerosIs, Lengths
  <2>3. IsSeq(KeyBlock(key))
    BY <2>1, <2>2, ConcatIs
  <2> QED BY <1>2, <2>1, <2>3 DEF BlakeDigest, BlakeOf
<1> QED BY <1>1, <1>2

\* blake2b_init
LEMMA BlakeInits ==
  ASSUME NEW key
  PROVE  BlakeHolds(BlakeInit(key), key, KeyBlock(key))
<1> DEFINE c == [param |-> key, hash |-> <<>>, buf |-> <<>>, t |-> 0, out |-> None]
<1>1. IsSeq(<<>>) /\ Len(<<>>) = 0 /\ <<>> \o <<>> = <<>> /\ 0 % BlockLen = 0
      /\ FullBlocks(<<>>) = <<>>
  BY EmptyIs, ConcatEmpty, RestIs, FewBytes, Lengths
<1>2. Squashed(<<>>) = <<>>
  <2>1. IsSeq(Squashed(<<>>)) /\ Len(Squashed(<<>>)) = 0
    BY <1>1, SeqFcn DEF Squashed
  <2> QED BY <2>1, EmptyIs
<1>3. c = BlakeCtx(key, <<>>, <<>>)
  BY <1>1, <1>2 DEF BlakeCtx
<1>4. BlakeSplit(<<>>, <<>>)
  BY <1>1, Lengths DEF BlakeSplit
<1>5. BlakeHolds(c, key, <<>>)
  BY ONLY <1>1, <1>3, <1>4 DEF BlakeHolds
<1> HIDE DEF c
<1>6. CASE key = None
  BY <1>5, <1>6 DEF c, BlakeInit, KeyBlock
<1>7. CASE key # None
  <2>1. IsSeq(<<key>>) /\ IsSeq(Zeros(BlockLen - 1))
    BY AppendIs, EmptyIs, ZerosIs, Lengths
  <2>2. <<>> \o <<key>> = <<key>>
    BY <2>1, ConcatEmpty
  <2>3. BlakeHolds(BlakeWrite(c, <<key>>), key, <<>> \o <<key>>)
    BY ONLY <2>1, <1>5, BlakeWrites
  <2>4. BlakeHolds(BlakeWrite(c, <<key>>), key, <<key>>)
    BY ONLY <2>2, <2>3
  <2>5. BlakeHolds(BlakeWrite(BlakeWrite(c, <<key>>), Zeros(BlockLen - 1)), key,
                   <<key>> \o Zeros(BlockLen - 1))
    BY ONLY <2>1, <2>4, BlakeWrites
  <2> QED BY <2>5, <1>7 DEF c, BlakeInit, KeyBlock
<1> QED BY <1>6, <1>7

\* How many blocks there are, the last one counted though it is not full.
LEMMA BlakeCount ==
  ASSUME NEW p, NEW b, BlakeSplit(p, b), NEW q \in Nat, Len(p) = BlockLen * q
  PROVE  LET s == p \o b
         IN  (IF s = <<>> THEN 1 ELSE ((Len(s) - 1) \div BlockLen) + 1) = q + 1
<1> DEFINE s == p \o b
<1>1. /\ IsSeq(p) /\ IsSeq(b) /\ Len(b) <= BlockLen /\ (b = <<>> => p = <<>>)
      /\ Len(b) \in Nat /\ BlockLen \in Nat \ {0} /\ BlockLen * q \in Nat
  BY IsSeqLen, Lengths, MultAdd DEF BlakeSplit
<1>2. IsSeq(s) /\ Len(s) = BlockLen * q + Len(b)
  BY <1>1, ConcatIs
<1> HIDE DEF s
<1>3. CASE b = <<>>
  <2>1. s = <<>> /\ Len(p) = 0
    BY <1>3, <1>1, ConcatEmpty, EmptyIs DEF s
  <2>2. q = 0
    BY <2>1, <1>1
  <2> QED BY <2>1, <2>2 DEF s
<1>4. CASE b # <<>>
  <2>1. Len(b) # 0
    BY <1>1, <1>4, EmptyIs
  <2> DEFINE r == Len(b) - 1
             l == Len(s) - 1
  <2>2. r \in 0..(BlockLen - 1) /\ l \in Nat /\ l = BlockLen * q + r
    BY <2>1, <1>1, <1>2
  <2>3. Len(s) # 0
    BY <2>1, <1>1, <1>2
  <2>4. s # <<>>
    BY <2>3, EmptyIs
  <2> HIDE DEF r, l
  <2>5. l \div BlockLen = q
    BY <2>2, <1>1, DivUnique
  <2> QED BY <2>4, <2>5 DEF l, s
<1> QED BY <1>3, <1>4

\* blake2b_final gives the digest.
LEMMA BlakeFinals ==
  ASSUME NEW c, NEW key, NEW s, BlakeHolds(c, key, s)
  PROVE  BlakeFinal(c).out = BlakeOf(key, s)
<1>1. PICK p, b : s = p \o b /\ BlakeSplit(p, b) /\ c = BlakeCtx(key, p, b)
  BY DEF BlakeHolds
<1>2. /\ IsSeq(p) /\ IsSeq(b) /\ Len(p) % BlockLen = 0 /\ Len(b) <= BlockLen
      /\ Len(p) \in Nat /\ Len(b) \in Nat /\ BlockLen \in Nat \ {0}
  BY <1>1, IsSeqLen, Lengths DEF BlakeSplit
<1>3. PICK q \in Nat : Len(p) = BlockLen * q /\ IsSeq(FullBlocks(p)) /\ Len(FullBlocks(p)) = q
  BY <1>2, WholeLen
<1> DEFINE z == BlockLen - Len(b)
           u == b \o Zeros(z)
           pp == s \o Zeros(z)
           end == Compressed(Len(p) + Len(b), u, TRUE)
           a == Append(Squashed(p), end)
           d == [i \in 1..(q + 1) |-> Compressed(Lesser(i * BlockLen, Len(s)),
                          SubSeq(pp, (i - 1) * BlockLen + 1, i * BlockLen), i = q + 1)]
<1>4. BlakeFinal(c).out = <<"blake", key, a>>
  <2>1. /\ c.param = key /\ c.hash = Squashed(p) /\ c.buf = b /\ c.t = Len(p) /\ c.out = None
    BY <1>1 DEF BlakeCtx
  <2>2. BlakeFinal(c) = [c EXCEPT !.out = <<"blake", key, a>>]
    BY <2>1 DEF BlakeFinal
  <2>3. "out" \in DOMAIN c
    BY <1>1 DEF BlakeCtx
  <2> HIDE DEF a
  <2> QED BY <2>2, <2>3
<1>5. IsSeq(s) /\ Len(s) = BlockLen * q + Len(b) /\ BlockLen * q \in Nat
  BY <1>1, <1>2, <1>3, ConcatIs
<1>6. BlakeOf(key, s) = <<"blake", key, d>>
  <2>1. (IF s = <<>> THEN 1 ELSE ((Len(s) - 1) \div BlockLen) + 1) = q + 1
    BY <1>1, <1>3, BlakeCount
  <2>2. (q + 1) * BlockLen - Len(s) = z
    BY <1>2, <1>5
  <2> QED BY <2>1, <2>2 DEF BlakeOf
<1>7. IsSeq(Zeros(z)) /\ Len(Zeros(z)) = z /\ z \in Nat
  BY <1>2, ZerosIs
<1>8. IsSeq(u) /\ Len(u) = BlockLen /\ Len(u) % BlockLen = 0 /\ FullBlocks(u) = <<u>>
  <2>1. IsSeq(u) /\ Len(u) = Len(b) + z
    BY <1>2, <1>7, ConcatIs
  <2>2. Len(u) = BlockLen
    BY <2>1, <1>2
  <2> HIDE DEF u
  <2> QED BY <2>1, <2>2, <1>2, FewBytes, RestIs
<1>9. pp = p \o u
  <2>1. (p \o b) \o Zeros(z) = p \o (b \o Zeros(z))
    BY <1>2, <1>7, ConcatAssoc
  <2> QED BY <2>1, <1>1
<1> DEFINE f == FullBlocks(p)
           g == FullBlocks(pp)
<1> HIDE DEF u, z, pp
<1>10. IsSeq(pp) /\ Len(pp) = BlockLen * (q + 1)
  <2>1. IsSeq(p \o u) /\ Len(p \o u) = Len(p) + Len(u)
    BY <1>2, <1>8, ConcatIs
  <2>2. BlockLen * (q + 1) = BlockLen * q + BlockLen
    BY <1>2
  <2> QED BY <2>1, <2>2, <1>3, <1>8, <1>9
<1>11. g = f \o <<u>>
  BY <1>2, <1>8, <1>9, WholeInFront
<1>12. /\ IsSeq(f \o <<u>>) /\ Len(f \o <<u>>) = q + 1
       /\ \A i \in 1..(q + 1) : (f \o <<u>>)[i] = IF i <= q THEN f[i] ELSE u
  <2>1. IsSeq(<<u>>) /\ Len(<<u>>) = 1 /\ <<u>>[1] = u
    BY AppendIs, EmptyIs
  <2>2. /\ IsSeq(f \o <<u>>) /\ Len(f \o <<u>>) = q + 1
        /\ \A i \in 1..(q + 1) : (f \o <<u>>)[i] = IF i <= q THEN f[i] ELSE <<u>>[i - q]
    BY <2>1, <1>3, ConcatIs
  <2>3. ASSUME NEW i \in 1..(q + 1), ~(i <= q) PROVE i - q = 1
    BY <2>3
  <2> QED BY <2>1, <2>2, <2>3
<1>13. ASSUME NEW i \in 1..(q + 1)
       PROVE  SubSeq(pp, (i - 1) * BlockLen + 1, i * BlockLen) = IF i <= q THEN f[i] ELSE u
  <2>1. Len(pp) \div BlockLen = q + 1
    <3> DEFINE l == Len(pp)
               m == q + 1
    <3>1. l \in Nat /\ m \in Nat /\ l = BlockLen * m + 0 /\ 0 \in 0..(BlockLen - 1)
      BY <1>10, <1>2, IsSeqLen
    <3> HIDE DEF l, m
    <3>2. l \div BlockLen = m
      BY <3>1, <1>2, DivUnique
    <3> QED BY <3>2 DEF l, m
  <2>2. g[i] = SubSeq(pp, (i - 1) * BlockLen + 1, i * BlockLen)
    BY <2>1, <1>13 DEF FullBlocks
  <2> HIDE DEF f, g
  <2> QED BY ONLY <2>2, <1>11, <1>12, <1>13
<1>14. /\ IsSeq(Squashed(p)) /\ Len(Squashed(p)) = q
       /\ \A i \in 1..q : Squashed(p)[i] = Compressed(i * BlockLen, f[i], FALSE)
  BY <1>3, SeqFcn DEF Squashed
<1>15. /\ IsSeq(a) /\ Len(a) = q + 1
       /\ \A i \in 1..(q + 1) : a[i] = IF i <= q THEN Squashed(p)[i] ELSE end
  <2> HIDE DEF end
  <2>1. a = Squashed(p) \o <<end>> /\ IsSeq(<<end>>) /\ Len(<<end>>) = 1 /\ <<end>>[1] = end
    BY <1>14, AppendIs
  <2>2. /\ IsSeq(a) /\ Len(a) = q + 1
        /\ \A i \in 1..(q + 1) : a[i] = IF i <= q THEN Squashed(p)[i] ELSE <<end>>[i - q]
    <3> DEFINE e == Squashed(p) \o <<end>>
    <3>1. /\ IsSeq(e) /\ Len(e) = q + 1
        /\ \A i \in 1..(q + 1) : e[i] = IF i <= q THEN Squashed(p)[i] ELSE <<end>>[i - q]
      BY <2>1, <1>14, ConcatIs
    <3> HIDE DEF e, a
    <3>2. a = e
      BY <2>1 DEF e
    <3> QED BY ONLY <3>1, <3>2
  <2>3. ASSUME NEW i \in 1..(q + 1), ~(i <= q) PROVE i - q = 1
    BY <2>3
  <2> QED BY <2>1, <2>2, <2>3
<1>16. IsSeq(d) /\ Len(d) = q + 1
  BY SeqFcn
<1> HIDE DEF a, f
<1>17. ASSUME NEW i \in 1..(q + 1) PROVE a[i] = d[i]
  <2>1. d[i] = Compressed(Lesser(i * BlockLen, Len(s)), IF i <= q THEN f[i] ELSE u, i = q + 1)
    BY <1>13, <1>17
  <2>2. CASE i <= q
    <3>1. i * BlockLen <= BlockLen * q /\ i * BlockLen \in Nat /\ i \in 1..q /\ i # q + 1
      BY <2>2, <1>2
    <3>2. Lesser(i * BlockLen, Len(s)) = i * BlockLen
      BY <3>1, <1>5, <1>2 DEF Lesser
    <3>3. a[i] = Compressed(i * BlockLen, f[i], FALSE)
      BY ONLY <3>1, <2>2, <1>14, <1>15, <1>17
    <3>4. (i = q + 1) = FALSE
      BY <3>1
    <3> HIDE DEF d
    <3> QED BY ONLY <2>1, <2>2, <3>2, <3>3, <3>4
  <2>3. CASE ~(i <= q)
    <3>1. i = q + 1 /\ (q + 1) * BlockLen = BlockLen * q + BlockLen
      BY <2>3, <1>2
    <3>2. Lesser(i * BlockLen, Len(s)) = Len(s)
      BY <3>1, <1>5, <1>2 DEF Lesser
    <3>3. a[i] = Compressed(Len(s), u, TRUE)
      BY <2>3, <1>3, <1>5, <1>15, <1>17
    <3>4. (i = q + 1) = TRUE
      BY <3>1
    <3> HIDE DEF d
    <3> QED BY ONLY <2>1, <2>3, <3>2, <3>3, <3>4
  <2> QED BY <2>2, <2>3
<1> HIDE DEF d
<1>18. a = d
  BY ONLY <1>15, <1>16, <1>17, SeqSame
<1> QED BY ONLY <1>4, <1>6, <1>18
-----------------------------------------------------------------------------
(* Keccak, taking in *)

\* A set of numbers has a least one.
LEMMA NatLeast ==
  ASSUME NEW T \in SUBSET Nat, T # {}
  PROVE  \E x \in T : \A y \in T : x <= y
<1> DEFINE R == {p \in Nat \X Nat : p[1] < p[2]}
<1>1. IsWellFoundedOn(R, Nat)
  <2>1. R = OpToRel(<, Nat)
    BY DEF OpToRel
  <2> QED BY <2>1, NatLessThanWellFounded
<1>2. \A x, y \in Nat : y < x => <<y, x>> \in R
  OBVIOUS
<1> HIDE DEF R
<1>3. \E x \in T : \A y \in T : ~ (<<y, x>> \in R)
  BY <1>1, WFMin
<1>4. PICK x \in T : \A y \in T : ~ (<<y, x>> \in R)
  BY <1>3
<1>5. ASSUME NEW y \in T PROVE x <= y
  <2>1. ~(y < x)
    BY <1>2, <1>4
  <2> QED BY <2>1
<1> QED BY <1>5

\* A set with 0 and with the successors of its members holds all numbers up to m.
LEMMA UpTo ==
  ASSUME NEW m \in Nat, NEW T, 0 \in T, \A i \in 1..m : i - 1 \in T => i \in T
  PROVE  \A i \in 0..m : i \in T
<1> DEFINE U == {i \in 0..m : i \notin T}
<1>1. SUFFICES ASSUME U # {} PROVE FALSE
  OBVIOUS
<1>2. U \in SUBSET Nat
  OBVIOUS
<1>3. PICK x \in U : \A y \in U : x <= y
  BY ONLY <1>1, <1>2, NatLeast
<1>4. x \in 0..m /\ x \notin T
  OBVIOUS
<1>5. x \in 1..m
  BY <1>4
<1>6. x - 1 \notin U
  BY <1>3, <1>5
<1>7. x - 1 \in T
  BY <1>5, <1>6
<1> QED BY <1>4, <1>5, <1>7

\* Block i of s as the state has it, counted from 0: a part of it if s ends there.
KBlk(s, i) == [p \in 0..(Rate - 1) |->
                 IF i * Rate + p + 1 <= Len(s) THEN <<s[i * Rate + p + 1]>> ELSE <<>>]
KDone(s) == [i \in 1..(Len(s) \div Rate) |-> KBlk(s, i - 1)]

\* The context that has taken in s, with any count.
KeccakAt(s, x, c) ==
  [done |-> KDone(s), cur |-> KBlk(s, Len(s) \div Rate), count |-> c, suffix |-> x,
   squeezed |-> 0, way |-> "none", out |-> None]

\* Quotient and rest by the rate.
LEMMA RateDiv ==
  ASSUME NEW l \in Nat, NEW m \in Nat, NEW r \in 0..(Rate - 1), l = Rate * m + r
  PROVE  l \div Rate = m /\ l % Rate = r
<1>1. Rate \in Nat \ {0}
  BY Lengths
<1> QED BY <1>1, DivUnique

\* The place where a byte of the state comes from.
LEMMA KPlace ==
  ASSUME NEW m \in Nat, NEW i \in Nat, NEW p \in 0..(Rate - 1)
  PROVE  /\ m * Rate = Rate * m /\ Rate * m \in Nat /\ i * Rate \in Nat
         /\ (i < m => i * Rate + p + 1 <= Rate * m)
         /\ (m + 1) * Rate = m * Rate + Rate
<1>1. m * Rate = Rate * m /\ Rate * m \in Nat /\ i * Rate \in Nat
      /\ (m + 1) * Rate = m * Rate + Rate
  BY Lengths
<1>2. ASSUME i < m PROVE i * Rate + p + 1 <= Rate * m
  <2>1. (i + 1) * Rate = i * Rate + Rate /\ (i + 1) * Rate <= m * Rate
    BY Lengths, <1>2
  <2> QED BY <2>1, <1>1, Lengths
<1> QED BY <1>1, <1>2

\* The state after bytes t behind s, within the block where s ends.
LEMMA KStep ==
  ASSUME NEW s, IsSeq(s), NEW t, IsSeq(t), NEW m \in Nat, NEW at \in 0..(Rate - 1),
         Len(s) = Rate * m + at, at + Len(t) <= Rate
  PROVE  /\ [p \in 0..(Rate - 1) |->
               IF at <= p /\ p < at + Len(t) THEN Append(KBlk(s, m)[p], t[p - at + 1])
               ELSE KBlk(s, m)[p]] = KBlk(s \o t, m)
         /\ \A i \in 0..(m - 1) : KBlk(s \o t, i) = KBlk(s, i)
         /\ at + Len(t) = Rate => KBlk(s \o t, m + 1) = ZeroState
<1> DEFINE u == s \o t
<1>1. /\ IsSeq(u) /\ Len(u) = Len(s) + Len(t)
      /\ \A i \in 1..(Len(s) + Len(t)) : u[i] = IF i <= Len(s) THEN s[i] ELSE t[i - Len(s)]
      /\ Len(s) \in Nat /\ Len(t) \in Nat
  BY ConcatIs, IsSeqLen
<1> HIDE DEF u
<1>2. m * Rate = Rate * m /\ Rate * m \in Nat
      /\ (m + 1) * Rate = m * Rate + Rate
  BY Lengths
<1>3. ASSUME NEW p \in 0..(Rate - 1)
      PROVE  (IF at <= p /\ p < at + Len(t) THEN Append(KBlk(s, m)[p], t[p - at + 1])
              ELSE KBlk(s, m)[p]) = KBlk(u, m)[p]
  <2>1. /\ KBlk(s, m)[p] = IF m * Rate + p + 1 <= Len(s) THEN <<s[m * Rate + p + 1]>> ELSE <<>>
        /\ KBlk(u, m)[p] = IF m * Rate + p + 1 <= Len(u) THEN <<u[m * Rate + p + 1]>> ELSE <<>>
    BY DEF KBlk
  <2>2. CASE p < at
    <3>1. m * Rate + p + 1 \in 1..(Len(s) + Len(t)) /\ m * Rate + p + 1 <= Len(s)
      BY <2>2, <1>1, <1>2, Lengths
    <3>2. u[m * Rate + p + 1] = s[m * Rate + p + 1]
      BY ONLY <3>1, <1>1
    <3>3. m * Rate + p + 1 <= Len(u)
      BY <3>1, <1>1
    <3>4. ~(at <= p)
      BY <2>2, Lengths
    <3> QED BY ONLY <2>1, <3>1, <3>2, <3>3, <3>4
  <2>3. CASE at <= p /\ p < at + Len(t)
    <3>1. /\ m * Rate + p + 1 \in 1..(Len(s) + Len(t)) /\ ~(m * Rate + p + 1 <= Len(s))
          /\ m * Rate + p + 1 - Len(s) = p - at + 1
      BY <2>3, <1>1, <1>2, Lengths
    <3>2. u[m * Rate + p + 1] = t[p - at + 1]
      <4> DEFINE j == m * Rate + p + 1
      <4>1. j \in 1..(Len(s) + Len(t)) /\ ~(j <= Len(s)) /\ j - Len(s) = p - at + 1
        BY <2>3, <1>1, <1>2, Lengths
      <4> HIDE DEF j
      <4>2. u[j] = t[j - Len(s)]
        BY ONLY <4>1, <1>1
      <4> QED BY ONLY <4>1, <4>2 DEF j
    <3>3. m * Rate + p + 1 <= Len(u)
      BY <3>1, <1>1
    <3>4. Append(<<>>, t[p - at + 1]) = <<t[p - at + 1]>>
      BY AppendIs, EmptyIs, ConcatEmpty
    <3> QED BY ONLY <2>1, <2>3, <3>1, <3>2, <3>3, <3>4
  <2>4. CASE ~(p < at + Len(t))
    <3>1. ~(m * Rate + p + 1 <= Len(s)) /\ ~(m * Rate + p + 1 <= Len(u))
      BY <2>4, <1>1, <1>2, Lengths
    <3> QED BY ONLY <2>1, <2>4, <3>1
  <2> QED BY <2>2, <2>3, <2>4, Lengths, <1>1
<1>4. [p \in 0..(Rate - 1) |->
               IF at <= p /\ p < at + Len(t) THEN Append(KBlk(s, m)[p], t[p - at + 1])
               ELSE KBlk(s, m)[p]] = KBlk(u, m)
  <2>1. KBlk(u, m) = [p \in 0..(Rate - 1) |-> KBlk(u, m)[p]]
    BY DEF KBlk
  <2> QED BY ONLY <2>1, <1>3
<1>5. ASSUME NEW i \in 0..(m - 1) PROVE KBlk(u, i) = KBlk(s, i)
  <2>1. ASSUME NEW p \in 0..(Rate - 1) PROVE KBlk(u, i)[p] = KBlk(s, i)[p]
    <3>1. i * Rate + p + 1 <= Rate * m /\ i * Rate \in Nat
      <4>1. i \in Nat /\ i < m
        BY <1>5
      <4> QED BY ONLY <4>1, KPlace, m \in Nat, p \in 0..(Rate - 1)
    <3>2. i * Rate + p + 1 \in 1..(Len(s) + Len(t)) /\ i * Rate + p + 1 <= Len(s)
          /\ i * Rate + p + 1 <= Len(u)
      BY <3>1, <1>1, <1>2, Lengths
    <3>3. u[i * Rate + p + 1] = s[i * Rate + p + 1]
      BY ONLY <3>2, <1>1
    <3> QED BY <3>2, <3>3 DEF KBlk
  <2>2. KBlk(u, i) = [p \in 0..(Rate - 1) |-> KBlk(u, i)[p]]
        /\ KBlk(s, i) = [p \in 0..(Rate - 1) |-> KBlk(s, i)[p]]
    BY DEF KBlk
  <2> QED BY ONLY <2>1, <2>2
<1>6. ASSUME at + Len(t) = Rate PROVE KBlk(u, m + 1) = ZeroState
  <2>1. ASSUME NEW p \in 0..(Rate - 1) PROVE ~((m + 1) * Rate + p + 1 <= Len(u))
    BY <1>6, <1>1, <1>2, Lengths
  <2> QED BY <2>1 DEF KBlk, ZeroState
<1> QED BY <1>4, <1>5, <1>6 DEF u
\* A part of one lane is taken in; the permutation runs when the block is full.
LEMMA KAbsorbs ==
  ASSUME NEW s, IsSeq(s), NEW t, IsSeq(t), NEW x, NEW c, NEW m \in Nat,
         NEW at \in 0..(Rate - 1), Len(s) = Rate * m + at, at + Len(t) <= Rate,
         NEW permutes,
         (permutes /\ at \div Lane = (Rate \div Lane) - 1) <=> at + Len(t) = Rate
  PROVE  AbsorbLane(KeccakAt(s, x, c), at, t, permutes) = KeccakAt(s \o t, x, c)
<1> DEFINE u == s \o t
           k == KeccakAt(s, x, c)
           a == AbsorbAt(k, at, t)
<1>1. Len(u) = Rate * m + at + Len(t) /\ Len(u) \in Nat /\ Len(s) \in Nat /\ Len(t) \in Nat
      /\ IsSeq(u)
  BY ConcatIs, IsSeqLen
<1>2. Len(s) \div Rate = m
  <2>1. Len(s) \in Nat
    BY <1>1
  <2> QED BY ONLY <2>1, RateDiv, m \in Nat, at \in 0..(Rate - 1), Len(s) = Rate * m + at
<1>3. k.cur = KBlk(s, m) /\ k.done = KDone(s)
  BY <1>2 DEF KeccakAt
<1>4. /\ [p \in 0..(Rate - 1) |->
            IF at <= p /\ p < at + Len(t) THEN Append(KBlk(s, m)[p], t[p - at + 1])
            ELSE KBlk(s, m)[p]] = KBlk(u, m)
      /\ \A i \in 0..(m - 1) : KBlk(u, i) = KBlk(s, i)
      /\ at + Len(t) = Rate => KBlk(u, m + 1) = ZeroState
  BY KStep
<1>5. a = [k EXCEPT !.cur = KBlk(u, m)]
  <2>1. a = [k EXCEPT !.cur = [p \in 0..(Rate - 1) |->
            IF at <= p /\ p < at + Len(t) THEN Append(k.cur[p], t[p - at + 1])
            ELSE k.cur[p]]]
    BY DEF AbsorbAt
  <2> HIDE DEF k, u
  <2> QED BY ONLY <2>1, <1>3, <1>4
<1> DEFINE Rec(d, z) == [done |-> d, cur |-> z, count |-> c, suffix |-> x,
                         squeezed |-> 0, way |-> "none", out |-> None]
<1>6. a = Rec(KDone(s), KBlk(u, m))
  <2> DEFINE T == [done : {KDone(s)}, cur : {KBlk(u, m)}, count : {c}, suffix : {x},
                   squeezed : {0}, way : {"none"}, out : {None}]
  <2> HIDE DEF u
  <2>1. [k EXCEPT !.cur = KBlk(u, m)] \in T
    BY ONLY TRUE DEF KeccakAt
  <2>2. \A y \in T : y = Rec(KDone(s), KBlk(u, m))
    BY ONLY TRUE
  <2> HIDE DEF T, Rec, k, a
  <2> QED BY ONLY <2>1, <2>2, <1>5
<1>7. CASE at + Len(t) = Rate
  <2>1. AbsorbLane(k, at, t, permutes) = [a EXCEPT !.done = Append(@, a.cur), !.cur = ZeroState]
    BY <1>7 DEF AbsorbLane
  <2>2. [a EXCEPT !.done = Append(@, a.cur), !.cur = ZeroState]
        = Rec(Append(KDone(s), KBlk(u, m)), ZeroState)
    <3> HIDE DEF u, a
    <3> DEFINE d == Append(KDone(s), KBlk(u, m))
               T == [done : {d}, cur : {ZeroState}, count : {c}, suffix : {x},
                     squeezed : {0}, way : {"none"}, out : {None}]
    <3>1. a.done = KDone(s) /\ a.cur = KBlk(u, m)
      BY ONLY <1>6
    <3>2. [a EXCEPT !.done = Append(@, a.cur), !.cur = ZeroState]
          = [a EXCEPT !.done = d, !.cur = ZeroState]
      BY ONLY <3>1
    <3> HIDE DEF d
    <3>3. [a EXCEPT !.done = d, !.cur = ZeroState] \in T
      BY ONLY <1>6
    <3>4. \A y \in T : y = Rec(d, ZeroState)
      BY ONLY TRUE
    <3> HIDE DEF T, Rec
    <3>5. [a EXCEPT !.done = d, !.cur = ZeroState] = Rec(d, ZeroState)
      BY ONLY <3>3, <3>4
    <3> QED BY ONLY <3>2, <3>5 DEF d
  <2>3. Len(u) \div Rate = m + 1
    <3> DEFINE l == Len(u)
               n == m + 1
    <3>1. l \in Nat /\ n \in Nat /\ l = Rate * n + 0 /\ 0 \in 0..(Rate - 1)
      BY <1>1, <1>7, Lengths
    <3> HIDE DEF l, n
    <3>2. l \div Rate = n
      BY <3>1, Lengths, DivUnique
    <3> QED BY <3>2 DEF l, n
  <2>4. KDone(u) = Append(KDone(s), KBlk(u, m))
    <3> HIDE DEF u
    <3>1. /\ IsSeq(KDone(s)) /\ Len(KDone(s)) = m /\ \A i \in 1..m : KDone(s)[i] = KBlk(s, i - 1)
      BY <1>2, SeqFcn DEF KDone
    <3>2. /\ IsSeq(KDone(u)) /\ Len(KDone(u)) = m + 1
          /\ \A i \in 1..(m + 1) : KDone(u)[i] = KBlk(u, i - 1)
      BY <2>3, SeqFcn DEF KDone
    <3> DEFINE b == KBlk(u, m)
               g == KDone(s) \o <<b>>
    <3> HIDE DEF b
    <3>3. Append(KDone(s), b) = g /\ IsSeq(<<b>>) /\ Len(<<b>>) = 1 /\ <<b>>[1] = b
      BY <3>1, AppendIs
    <3>4. /\ IsSeq(g) /\ Len(g) = m + 1
          /\ \A i \in 1..(m + 1) : g[i] = IF i <= m THEN KDone(s)[i] ELSE <<b>>[i - m]
      BY <3>1, <3>3, ConcatIs
    <3> HIDE DEF g
    <3>5. ASSUME NEW i \in 1..(m + 1) PROVE KDone(u)[i] = g[i]
      <4>1. CASE i <= m
        <5>1. i \in 1..m /\ i - 1 \in 0..(m - 1)
          BY <4>1
        <5>2. KBlk(u, i - 1) = KBlk(s, i - 1)
          BY ONLY <5>1, <1>4
        <5> QED BY ONLY <5>1, <5>2, <4>1, <3>1, <3>2, <3>4, <3>5
      <4>2. CASE ~(i <= m)
        <5>1. i - 1 = m /\ i - m = 1
          BY <4>2
        <5> QED BY ONLY <5>1, <4>2, <3>2, <3>3, <3>4, <3>5 DEF b
      <4> QED BY <4>1, <4>2
    <3>6. KDone(u) = g
      BY ONLY <3>2, <3>4, <3>5, SeqSame
    <3> QED BY ONLY <3>3, <3>6 DEF b
  <2>5. KeccakAt(u, x, c) = Rec(KDone(u), ZeroState)
    BY <2>3, <1>4, <1>7 DEF KeccakAt
  <2> HIDE DEF u, k, a, Rec
  <2>6. AbsorbLane(k, at, t, permutes) = KeccakAt(u, x, c)
    BY ONLY <2>1, <2>2, <2>4, <2>5
  <2> QED BY ONLY <2>6 DEF k, u
<1>8. CASE at + Len(t) # Rate
  <2>1. AbsorbLane(k, at, t, permutes) = a
    BY <1>8 DEF AbsorbLane
  <2>2. Len(u) \div Rate = m
    <3> DEFINE l == Len(u)
               r == at + Len(t)
    <3>1. l \in Nat /\ l = Rate * m + r /\ r \in 0..(Rate - 1)
      BY <1>1, <1>8, Lengths
    <3> HIDE DEF l, r
    <3>2. l \div Rate = m
      BY ONLY <3>1, RateDiv, m \in Nat
    <3> QED BY <3>2 DEF l
  <2>3. KDone(u) = KDone(s)
    <3> HIDE DEF u
    <3>1. KDone(u) = [i \in 1..m |-> KBlk(u, i - 1)] /\ KDone(s) = [i \in 1..m |-> KBlk(s, i - 1)]
      BY <1>2, <2>2 DEF KDone
    <3>2. ASSUME NEW i \in 1..m PROVE KBlk(u, i - 1) = KBlk(s, i - 1)
      <4>1. i - 1 \in 0..(m - 1)
        OBVIOUS
      <4> QED BY ONLY <4>1, <1>4
    <3> QED BY ONLY <3>1, <3>2
  <2>4. KeccakAt(u, x, c) = Rec(KDone(s), KBlk(u, m))
    BY <2>2, <2>3 DEF KeccakAt
  <2> HIDE DEF u, k, a, Rec
  <2>5. AbsorbLane(k, at, t, permutes) = KeccakAt(u, x, c)
    BY ONLY <2>1, <2>4, <1>6
  <2> QED BY ONLY <2>5 DEF k, u
<1> QED BY <1>7, <1>8
\* Multiples of the length of a lane.
LEMMA LaneIs ==
  ASSUME NEW n \in Nat
  PROVE  n % Lane = 0 <=> \E j \in Nat : n = Lane * j
<1>0. Lane \in Nat \ {0}
  BY Lengths
<1>1. ASSUME n % Lane = 0 PROVE \E j \in Nat : n = Lane * j
  <2>1. PICK q \in Nat, r \in 0..(Lane - 1) : n = Lane * q + r /\ n % Lane = r
    BY <1>0, DivMod
  <2>2. n = Lane * q
    BY <2>1, <1>0, <1>1
  <2> QED BY <2>2
<1>2. ASSUME NEW j \in Nat, n = Lane * j PROVE n % Lane = 0
  <2>1. n = Lane * j + 0 /\ 0 \in 0..(Lane - 1)
    BY <1>0, <1>2
  <2> QED BY ONLY <2>1, <1>0, DivUnique, n \in Nat, j \in Nat
<1> QED BY <1>1, <1>2

\* A block is some lanes, more than one.
LEMMA RateIs ==
  /\ Rate \div Lane \in Nat /\ Rate = Lane * (Rate \div Lane) /\ Rate \div Lane >= 2
<1>1. PICK q \in Nat, r \in 0..(Lane - 1) : Rate = Lane * q + r /\ Rate % Lane = r
                                             /\ Rate \div Lane = q
  BY Lengths, DivMod
<1>2. Rate = Lane * q
  BY <1>1, Lengths
<1>3. q # 0 /\ q # 1
  BY <1>2, Lengths
<1> QED BY <1>1, <1>2, <1>3

\* Sums and differences of whole lanes are whole lanes.
LEMMA LaneSum ==
  ASSUME NEW a \in Nat, NEW b \in Nat, b % Lane = 0
  PROVE  /\ a % Lane = 0 <=> (a + b) % Lane = 0
         /\ a % Lane = 0 /\ a < b => a <= b - Lane
<1>0. Lane \in Nat \ {0}
  BY Lengths
<1>1. PICK i \in Nat : b = Lane * i
  BY LaneIs
<1>2. ASSUME a % Lane = 0 PROVE (a + b) % Lane = 0
  <2>1. PICK j \in Nat : a = Lane * j
    BY <1>2, LaneIs
  <2>2. a + b = Lane * (j + i) /\ j + i \in Nat /\ a + b \in Nat
    BY <2>1, <1>0, <1>1
  <2> QED BY <2>2, LaneIs
<1>3. ASSUME (a + b) % Lane = 0 PROVE a % Lane = 0
  <2>1. a + b \in Nat
    OBVIOUS
  <2>2. PICK j \in Nat : a + b = Lane * j
    BY <1>3, <2>1, LaneIs
  <2>3. a = Lane * (j - i)
    BY <2>2, <1>0, <1>1
  <2>4. j - i \in Nat
    <3>1. SUFFICES ASSUME j < i PROVE FALSE
      OBVIOUS
    <3>2. Lane * j < Lane * i
      BY <3>1, <1>0
    <3> QED BY <3>2, <2>2, <1>1, <1>0
  <2> QED BY <2>3, <2>4, LaneIs
<1>4. ASSUME a % Lane = 0, a < b PROVE a <= b - Lane
  <2>1. PICK j \in Nat : a = Lane * j
    BY <1>4, LaneIs
  <2>2. j < i
    BY <2>1, <1>0, <1>1, <1>4
  <2>3. Lane * (j + 1) <= Lane * i /\ Lane * (j + 1) = Lane * j + Lane
    BY <2>2, <1>0
  <2> QED BY <2>1, <2>3, <1>0, <1>1
<1> QED BY <1>2, <1>3, <1>4

\* The place in the block of a whole number of lanes.
LEMMA LaneRest ==
  ASSUME NEW a \in Nat, a % Lane = 0
  PROVE  (a % Rate) % Lane = 0 /\ a % Rate \in 0..(Rate - Lane)
<1>1. PICK q \in Nat, r \in 0..(Rate - 1) : a = Rate * q + r /\ a % Rate = r
  BY Lengths, DivMod
<1> DEFINE b == Rate * q
<1>2. b \in Nat
  BY Lengths
<1>3. b % Lane = 0
  <2>1. b = Lane * ((Rate \div Lane) * q) /\ (Rate \div Lane) * q \in Nat
    BY RateIs, Lengths
  <2> HIDE DEF b
  <2> QED BY <2>1, <1>2, LaneIs
<1> HIDE DEF b
<1>4. r \in Nat /\ a = r + b
  BY <1>1, <1>2, Lengths DEF b
<1>5. r % Lane = 0
  BY <1>2, <1>3, <1>4, LaneSum
<1>6. r <= Rate - Lane
  <2>1. Rate \in Nat /\ Rate % Lane = 0 /\ r < Rate
    BY <1>1, Lengths
  <2> QED BY ONLY <2>1, <1>4, <1>5, LaneSum
<1> QED BY <1>1, <1>4, <1>5, <1>6, Lengths

\* The last lane of the block.
LEMMA LaneLast ==
  ASSUME NEW at \in 0..(Rate - 1)
  PROVE  at \div Lane = (Rate \div Lane) - 1 <=> at >= Rate - Lane
<1> DEFINE n == Rate \div Lane
<1>1. n \in Nat /\ Rate = Lane * n /\ n >= 2 /\ Lane \in Nat \ {0} /\ Rate \in Nat
  BY RateIs, Lengths
<1> HIDE DEF n
<1>2. Lane * (n - 1) = Rate - Lane /\ n - 1 \in Nat
  BY <1>1
<1>3. at \in Nat
  BY <1>1
<1>4. ASSUME at \div Lane = n - 1 PROVE at >= Rate - Lane
  <2>1. PICK q \in Nat, r \in 0..(Lane - 1) : at = Lane * q + r /\ at \div Lane = q
    BY <1>1, <1>3, DivMod
  <2>2. q = n - 1
    BY <2>1, <1>4
  <2>3. at = (Rate - Lane) + r
    BY <2>1, <2>2, <1>2
  <2> QED BY <2>3, <1>1
<1>5. ASSUME at >= Rate - Lane PROVE at \div Lane = n - 1
  <2> DEFINE r == at - (Rate - Lane)
             m == n - 1
  <2>1. r \in 0..(Lane - 1) /\ m \in Nat /\ at = Lane * m + r
    BY <1>1, <1>2, <1>3, <1>5
  <2> HIDE DEF r, m
  <2>2. at \div Lane = m
    BY <2>1, <1>1, <1>3, DivUnique
  <2> QED BY <2>2 DEF m
<1> QED BY <1>4, <1>5 DEF n

\* The loop over whole lanes.
LEMMA KSteps ==
  ASSUME NEW s, IsSeq(s), NEW t, IsSeq(t), NEW x, NEW c, NEW m \in Nat,
         NEW at \in 0..(Rate - 1), Len(s) = Rate * m + at,
         Len(t) \div Lane = 0 \/ at % Lane = 0
  PROVE  \A i \in 0..(Len(t) \div Lane) :
            AbsorbSteps(KeccakAt(s, x, c), at, t)[i] = KeccakAt(s \o First(t, Lane * i), x, c)
<1> DEFINE M == Len(t) \div Lane
           k == KeccakAt(s, x, c)
           g(i) == KeccakAt(s \o First(t, Lane * i), x, c)
           In(i) == SubSeq(t, (i - 1) * Lane + 1, i * Lane)
           Place(i) == (at + (i - 1) * Lane) % Rate
           G == [i \in 0..M |-> g(i)]
<1>0. Lane \in Nat \ {0} /\ Rate \in Nat \ {0} /\ Len(t) \in Nat /\ Len(s) \in Nat
  BY Lengths, IsSeqLen
<1>1. M \in Nat /\ Lane * M <= Len(t)
  <2>1. PICK r \in 0..(Lane - 1) : M \in Nat /\ Len(t) = Lane * M + r
    BY ONLY <1>0, DivParts
  <2> QED BY <2>1, <1>0
<1>2. g(0) = k
  <2>1. Lane * 0 = 0
    BY <1>0
  <2>2. First(t, 0) = <<>> /\ s \o <<>> = s
    BY FirstAll, ConcatEmpty
  <2> QED BY <2>1, <2>2
<1>3. ASSUME NEW i \in 1..M PROVE AbsorbLane(g(i - 1), Place(i), In(i), TRUE) = g(i)
  <2> DEFINE a == Lane * (i - 1)
             e == at + a
             r == e % Rate
             f == First(t, a)
             v == s \o f
             w == In(i)
  <2>1. /\ a \in Nat /\ a = (i - 1) * Lane /\ Lane * i = a + Lane /\ i * Lane = a + Lane
        /\ a + Lane <= Lane * M
    BY <1>0, <1>1
  <2>2. at % Lane = 0
    BY <1>1, <1>3
  <2>3. a % Lane = 0
    <3>1. i - 1 \in Nat
      BY <1>1
    <3> QED BY ONLY <3>1, <2>1, LaneIs
  <2> HIDE DEF a
  <2>4. e \in Nat /\ e % Lane = 0
    <3>1. at \in Nat /\ a \in Nat
      BY <2>1, <1>0
    <3>2. (at + a) % Lane = 0
      BY ONLY <3>1, <2>2, <2>3, LaneSum
    <3> QED BY ONLY <3>1, <3>2 DEF e
  <2> HIDE DEF e
  <2>5. PICK q \in Nat : e = Rate * q + r
    BY ONLY <2>4, <1>0, DivParts DEF r
  <2>6. r % Lane = 0 /\ r \in 0..(Rate - Lane)
    BY <2>4, LaneRest
  <2> HIDE DEF r
  <2>7. r \in 0..(Rate - 1)
    BY <2>6, <1>0, Lengths
  <2>8. IsSeq(f) /\ Len(f) = a
    <3>1. a \in 0..Len(t)
      BY <2>1, <1>0, <1>1
    <3> QED BY ONLY <3>1, FirstIs, IsSeq(t)
  <2>9. IsSeq(v) /\ Len(v) = Len(s) + a
    BY <2>8, ConcatIs
  <2>10. Len(v) = Rate * (m + q) + r /\ m + q \in Nat
    <3>1. e = at + a
      BY DEF e
    <3>2. Rate * (m + q) = Rate * m + Rate * q /\ Rate * m \in Nat /\ Rate * q \in Nat
      BY <1>0
    <3> HIDE DEF v
    <3> QED BY <3>1, <3>2, <2>1, <2>5, <2>7, <2>9, <1>0
  <2>11. IsSeq(w) /\ Len(w) = Lane
         /\ \A j \in 1..Lane : w[j] = t[a + j]
    <3>1. a + 1 \in Nat \ {0} /\ a + Lane \in Nat /\ a + 1 <= (a + Lane) + 1
          /\ a + Lane <= Len(t) /\ (a + Lane) - (a + 1) + 1 = Lane
      BY <2>1, <1>0, <1>1
    <3>2. w = SubSeq(t, a + 1, a + Lane)
      BY ONLY <2>1
    <3>3. /\ IsSeq(SubSeq(t, a + 1, a + Lane))
          /\ Len(SubSeq(t, a + 1, a + Lane)) = (a + Lane) - (a + 1) + 1
          /\ \A j \in 1..((a + Lane) - (a + 1) + 1) :
                SubSeq(t, a + 1, a + Lane)[j] = t[(a + 1) + j - 1]
      BY <3>1, SubSeqIs
    <3>4. \A j \in 1..Lane : (a + 1) + j - 1 = a + j
      BY <2>1, <1>0
    <3> HIDE DEF w
    <3> QED BY ONLY <3>1, <3>2, <3>3, <3>4
  <2>12. (TRUE /\ r \div Lane = (Rate \div Lane) - 1) <=> r + Len(w) = Rate
    <3>1. r \div Lane = (Rate \div Lane) - 1 <=> r >= Rate - Lane
      BY <2>7, LaneLast
    <3> HIDE DEF w
    <3>2. r >= Rate - Lane <=> r + Len(w) = Rate
      BY <2>6, <2>7, <2>11, <1>0
    <3> QED BY ONLY <3>1, <3>2
  <2>13. r + Len(w) <= Rate
    <3> HIDE DEF w
    <3> QED BY <2>6, <2>11, <1>0
  <2>14. First(t, Lane * i) = f \o w
    <3> HIDE DEF w
    <3>1. /\ IsSeq(f \o w) /\ Len(f \o w) = a + Lane
          /\ \A j \in 1..(a + Lane) : (f \o w)[j] = IF j <= a THEN f[j] ELSE w[j - a]
      BY <2>8, <2>11, ConcatIs, SMTT(60)
    <3>2. a + Lane \in 0..Len(t) /\ a \in 0..Len(t)
      BY <2>1, <1>0, <1>1
    <3>3. /\ IsSeq(First(t, a + Lane)) /\ Len(First(t, a + Lane)) = a + Lane
          /\ \A j \in 1..(a + Lane) : First(t, a + Lane)[j] = t[j]
      BY <3>2, FirstIs
    <3>4. \A j \in 1..a : f[j] = t[j]
      BY <3>2, FirstIs
    <3>5. ASSUME NEW j \in 1..(a + Lane) PROVE First(t, a + Lane)[j] = (f \o w)[j]
      <4>1. CASE j <= a
        <5>1. j \in 1..a
          BY <4>1, <2>1
        <5> QED BY ONLY <5>1, <4>1, <3>1, <3>3, <3>4, <3>5
      <4>2. CASE ~(j <= a)
        <5>1. j - a \in 1..Lane /\ a + (j - a) = j
          BY <4>2, <2>1, <1>0
        <5>2. w[j - a] = t[j]
          BY ONLY <5>1, <2>11
        <5> QED BY ONLY <5>2, <4>2, <3>1, <3>3, <3>5
      <4> QED BY <4>1, <4>2
    <3>6. First(t, a + Lane) = f \o w
      BY ONLY <3>1, <3>3, <3>5, SeqSame
    <3> QED BY ONLY <3>6, <2>1
  <2>15. s \o First(t, Lane * i) = v \o w
    <3>1. IsSeq(w)
      BY <2>11
    <3> HIDE DEF w
    <3>2. (s \o f) \o w = s \o (f \o w)
      BY ONLY <3>1, <2>8, IsSeq(s), ConcatAssoc, SMTT(60)
    <3> QED BY ONLY <3>2, <2>14 DEF v
  <2>16. Place(i) = r
    BY ONLY <2>1 DEF r, e
  <2>17. g(i - 1) = KeccakAt(v, x, c)
    BY ONLY <2>1 DEF a
  <2>18. AbsorbLane(KeccakAt(v, x, c), r, w, TRUE) = KeccakAt(v \o w, x, c)
    <3>1. IsSeq(w)
      BY <2>11
    <3> DEFINE mq == m + q
    <3>2. mq \in Nat /\ Len(v) = Rate * mq + r
      BY <2>10
    <3>3. IsSeq(v)
      BY <2>9
    <3> DEFINE yes == TRUE
    <3>4. (yes /\ r \div Lane = (Rate \div Lane) - 1) <=> r + Len(w) = Rate
      BY ONLY <2>12
    <3> HIDE DEF w, v, mq, yes
    <3>5. AbsorbLane(KeccakAt(v, x, c), r, w, yes) = KeccakAt(v \o w, x, c)
      BY ONLY <3>1, <3>2, <3>3, <3>4, <2>7, <2>13, KAbsorbs
    <3> QED BY ONLY <3>5 DEF yes
  <2> HIDE DEF w, v
  <2> QED BY ONLY <2>15, <2>16, <2>17, <2>18 DEF w
<1> DEFINE Body(f) == [i \in 0..M |-> IF i = 0 THEN k ELSE AbsorbLane(f[i - 1], Place(i), In(i), TRUE)]
           S == CHOOSE f : f = Body(f)
<1>4. AbsorbSteps(k, at, t) = S
  BY DEF AbsorbSteps
<1> HIDE DEF g, M, k
<1>5. G = Body(G)
  <2>1. ASSUME NEW i \in 0..M
        PROVE  g(i) = IF i = 0 THEN k ELSE AbsorbLane(G[i - 1], Place(i), In(i), TRUE)
    <3>1. CASE i = 0
      BY ONLY <3>1, <1>2
    <3>2. CASE i # 0
      <4>1. i \in 1..M /\ i - 1 \in 0..M
        BY <3>2, <1>1
      <4>2. G[i - 1] = g(i - 1)
        BY ONLY <4>1
      <4> QED BY ONLY <4>1, <4>2, <3>2, <1>3
    <3> QED BY <3>1, <3>2
  <2> QED BY ONLY <2>1
<1> HIDE DEF G
<1>6. S = Body(S)
  BY ONLY <1>5
<1> DEFINE T == {i \in 0..M : S[i] = g(i)}
<1>7. S[0] = k
  <2>1. 0 \in 0..M
    BY ONLY <1>1
  <2>2. Body(S)[0] = k
    BY ONLY <2>1
  <2> HIDE DEF S
  <2> QED BY ONLY <2>2, <1>6
<1>8. 0 \in T
  BY <1>1, <1>2, <1>7
<1>9. ASSUME NEW i \in 1..M, i - 1 \in T PROVE i \in T
  <2>1. i \in 0..M /\ i # 0
    BY <1>1
  <2>2. Body(S)[i] = AbsorbLane(S[i - 1], Place(i), In(i), TRUE)
    BY ONLY <2>1
  <2>3. S[i - 1] = g(i - 1)
    BY ONLY <1>9
  <2> HIDE DEF S
  <2>4. S[i] = g(i)
    BY ONLY <2>2, <2>3, <1>3, <1>6, <1>9
  <2> QED BY ONLY <2>1, <2>4
<1> HIDE DEF T
<1>10. \A i \in 0..M : i \in T
  BY ONLY <1>1, <1>8, <1>9, UpTo
<1>11. \A i \in 0..M : S[i] = g(i)
  BY ONLY <1>10 DEF T
<1> QED BY ONLY <1>4, <1>11 DEF g, M, k
\* The context that has taken in s.
KeccakOf(s, x) == KeccakAt(s, x, Len(s) % Rate)

\* The rest by the rate of a sum within the block.
LEMMA RestSum ==
  ASSUME NEW s, IsSeq(s), NEW t, IsSeq(t)
  PROVE  /\ Len(s \o t) % Rate = ((Len(s) % Rate) + Len(t)) % Rate
         /\ (Len(s) % Rate) + Len(t) < Rate => Len(s \o t) % Rate = (Len(s) % Rate) + Len(t)
         /\ (Len(s) % Rate) + Len(t) = Rate => Len(s \o t) % Rate = 0
<1> DEFINE m == Len(s) \div Rate
           a == Len(s) % Rate
           n == Len(s \o t)
           e == a + Len(t)
           q == e \div Rate
           r == e % Rate
<1>1. Rate \in Nat \ {0} /\ Len(s) \in Nat /\ Len(t) \in Nat /\ n = Len(s) + Len(t)
  BY Lengths, IsSeqLen, ConcatIs
<1>2. m \in Nat /\ a \in 0..(Rate - 1) /\ Len(s) = Rate * m + a
  BY ONLY <1>1, DivParts
<1> HIDE DEF m, a, n
<1>3. e \in Nat /\ n \in Nat
  BY <1>1, <1>2
<1>4. q \in Nat /\ r \in 0..(Rate - 1) /\ e = Rate * q + r
  BY ONLY <1>1, <1>3, DivParts
<1> HIDE DEF q, r
<1>5. m + q \in Nat /\ n = Rate * (m + q) + r
  <2>1. Rate * (m + q) = Rate * m + Rate * q /\ Rate * m \in Nat /\ Rate * q \in Nat
    BY <1>1, <1>2, <1>4
  <2> QED BY <2>1, <1>1, <1>2, <1>4
<1>6. n % Rate = r
  <2> DEFINE l == m + q
  <2>1. l \in Nat /\ n = Rate * l + r
    BY <1>5
  <2> HIDE DEF l
  <2> QED BY ONLY <2>1, <1>3, <1>4, RateDiv
<1>7. ASSUME e < Rate PROVE r = e
  <2>1. e \in 0..(Rate - 1) /\ e = Rate * 0 + e
    BY <1>1, <1>3, <1>7
  <2> HIDE DEF e
  <2>2. e % Rate = e
    BY ONLY <2>1, <1>3, RateDiv
  <2> QED BY <2>2 DEF r
<1>8. ASSUME e = Rate PROVE r = 0
  <2>1. 0 \in 0..(Rate - 1) /\ e = Rate * 1 + 0
    BY <1>1, <1>3, <1>8
  <2> HIDE DEF e
  <2>2. e % Rate = 0
    BY ONLY <2>1, <1>3, RateDiv
  <2> QED BY <2>2 DEF r
<1> QED BY <1>6, <1>7, <1>8 DEF r, n, a

\* n bytes of t are taken up to the end of the lane where s ends, at place at;
\* c1 is the place after them, yes whether the lane is full then.
KFilling(s, t, at, n, c1, yes) ==
  /\ at = Len(s) % Rate /\ at % Lane # 0 /\ n = Lesser(Lane - (at % Lane), Len(t))
  /\ c1 = (IF at + n = Rate THEN 0 ELSE at + n)
  /\ yes <=> c1 % Lane = 0

\* The bytes up to the end of the lane where s ends.
LEMMA KFills ==
  ASSUME NEW s, IsSeq(s), NEW t, IsSeq(t), NEW x, NEW c, NEW at, NEW n, NEW c1, NEW yes,
         KFilling(s, t, at, n, c1, yes)
  PROVE  /\ n \in 0..Len(t)
         /\ AbsorbLane(KeccakAt(s, x, c), at, First(t, n), yes) = KeccakAt(s \o First(t, n), x, c)
         /\ c1 = Len(s \o First(t, n)) % Rate
         /\ n = Len(t) \/ c1 % Lane = 0
<1> DEFINE m == Len(s) \div Rate
           j == at % Lane
           f == First(t, n)
<1>a. at = Len(s) % Rate
  BY DEF KFilling
<1>c. c1 = (IF at + n = Rate THEN 0 ELSE at + n)
  BY DEF KFilling
<1>y. yes <=> c1 % Lane = 0
  BY DEF KFilling
<1>1. /\ Rate \in Nat \ {0} /\ Lane \in Nat \ {0} /\ Len(s) \in Nat /\ Len(t) \in Nat
      /\ Rate % Lane = 0 /\ Rate > Lane
  BY Lengths, IsSeqLen
<1>2. m \in Nat /\ at \in 0..(Rate - 1) /\ Len(s) = Rate * m + at
  BY ONLY <1>1, DivParts, <1>a
<1>3. at \in Nat
  BY <1>1, <1>2
<1>4. PICK i \in Nat : j \in 0..(Lane - 1) /\ at = Lane * i + j
  BY ONLY <1>1, <1>3, DivParts
<1>j. j # 0 /\ n = Lesser(Lane - j, Len(t))
  BY DEF KFilling
<1> DEFINE b == Lane * i
<1>5. b \in Nat /\ at = b + j
  BY <1>1, <1>4
<1>6. b % Lane = 0
  BY ONLY <1>5, LaneIs, i \in Nat
<1> HIDE DEF j, m, b
<1>7. b <= Rate - Lane
  <2>1. b < Rate /\ Rate \in Nat
    BY <1>1, <1>2, <1>4, <1>5
  <2> QED BY ONLY <2>1, <1>1, <1>5, <1>6, LaneSum
<1>8. Lane - j \in Nat /\ n = Lesser(Lane - j, Len(t))
  BY <1>1, <1>4, <1>j
<1>9. n \in 0..Len(t) /\ n <= Lane - j /\ (n = Len(t) \/ n = Lane - j)
  BY <1>1, <1>8 DEF Lesser
<1>10. at + n <= Rate
  BY <1>1, <1>4, <1>5, <1>7, <1>9
<1>11. IsSeq(f) /\ Len(f) = n
  BY ONLY <1>9, FirstIs, IsSeq(t)
<1> HIDE DEF f
<1>12. c1 = Len(s \o f) % Rate
  <2>1. CASE at + n = Rate
    BY ONLY <2>1, <1>c, <1>11, RestSum, IsSeq(s), <1>a
  <2>2. CASE at + n # Rate
    <3>1. at + n < Rate
      BY <2>2, <1>1, <1>3, <1>9, <1>10
    <3> QED BY ONLY <3>1, <2>2, <1>c, <1>11, RestSum, IsSeq(s), <1>a
  <2> QED BY <2>1, <2>2
<1>13. ASSUME j + n # Lane PROVE (at + n) % Lane # 0
  <2>1. at + n = Lane * i + (j + n) /\ j + n \in 0..(Lane - 1) /\ at + n \in Nat
    <3>1. at + n = b + (j + n) /\ at + n \in Nat
      BY ONLY <1>1, <1>3, <1>4, <1>5, <1>9
    <3>2. j + n \in 0..(Lane - 1)
      BY ONLY <1>1, <1>4, <1>9, <1>13
    <3> QED BY ONLY <3>1, <3>2 DEF b
  <2> DEFINE l == at + n
             r == j + n
  <2>2. r # 0
    BY <1>j, <1>4, <1>9
  <2>3. l \in Nat /\ l = Lane * i + r /\ r \in 0..(Lane - 1)
    BY <2>1
  <2> HIDE DEF l, r
  <2>4. l % Lane = r
    BY ONLY <2>3, <1>1, DivUnique, i \in Nat
  <2> QED BY <2>2, <2>4 DEF l
<1>14. ASSUME j + n = Lane PROVE c1 % Lane = 0
  <2>1. at + n = Lane * (i + 1) /\ i + 1 \in Nat /\ at + n \in Nat
    <3>1. at + n = b + Lane /\ at + n \in Nat
      BY ONLY <1>1, <1>3, <1>4, <1>5, <1>9, <1>14
    <3>2. Lane * (i + 1) = b + Lane /\ i + 1 \in Nat
      BY <1>1 DEF b
    <3> QED BY ONLY <3>1, <3>2
  <2>2. (at + n) % Lane = 0
    BY ONLY <2>1, LaneIs
  <2>3. 0 % Lane = 0
    BY <1>1
  <2> QED BY ONLY <2>2, <2>3, <1>c
<1>15. (c1 % Lane = 0 /\ at \div Lane = (Rate \div Lane) - 1) <=> at + Len(f) = Rate
  <2>1. at \div Lane = (Rate \div Lane) - 1 <=> at >= Rate - Lane
    BY ONLY <1>2, LaneLast
  <2>2. CASE at + n = Rate
    <3>1. 0 % Lane = 0
      BY <1>1
    <3>2. at >= Rate - Lane
      BY <2>2, <1>1, <1>3, <1>4, <1>9
    <3> QED BY ONLY <3>1, <3>2, <2>1, <2>2, <1>c, <1>11
  <2>3. CASE at + n # Rate
    <3>1. ASSUME at >= Rate - Lane PROVE c1 % Lane # 0
      <4>1. b > Rate - (2 * Lane) /\ Rate - Lane \in Nat
        BY <3>1, <1>1, <1>4, <1>5
      <4>2. ~(b < Rate - Lane)
        <5>1. SUFFICES ASSUME b < Rate - Lane PROVE FALSE
          OBVIOUS
        <5>2. (Rate - Lane) % Lane = 0
          <6>1. (Rate - Lane) + Lane = Rate /\ Lane % Lane = 0 /\ Rate - Lane \in Nat /\ Lane \in Nat
            BY <1>1
          <6>2. (Rate - Lane) % Lane = 0 <=> ((Rate - Lane) + Lane) % Lane = 0
            BY ONLY <6>1, LaneSum
          <6> QED BY ONLY <6>1, <6>2, <1>1
        <5>3. b <= (Rate - Lane) - Lane
          BY ONLY <5>1, <5>2, <4>1, <1>5, <1>6, LaneSum
        <5> QED BY <5>3, <4>1, <1>1, <1>5
      <4>3. j + n # Lane
        <5>1. SUFFICES ASSUME j + n = Lane PROVE FALSE
          OBVIOUS
        <5>2. at + n = b + Lane
          BY ONLY <5>1, <1>1, <1>4, <1>5, <1>9
        <5>3. b = Rate - Lane
          BY ONLY <4>1, <4>2, <1>1, <1>5, <1>7
        <5> QED BY ONLY <5>2, <5>3, <2>3, <1>1, <1>5
      <4> QED BY ONLY <4>3, <2>3, <1>c, <1>13
    <3> QED BY ONLY <3>1, <2>1, <2>3, <1>11
  <2> QED BY <2>2, <2>3
<1>16. AbsorbLane(KeccakAt(s, x, c), at, f, yes) = KeccakAt(s \o f, x, c)
  <2>1. (yes /\ at \div Lane = (Rate \div Lane) - 1) <=> at + Len(f) = Rate
    BY ONLY <1>15, <1>y
  <2>2. at + Len(f) <= Rate
    BY ONLY <1>10, <1>11
  <2>0. IsSeq(f) /\ m \in Nat /\ at \in 0..(Rate - 1) /\ Len(s) = Rate * m + at
    BY ONLY <1>2, <1>11
  <2> QED BY ONLY <2>0, <2>1, <2>2, IsSeq(s), KAbsorbs
<1>17. n = Len(t) \/ c1 % Lane = 0
  <2>1. n = Len(t) \/ j + n = Lane
    BY <1>1, <1>4, <1>9
  <2> QED BY ONLY <2>1, <1>14
<1> QED BY ONLY <1>9, <1>12, <1>16, <1>17 DEF f

\* keccak_write
LEMMA KeccakWrites ==
  ASSUME NEW s, IsSeq(s), NEW t, IsSeq(t), NEW x
  PROVE  KeccakWrite(KeccakOf(s, x), t) = KeccakOf(s \o t, x)
<1> DEFINE k == KeccakOf(s, x)
           at == k.count
           n == IF at % Lane = 0 THEN 0 ELSE Lesser(Lane - (at % Lane), Len(t))
           c1 == IF at + n = Rate THEN 0 ELSE at + n
           f == First(t, n)
           k1 == IF n = 0 THEN k ELSE AbsorbLane(k, at, f, c1 % Lane = 0)
           rest == Behind(t, n)
           m == Len(rest) \div Lane
           k2 == AbsorbSteps(k1, c1, rest)[m]
           c2 == (c1 + m * Lane) % Rate
           part == Behind(rest, m * Lane)
           k3 == IF part = <<>> THEN k2 ELSE AbsorbLane(k2, c2, part, FALSE)
<1>0. /\ Rate \in Nat \ {0} /\ Lane \in Nat \ {0} /\ Len(s) \in Nat /\ Len(t) \in Nat
      /\ Rate % Lane = 0 /\ Rate > Lane
  BY Lengths, IsSeqLen
<1>1. at = Len(s) % Rate
  BY DEF KeccakOf, KeccakAt
<1>a. k = KeccakAt(s, x, at)
  BY <1>1 DEF KeccakOf
<1> HIDE DEF k
<1>2. KeccakWrite(k, t) = IF t = <<>> THEN k ELSE [k3 EXCEPT !.count = c2 + Len(part)]
  BY DEF KeccakWrite
<1>3. at \in 0..(Rate - 1) /\ at \in Nat
  <2>1. Len(s) % Rate \in 0..(Rate - 1)
    BY ONLY <1>0, DivParts
  <2> QED BY ONLY <2>1, <1>0, <1>1
<1> HIDE DEF at
<1>4. n \in 0..Len(t) /\ k1 = KeccakAt(s \o f, x, at) /\ c1 = Len(s \o f) % Rate
      /\ (n = Len(t) \/ c1 % Lane = 0)
  <2>1. CASE at % Lane = 0
    <3>1. n = 0
      BY ONLY <2>1
    <3>2. First(t, 0) = <<>> /\ s \o <<>> = s
      BY FirstAll, ConcatEmpty
    <3>3. c1 = at
      BY <3>1, <1>0, <1>3
    <3>4. s \o f = s
      BY ONLY <3>1, <3>2
    <3>5. n \in 0..Len(t)
      BY <3>1, <1>0
    <3> HIDE DEF n, c1, f
    <3> QED BY ONLY <3>1, <3>3, <3>4, <3>5, <2>1, <1>1, <1>a
  <2>2. CASE at % Lane # 0
    <3>1. n = Lesser(Lane - (at % Lane), Len(t))
      BY ONLY <2>2
    <3> DEFINE a == at
               l == n
               d == c1
               yes == d % Lane = 0
    <3>a. /\ a = Len(s) % Rate /\ a % Lane # 0 /\ l = Lesser(Lane - (a % Lane), Len(t))
          /\ d = IF a + l = Rate THEN 0 ELSE a + l
      BY ONLY <2>2, <3>1, <1>1
    <3>b. yes <=> d % Lane = 0
      OBVIOUS
    <3> HIDE DEF a, l, d, yes
    <3>2. /\ l \in 0..Len(t)
          /\ AbsorbLane(KeccakAt(s, x, a), a, First(t, l), yes) = KeccakAt(s \o First(t, l), x, a)
          /\ d = Len(s \o First(t, l)) % Rate
          /\ l = Len(t) \/ d % Lane = 0
      <4>1. KFilling(s, t, a, l, d, yes)
        BY ONLY <3>a, <3>b DEF KFilling
      <4> QED BY ONLY <4>1, KFills, IsSeq(s), IsSeq(t)
    <3>3. /\ n \in 0..Len(t)
          /\ AbsorbLane(k, at, f, c1 % Lane = 0) = KeccakAt(s \o f, x, at)
          /\ c1 = Len(s \o f) % Rate
          /\ n = Len(t) \/ c1 % Lane = 0
      BY ONLY <3>2, <1>a DEF a, l, d, yes
    <3>4. CASE n = 0
      <4>1. First(t, 0) = <<>> /\ s \o <<>> = s
        BY FirstAll, ConcatEmpty
      <4>2. s \o f = s
        BY ONLY <3>4, <4>1
      <4> HIDE DEF n, c1, f
      <4> QED BY ONLY <4>2, <3>3, <3>4, <1>a
    <3>5. CASE n # 0
      <4> HIDE DEF n, c1, f
      <4> QED BY ONLY <3>3, <3>5
    <3> QED BY <3>4, <3>5
  <2> QED BY <2>1, <2>2
<1> HIDE DEF k1, n, c1
<1>5. /\ IsSeq(f) /\ Len(f) = n /\ IsSeq(rest) /\ Len(rest) = Len(t) - n /\ f \o rest = t
  BY ONLY <1>4, FirstIs, IsSeq(t)
<1> HIDE DEF f, rest
<1> DEFINE v == s \o f
<1>6. IsSeq(v) /\ Len(v) \in Nat
  BY ONLY <1>5, ConcatIs, IsSeqLen, IsSeq(s)
<1>7. c1 = Len(v) % Rate
  BY <1>4
<1>k. k1 = KeccakAt(v, x, at)
  BY <1>4
<1> HIDE DEF v
<1>8. Len(v) \div Rate \in Nat /\ c1 \in 0..(Rate - 1) /\ Len(v) = Rate * (Len(v) \div Rate) + c1
  BY ONLY <1>0, <1>6, <1>7, DivParts
<1>9. /\ Len(rest) \in Nat /\ m \in Nat /\ Len(rest) % Lane \in 0..(Lane - 1)
      /\ Len(rest) = Lane * m + (Len(rest) % Lane)
  BY ONLY <1>0, <1>5, IsSeqLen, DivParts
<1>10. Len(rest) = 0 \/ c1 % Lane = 0
  BY <1>0, <1>4, <1>5
<1>11. m = 0 \/ c1 % Lane = 0
  <2>1. ASSUME Len(rest) = 0 PROVE m = 0
    BY <2>1, <1>0
  <2> QED BY ONLY <2>1, <1>10
<1>12. k2 = KeccakAt(v \o First(rest, Lane * m), x, at)
  <2> DEFINE q == Len(v) \div Rate
  <2>1. q \in Nat /\ Len(v) = Rate * q + c1
    BY <1>8
  <2> HIDE DEF q
  <2>2. \A i \in 0..(Len(rest) \div Lane) :
          AbsorbSteps(KeccakAt(v, x, at), c1, rest)[i] = KeccakAt(v \o First(rest, Lane * i), x, at)
    BY ONLY <2>1, <1>5, <1>6, <1>8, <1>11, KSteps
  <2>3. m \in 0..(Len(rest) \div Lane)
    BY <1>9
  <2> HIDE DEF m
  <2> QED BY ONLY <2>2, <2>3, <1>k DEF k2
<1> HIDE DEF k2
<1>13. Lane * m \in 0..Len(rest) /\ m * Lane = Lane * m
  BY <1>0, <1>9
<1> DEFINE g == First(rest, Lane * m)
           w == v \o g
<1>14. part = Behind(rest, Lane * m)
  BY ONLY <1>13
<1> HIDE DEF m, part
<1>15. /\ IsSeq(g) /\ Len(g) = Lane * m /\ IsSeq(part) /\ Len(part) = Len(rest) - Lane * m
       /\ g \o part = rest
  <2>1. /\ IsSeq(g) /\ Len(g) = Lane * m /\ IsSeq(Behind(rest, Lane * m))
        /\ Len(Behind(rest, Lane * m)) = Len(rest) - Lane * m
        /\ g \o Behind(rest, Lane * m) = rest
    BY ONLY <1>5, <1>13, FirstIs
  <2> QED BY ONLY <2>1, <1>14
<1> HIDE DEF g
<1>16. IsSeq(w) /\ Len(w) \in Nat /\ k2 = KeccakAt(w, x, at)
  <2>1. IsSeq(v \o g)
    BY ONLY <1>6, <1>15, ConcatIs
  <2> QED BY ONLY <2>1, <1>12, IsSeqLen DEF w, g
<1>17. c2 = Len(w) % Rate
  <2>1. Len(v \o g) % Rate = ((Len(v) % Rate) + Len(g)) % Rate
    BY ONLY <1>6, <1>15, RestSum
  <2> QED BY ONLY <2>1, <1>7, <1>13, <1>15 DEF c2, w
<1>18. s \o t = w \o part
  <2>1. v \o (g \o part) = (v \o g) \o part
    <3>1. IsSeq(v) /\ IsSeq(g) /\ IsSeq(part)
      BY ONLY <1>6, <1>15
    <3> QED BY ONLY <3>1, ConcatAssoc
  <2>2. (s \o f) \o rest = s \o (f \o rest)
    <3>1. IsSeq(f) /\ IsSeq(rest)
      BY ONLY <1>5
    <3> QED BY ONLY <3>1, IsSeq(s), ConcatAssoc
  <2> QED BY ONLY <2>1, <2>2, <1>5, <1>15 DEF v, w
<1>19. Len(part) \in 0..(Lane - 1)
  BY <1>0, <1>9, <1>15
<1> HIDE DEF w, c2
<1>20. Len(w) \div Rate \in Nat /\ c2 \in 0..(Rate - 1) /\ Len(w) = Rate * (Len(w) \div Rate) + c2
  BY ONLY <1>0, <1>16, <1>17, DivParts
<1>21. c2 + Len(part) < Rate
  <2>1. CASE Len(part) = 0
    BY <2>1, <1>0, <1>20
  <2>2. CASE Len(part) # 0
    <3>1. c1 % Lane = 0
      BY <2>2, <1>10, <1>0, <1>9, <1>15
    <3>2. c1 \in Nat /\ Lane * m \in Nat
      BY <1>0, <1>8, <1>9
    <3>3. (Lane * m) % Lane = 0
      BY ONLY <3>2, <1>9, LaneIs
    <3>4. (c1 + Lane * m) % Lane = 0 /\ c1 + Lane * m \in Nat
      BY ONLY <3>1, <3>2, <3>3, LaneSum
    <3> DEFINE e == c1 + Lane * m
    <3>5. e \in Nat /\ e % Lane = 0
      BY <3>4
    <3>6. c2 = e % Rate
      BY ONLY <1>13 DEF c2
    <3> HIDE DEF e
    <3>7. c2 \in 0..(Rate - Lane)
      BY ONLY <3>5, <3>6, LaneRest
    <3> QED BY <3>7, <1>0, <1>19
  <2> QED BY <2>1, <2>2
<1>22. k3 = KeccakAt(s \o t, x, at)
  <2>1. CASE part = <<>>
    <3>1. w \o <<>> = w
      BY <1>16, ConcatEmpty
    <3> QED BY ONLY <3>1, <2>1, <1>16, <1>18
  <2>2. CASE part # <<>>
    <3> DEFINE q == Len(w) \div Rate
               no == FALSE
    <3>1. q \in Nat /\ Len(w) = Rate * q + c2
      BY <1>20
    <3>2. c2 + Len(part) <= Rate /\ c2 + Len(part) # Rate
      BY <1>0, <1>19, <1>20, <1>21
    <3>3. (no /\ c2 \div Lane = (Rate \div Lane) - 1) <=> c2 + Len(part) = Rate
      BY ONLY <3>2
    <3> HIDE DEF q, no
    <3>5. IsSeq(w) /\ IsSeq(part) /\ c2 \in 0..(Rate - 1) /\ c2 + Len(part) <= Rate
      BY ONLY <3>2, <1>15, <1>16, <1>20
    <3>4. AbsorbLane(KeccakAt(w, x, at), c2, part, no) = KeccakAt(w \o part, x, at)
      BY ONLY <3>1, <3>3, <3>5, KAbsorbs
    <3> QED BY ONLY <3>4, <2>2, <1>16, <1>18 DEF no
  <2> QED BY <2>1, <2>2
<1> HIDE DEF k3
<1>23. c2 + Len(part) = Len(s \o t) % Rate
  BY ONLY <1>15, <1>16, <1>17, <1>18, <1>21, RestSum
<1>24. CASE t = <<>>
  <2>1. s \o <<>> = s
    BY ConcatEmpty
  <2>2. KeccakOf(s \o t, x) = k
    BY ONLY <2>1, <1>24 DEF k
  <2> QED BY ONLY <2>2, <1>2, <1>24 DEF k
<1>25. CASE t # <<>>
  <2> DEFINE y == s \o t
             d == Len(y) % Rate
  <2>1. KeccakWrite(k, t) = [k3 EXCEPT !.count = d]
    BY ONLY <1>2, <1>23, <1>25
  <2>2. k3 = KeccakAt(y, x, at)
    BY <1>22
  <2> HIDE DEF d, y
  <2> DEFINE T == [done : {KDone(y)}, cur : {KBlk(y, Len(y) \div Rate)}, count : {d}, suffix : {x},
                   squeezed : {0}, way : {"none"}, out : {None}]
  <2>3. [k3 EXCEPT !.count = d] \in T
    BY ONLY <2>2 DEF KeccakAt
  <2>4. \A z \in T : z = KeccakAt(y, x, d)
    BY ONLY TRUE DEF KeccakAt
  <2> HIDE DEF T
  <2>5. KeccakWrite(k, t) = KeccakAt(y, x, d)
    BY ONLY <2>1, <2>3, <2>4
  <2> QED BY ONLY <2>5 DEF y, d, k, KeccakOf
<1> QED BY <1>24, <1>25
\* A context at the start.
LEMMA KeccakInits == KeccakInit = KeccakOf(<<>>, <<"1f">>)
<1>1. IsSeq(<<>>) /\ Len(<<>>) = 0 /\ Rate \in Nat \ {0}
  BY EmptyIs, Lengths
<1>2. 0 \div Rate = 0 /\ 0 % Rate = 0
  <2>1. 0 = Rate * 0 + 0 /\ 0 \in 0..(Rate - 1)
    BY <1>1
  <2> QED BY ONLY <2>1, RateDiv
<1>3. KBlk(<<>>, 0) = ZeroState
  <2>1. \A p \in 0..(Rate - 1) : ~(0 * Rate + p + 1 <= Len(<<>>))
    BY <1>1
  <2> QED BY <2>1 DEF KBlk, ZeroState
<1>4. KDone(<<>>) = <<>>
  <2>1. IsSeq(KDone(<<>>)) /\ Len(KDone(<<>>)) = 0
    BY <1>1, <1>2, SeqFcn DEF KDone
  <2> QED BY <2>1, EmptyIs
<1> QED BY <1>1, <1>2, <1>3, <1>4 DEF KeccakInit, KeccakOf, KeccakAt

\* One byte behind others, or none.
LEMMA OneMore ==
  ASSUME NEW b, IsSeq(b), NEW y, NEW P
  PROVE  (IF P THEN Append(b, y) ELSE b) = b \o (IF P THEN <<y>> ELSE <<>>)
         /\ IsSeq(b \o (IF P THEN <<y>> ELSE <<>>))
<1>1. Append(b, y) = b \o <<y>> /\ IsSeq(Append(b, y)) /\ b \o <<>> = b
  BY AppendIs, ConcatEmpty
<1> QED BY <1>1

\* keccak_final
LEMMA KeccakFinals ==
  ASSUME NEW s, IsSeq(s), NEW x
  PROVE  KeccakFinal(KeccakOf(s, x)) =
           [done |-> KeccakBlocks(s, x), cur |-> ZeroState, count |-> 0, suffix |-> x,
            squeezed |-> 0, way |-> "none", out |-> None]
<1> DEFINE n == Len(s) \div Rate
           c == Len(s) % Rate
           k == KeccakOf(s, x)
           a1 == AbsorbAt(k, c, <<x>>)
           a == AbsorbAt(a1, Rate - 1, <<Byte80>>)
           z1 == [p \in 0..(Rate - 1) |-> IF p = c THEN Append(KBlk(s, n)[p], x) ELSE KBlk(s, n)[p]]
           z == [p \in 0..(Rate - 1) |-> IF p = Rate - 1 THEN Append(z1[p], Byte80) ELSE z1[p]]
           Rec(d, v, e) == [done |-> d, cur |-> v, count |-> e, suffix |-> x,
                            squeezed |-> 0, way |-> "none", out |-> None]
<1>1. Rate \in Nat \ {0} /\ Len(s) \in Nat
  BY Lengths, IsSeqLen
<1>2. n \in Nat /\ c \in 0..(Rate - 1) /\ Len(s) = Rate * n + c
  BY ONLY <1>1, DivParts
<1>3. k = Rec(KDone(s), KBlk(s, n), c)
  BY DEF KeccakOf, KeccakAt
<1> HIDE DEF n, c, k
<1>4. a1 = Rec(KDone(s), z1, c)
  <2>1. k.cur = KBlk(s, n)
    BY <1>3
  <2>2. Len(<<x>>) = 1 /\ <<x>>[1] = x
    BY AppendIs, EmptyIs
  <2>3. a1 = [k EXCEPT !.cur = [p \in 0..(Rate - 1) |->
                 IF c <= p /\ p < c + Len(<<x>>) THEN Append(k.cur[p], <<x>>[p - c + 1])
                 ELSE k.cur[p]]]
    BY DEF AbsorbAt
  <2>4. ASSUME NEW p \in 0..(Rate - 1)
        PROVE  (IF c <= p /\ p < c + Len(<<x>>) THEN Append(k.cur[p], <<x>>[p - c + 1])
                ELSE k.cur[p]) = IF p = c THEN Append(KBlk(s, n)[p], x) ELSE KBlk(s, n)[p]
    <3>1. (c <= p /\ p < c + 1) <=> p = c
      BY <1>1, <1>2
    <3>2. p = c => p - c + 1 = 1
      BY <1>1, <1>2
    <3> QED BY ONLY <3>1, <3>2, <2>1, <2>2
  <2>5. a1 = [k EXCEPT !.cur = z1]
    BY ONLY <2>3, <2>4
  <2> HIDE DEF z1, a1
  <2> DEFINE T == [done : {KDone(s)}, cur : {z1}, count : {c}, suffix : {x},
                   squeezed : {0}, way : {"none"}, out : {None}]
  <2>6. [k EXCEPT !.cur = z1] \in T
    BY ONLY <1>3
  <2>7. \A y \in T : y = Rec(KDone(s), z1, c)
    BY ONLY TRUE
  <2> HIDE DEF T, Rec
  <2> QED BY ONLY <2>5, <2>6, <2>7
<1> HIDE DEF a1
<1>5. a = Rec(KDone(s), z, c)
  <2>1. a1.cur = z1
    BY ONLY <1>4
  <2>2. Len(<<Byte80>>) = 1 /\ <<Byte80>>[1] = Byte80
    BY AppendIs, EmptyIs
  <2>3. a = [a1 EXCEPT !.cur = [p \in 0..(Rate - 1) |->
                 IF Rate - 1 <= p /\ p < (Rate - 1) + Len(<<Byte80>>)
                 THEN Append(a1.cur[p], <<Byte80>>[p - (Rate - 1) + 1]) ELSE a1.cur[p]]]
    BY DEF AbsorbAt
  <2> HIDE DEF z1
  <2>4. ASSUME NEW p \in 0..(Rate - 1)
        PROVE  (IF Rate - 1 <= p /\ p < (Rate - 1) + Len(<<Byte80>>)
                THEN Append(a1.cur[p], <<Byte80>>[p - (Rate - 1) + 1]) ELSE a1.cur[p])
               = IF p = Rate - 1 THEN Append(z1[p], Byte80) ELSE z1[p]
    <3>1. (Rate - 1 <= p /\ p < (Rate - 1) + 1) <=> p = Rate - 1
      BY <1>1
    <3>2. p = Rate - 1 => p - (Rate - 1) + 1 = 1
      BY <1>1
    <3> QED BY ONLY <3>1, <3>2, <2>1, <2>2
  <2>5. a = [a1 EXCEPT !.cur = z]
    BY ONLY <2>3, <2>4
  <2> HIDE DEF z, a
  <2> DEFINE T == [done : {KDone(s)}, cur : {z}, count : {c}, suffix : {x},
                   squeezed : {0}, way : {"none"}, out : {None}]
  <2>6. [a1 EXCEPT !.cur = z] \in T
    BY ONLY <1>4
  <2>7. \A y \in T : y = Rec(KDone(s), z, c)
    BY ONLY TRUE
  <2> HIDE DEF T, Rec
  <2> QED BY ONLY <2>5, <2>6, <2>7
<1>6. KeccakFinal(k) = [a EXCEPT !.done = Append(@, a.cur), !.cur = ZeroState, !.count = 0]
  <2>1. k.count = c /\ k.suffix = x
    BY ONLY <1>3
  <2> QED BY <2>1 DEF KeccakFinal, a1
<1> HIDE DEF a
<1>7. KeccakFinal(k) = Rec(Append(KDone(s), z), ZeroState, 0)
  <2> DEFINE d == Append(KDone(s), z)
             T == [done : {d}, cur : {ZeroState}, count : {0}, suffix : {x},
                   squeezed : {0}, way : {"none"}, out : {None}]
  <2>1. a.done = KDone(s) /\ a.cur = z
    BY ONLY <1>5
  <2>2. [a EXCEPT !.done = Append(@, a.cur), !.cur = ZeroState, !.count = 0]
        = [a EXCEPT !.done = d, !.cur = ZeroState, !.count = 0]
    BY ONLY <2>1
  <2> HIDE DEF d, z
  <2>3. [a EXCEPT !.done = d, !.cur = ZeroState, !.count = 0] \in T
    BY ONLY <1>5
  <2>4. \A y \in T : y = Rec(d, ZeroState, 0)
    BY ONLY TRUE
  <2> HIDE DEF T, Rec
  <2>5. KeccakFinal(k) = Rec(d, ZeroState, 0)
    BY ONLY <1>6, <2>2, <2>3, <2>4
  <2> QED BY ONLY <2>5 DEF d
<1> DEFINE P(i, p) == (i - 1) * Rate + p + 1
           In(i, p) == IF P(i, p) <= Len(s) THEN <<s[P(i, p)]>> ELSE <<>>
           B(i, p) == (In(i, p) \o (IF P(i, p) = Len(s) + 1 THEN <<x>> ELSE <<>>))
                      \o (IF i = n + 1 /\ p = Rate - 1 THEN <<Byte80>> ELSE <<>>)
           K == KeccakBlocks(s, x)
<1>8. K = [i \in 1..(n + 1) |-> [p \in 0..(Rate - 1) |-> B(i, p)]]
  BY DEF KeccakBlocks, n
<1>9. \A i, p : IsSeq(In(i, p))
  BY AppendIs, EmptyIs
<1>10. \A i \in 1..(n + 1) : (i - 1) * Rate \in Nat /\ n * Rate = Rate * n
         /\ (i <= n => (i - 1) * Rate + Rate <= Rate * n) /\ (n + 1) - 1 = n
  <2>1. ASSUME NEW i \in 1..(n + 1)
        PROVE  /\ (i - 1) * Rate \in Nat /\ n * Rate = Rate * n /\ (n + 1) - 1 = n
               /\ (i <= n => (i - 1) * Rate + Rate <= Rate * n)
    <3>1. (i - 1) * Rate \in Nat /\ n * Rate = Rate * n /\ (n + 1) - 1 = n
      BY <1>1, <1>2
    <3>2. ASSUME i <= n PROVE (i - 1) * Rate + Rate <= Rate * n
      <4>1. i * Rate <= n * Rate /\ i * Rate = (i - 1) * Rate + Rate
        BY <3>2, <1>1, <1>2
      <4> QED BY ONLY <4>1, <3>1
    <3> QED BY <3>1, <3>2
  <2> QED BY <2>1
<1>11. ASSUME NEW i \in 1..n PROVE [p \in 0..(Rate - 1) |-> B(i, p)] = KBlk(s, i - 1)
  <2>1. ASSUME NEW p \in 0..(Rate - 1) PROVE B(i, p) = In(i, p)
    <3>1. i \in 1..(n + 1) /\ i <= n /\ i # n + 1
      BY <1>2
    <3>2. P(i, p) # Len(s) + 1
      BY <3>1, <1>1, <1>2, <1>10
    <3>3. IsSeq(In(i, p))
      BY <1>9
    <3> HIDE DEF In, P
    <3>4. In(i, p) \o <<>> = In(i, p)
      BY ONLY <3>3, ConcatEmpty
    <3> QED BY ONLY <3>1, <3>2, <3>4
  <2>2. KBlk(s, i - 1) = [p \in 0..(Rate - 1) |-> In(i, p)]
    BY DEF KBlk
  <2> HIDE DEF B, In
  <2> QED BY ONLY <2>1, <2>2
<1>12. [p \in 0..(Rate - 1) |-> B(n + 1, p)] = z
  <2>1. ASSUME NEW p \in 0..(Rate - 1) PROVE B(n + 1, p) = z[p]
    <3> DEFINE b == In(n + 1, p)
    <3>1. KBlk(s, n)[p] = b
      BY <1>2 DEF KBlk
    <3>2. P(n + 1, p) = Len(s) + 1 <=> p = c
      BY <1>1, <1>2, <1>10
    <3>3. IsSeq(b)
      BY <1>9
    <3>4. z1[p] = IF p = c THEN Append(b, x) ELSE b
      BY <3>1
    <3>5. z[p] = IF p = Rate - 1 THEN Append(z1[p], Byte80) ELSE z1[p]
      OBVIOUS
    <3> HIDE DEF z, z1, b, P, In
    <3>6. z1[p] = b \o (IF p = c THEN <<x>> ELSE <<>>) /\ IsSeq(b \o (IF p = c THEN <<x>> ELSE <<>>))
      BY ONLY <3>3, <3>4, OneMore
    <3>7. IsSeq(z1[p])
      BY ONLY <3>6
    <3>8. z[p] = z1[p] \o (IF p = Rate - 1 THEN <<Byte80>> ELSE <<>>)
      BY ONLY <3>5, <3>7, OneMore
    <3>9. B(n + 1, p) = (b \o (IF p = c THEN <<x>> ELSE <<>>))
                        \o (IF p = Rate - 1 THEN <<Byte80>> ELSE <<>>)
      BY ONLY <3>2 DEF b
    <3> DEFINE e1 == IF p = c THEN <<x>> ELSE <<>>
               e2 == IF p = Rate - 1 THEN <<Byte80>> ELSE <<>>
    <3>10. z1[p] = b \o e1 /\ z[p] = z1[p] \o e2 /\ B(n + 1, p) = (b \o e1) \o e2
      BY <3>6, <3>8, <3>9
    <3> HIDE DEF B, e1, e2
    <3> QED BY ONLY <3>10
  <2>2. z = [p \in 0..(Rate - 1) |-> z[p]]
    OBVIOUS
  <2> HIDE DEF z, B
  <2> QED BY ONLY <2>1, <2>2
<1> HIDE DEF z, B
<1>13. K = Append(KDone(s), z)
  <2>1. /\ IsSeq(KDone(s)) /\ Len(KDone(s)) = n /\ \A i \in 1..n : KDone(s)[i] = KBlk(s, i - 1)
    BY <1>2, SeqFcn DEF KDone, n
  <2>2. /\ IsSeq(K) /\ Len(K) = n + 1
        /\ \A i \in 1..(n + 1) : K[i] = [p \in 0..(Rate - 1) |-> B(i, p)]
    <3>1. n + 1 \in Nat
      BY <1>2
    <3> QED BY <3>1, <1>8, SeqFcn
  <2> DEFINE g == KDone(s) \o <<z>>
  <2>3. Append(KDone(s), z) = g /\ IsSeq(<<z>>) /\ Len(<<z>>) = 1 /\ <<z>>[1] = z
    BY <2>1, AppendIs
  <2>4. /\ IsSeq(g) /\ Len(g) = n + 1
        /\ \A i \in 1..(n + 1) : g[i] = IF i <= n THEN KDone(s)[i] ELSE <<z>>[i - n]
    BY <2>1, <2>3, ConcatIs
  <2> HIDE DEF g, K
  <2>5. ASSUME NEW i \in 1..(n + 1) PROVE K[i] = g[i]
    <3>1. CASE i <= n
      <4>1. i \in 1..n
        BY <3>1, <1>2
      <4> QED BY ONLY <4>1, <3>1, <2>1, <2>2, <2>4, <2>5, <1>11
    <3>2. CASE ~(i <= n)
      <4>1. i = n + 1 /\ i - n = 1
        BY <3>2, <1>2
      <4> QED BY ONLY <4>1, <3>2, <2>2, <2>3, <2>4, <2>5, <1>12
    <3> QED BY <3>1, <3>2
  <2>6. K = g
    BY ONLY <2>2, <2>4, <2>5, SeqSame
  <2> QED BY ONLY <2>3, <2>6
<1> QED BY ONLY <1>7, <1>13 DEF k
-----------------------------------------------------------------------------
(* Keccak, squeezing *)

\* A context whose input is complete, in the blocks B; v is the rest of it.
Ks(B, v, cnt, sq) ==
  [done |-> B, cur |-> v[1], count |-> cnt, suffix |-> v[2], squeezed |-> sq,
   way |-> v[3], out |-> v[4]]
St(k, n, o) == [k |-> k, n |-> n, out |-> o]

\* Byte i of the output, and l bytes behind the first d.
XByte(B, i) == <<"z", B, ((i - 1) \div Rate) + 1, (i - 1) % Rate>>
XOut(B, d, l) == [i \in 1..l |-> XByte(B, d + i)]

\* e bytes have been squeezed when the context stands at byte cnt of block sq; at
\* 0 the permutation is still to come.
Placed(cnt, sq, e) ==
  /\ cnt \in 0..(Rate - 1) /\ sq \in Nat /\ e \in Nat
  /\ e + (IF cnt = 0 THEN 0 ELSE Rate - cnt) = Rate * sq

\* The bytes at place cnt of block sq.
LEMMA XByteIs ==
  ASSUME NEW B, NEW sq \in Nat, NEW p \in 0..(Rate - 1), NEW i \in Nat \ {0},
         (i - 1) + Rate = Rate * sq + p
  PROVE  XByte(B, i) = <<"z", B, sq, p>>
<1>1. Rate \in Nat \ {0}
  BY Lengths
<1>2. sq # 0
  BY <1>1
<1> DEFINE m == sq - 1
           l == i - 1
<1>3. m \in Nat /\ l \in Nat /\ l = Rate * m + p
  BY <1>1, <1>2
<1> HIDE DEF m, l
<1>4. l \div Rate = m /\ l % Rate = p
  BY ONLY <1>3, RateDiv, p \in 0..(Rate - 1)
<1>5. m + 1 = sq
  BY DEF m
<1> QED BY ONLY <1>4, <1>5 DEF XByte, l

\* a is the l bytes behind the first d, and o the m bytes behind them.
XMore(a, o, B, d, l, m) ==
  /\ d \in Nat /\ l \in Nat /\ m \in Nat /\ a = XOut(B, d, l)
  /\ IsSeq(o) /\ Len(o) = m /\ \A i \in 1..m : o[i] = XByte(B, d + l + i)

\* Output behind output.
LEMMA XOutMore ==
  ASSUME NEW B, NEW d, NEW l, NEW m, NEW o, NEW a, XMore(a, o, B, d, l, m)
  PROVE  a \o o = XOut(B, d, l + m)
<1> DEFINE b == XOut(B, d, l + m)
<1>0. /\ IsSeq(o) /\ Len(o) = m /\ \A i \in 1..m : o[i] = XByte(B, d + l + i)
      /\ d \in Nat /\ l \in Nat /\ m \in Nat /\ a = XOut(B, d, l)
  BY DEF XMore
<1>1. IsSeq(a) /\ Len(a) = l /\ \A i \in 1..l : a[i] = XByte(B, d + i)
  BY <1>0, SeqFcn DEF XOut
<1>2. IsSeq(b) /\ Len(b) = l + m /\ \A i \in 1..(l + m) : b[i] = XByte(B, d + i)
  <2>1. l + m \in Nat
    BY <1>0
  <2> QED BY <2>1, SeqFcn DEF XOut
<1> HIDE DEF b
<1>3. /\ IsSeq(a \o o) /\ Len(a \o o) = l + m
      /\ \A i \in 1..(l + m) : (a \o o)[i] = IF i <= l THEN a[i] ELSE o[i - l]
  <2>1. IsSeq(a) /\ IsSeq(o) /\ Len(a) = l /\ Len(o) = m
    BY ONLY <1>0, <1>1
  <2> QED BY ONLY <2>1, ConcatIs
<1>4. ASSUME NEW i \in 1..(l + m) PROVE (a \o o)[i] = b[i]
  <2>1. CASE i <= l
    <3>1. i \in 1..l
      BY <2>1, <1>0
    <3> QED BY ONLY <3>1, <2>1, <1>1, <1>2, <1>3, <1>4
  <2>2. CASE ~(i <= l)
    <3>1. i - l \in 1..m /\ d + l + (i - l) = d + i
      BY <2>2, <1>0
    <3>2. o[i - l] = XByte(B, d + i)
      BY <3>1, <1>0
    <3> QED BY ONLY <3>2, <2>2, <1>2, <1>3, <1>4
  <2> QED BY <2>1, <2>2
<1>5. a \o o = b
  BY ONLY <1>2, <1>3, <1>4, SeqSame
<1> QED BY <1>5 DEF b

\* The context stands in a block that has been begun, and m bytes are to be had.
Begun(d, n, l, m, cnt, sq) ==
  /\ d \in Nat /\ n \in Nat /\ l \in 0..n /\ m \in 0..(n - l) /\ cnt \in 0..(Rate - 1)
  /\ sq \in Nat /\ d + l + Rate = Rate * sq + cnt /\ cnt + m <= Rate /\ cnt + m > 0

\* Bytes taken from where the context stands, within the block.
LEMMA Takes ==
  ASSUME NEW B, NEW v, NEW d, NEW n, NEW l, NEW m, NEW cnt, NEW sq, Begun(d, n, l, m, cnt, sq)
  PROVE  /\ Taken(St(Ks(B, v, cnt, sq), n - l, XOut(B, d, l)), m)
              = St(Ks(B, v, (cnt + m) % Rate, sq), n - (l + m), XOut(B, d, l + m))
         /\ Placed((cnt + m) % Rate, sq, d + (l + m)) /\ l + m \in 0..n
         /\ (cnt + m) % Rate = IF cnt + m = Rate THEN 0 ELSE cnt + m
<1>0. /\ d \in Nat /\ n \in Nat /\ l \in 0..n /\ m \in 0..(n - l) /\ cnt \in 0..(Rate - 1)
      /\ sq \in Nat /\ d + l + Rate = Rate * sq + cnt /\ cnt + m <= Rate /\ cnt + m > 0
  BY DEF Begun
<1>1. Rate \in Nat \ {0} /\ l \in Nat /\ m \in Nat /\ cnt \in Nat /\ n - l \in Nat
  BY <1>0, Lengths
<1> DEFINE k == Ks(B, v, cnt, sq)
           c == (cnt + m) % Rate
           o == [i \in 1..m |-> StateByte(k, k.count + i - 1)]
           s == St(k, n - l, XOut(B, d, l))
<1>2. c = IF cnt + m = Rate THEN 0 ELSE cnt + m
  <2> DEFINE e == cnt + m
  <2>0. e \in Nat /\ e <= Rate
    BY <1>0, <1>1
  <2> HIDE DEF e
  <2>1. CASE e = Rate
    <3>1. e = Rate * 1 + 0 /\ 0 \in 0..(Rate - 1)
      BY <2>1, <1>1
    <3>2. e % Rate = 0
      BY ONLY <3>1, <2>0, RateDiv
    <3> QED BY ONLY <3>2, <2>1 DEF e
  <2>2. CASE e # Rate
    <3>1. e = Rate * 0 + e /\ e \in 0..(Rate - 1)
      BY <2>0, <2>2, <1>1
    <3>2. e % Rate = e
      BY ONLY <3>1, <2>0, RateDiv
    <3> QED BY ONLY <3>2, <2>2 DEF e
  <2> QED BY <2>1, <2>2
<1>3. IsSeq(o) /\ Len(o) = m /\ \A i \in 1..m : o[i] = XByte(B, d + l + i)
  <2>1. IsSeq(o) /\ Len(o) = m /\ \A i \in 1..m : o[i] = StateByte(k, k.count + i - 1)
    BY <1>1, SeqFcn
  <2>2. ASSUME NEW i \in 1..m PROVE StateByte(k, k.count + i - 1) = XByte(B, d + l + i)
    <3> DEFINE p == cnt + i - 1
               j == d + l + i
    <3>1. p \in 0..(Rate - 1) /\ j \in Nat \ {0} /\ (j - 1) + Rate = Rate * sq + p
      <4>1. Rate * sq \in Nat
        BY <1>0, <1>1
      <4> QED BY <4>1, <1>0, <1>1
    <3> HIDE DEF p, j
    <3>2. XByte(B, j) = <<"z", B, sq, p>>
      BY ONLY <3>1, XByteIs, <1>0
    <3>3. StateByte(k, k.count + i - 1) = <<"z", B, sq, cnt + i - 1>>
      BY DEF StateByte, Ks
    <3> QED BY ONLY <3>2, <3>3 DEF p, j
  <2> HIDE DEF o, k
  <2> QED BY ONLY <2>1, <2>2
<1>4. XOut(B, d, l) \o o = XOut(B, d, l + m)
  <2> HIDE DEF o
  <2>1. XMore(XOut(B, d, l), o, B, d, l, m)
    BY ONLY <1>0, <1>1, <1>3 DEF XMore
  <2> QED BY ONLY <2>1, XOutMore
<1>5. [k EXCEPT !.count = (@ + m) % Rate] = Ks(B, v, c, sq)
  <2>1. k.count = cnt
    BY DEF Ks
  <2>2. [k EXCEPT !.count = (@ + m) % Rate] = [k EXCEPT !.count = c]
    BY ONLY <2>1
  <2> HIDE DEF c
  <2> DEFINE T == [done : {B}, cur : {v[1]}, count : {c}, suffix : {v[2]},
                   squeezed : {sq}, way : {v[3]}, out : {v[4]}]
  <2>3. [k EXCEPT !.count = c] \in T
    BY ONLY TRUE DEF Ks
  <2>4. \A y \in T : y = Ks(B, v, c, sq)
    BY ONLY TRUE DEF Ks
  <2> HIDE DEF T, k
  <2> QED BY ONLY <2>2, <2>3, <2>4
<1>6. s.k = k /\ s.n = n - l /\ s.out = XOut(B, d, l)
  BY DEF St
<1> HIDE DEF k, s
<1>7. Taken(s, m) = [k |-> [k EXCEPT !.count = (@ + m) % Rate], n |-> (n - l) - m,
                     out |-> XOut(B, d, l) \o o]
  BY ONLY <1>6 DEF Taken
<1>8. (n - l) - m = n - (l + m) /\ l + m \in 0..n
  BY <1>0, <1>1
<1> HIDE DEF o, c
<1>9. Taken(s, m) = St(Ks(B, v, c, sq), n - (l + m), XOut(B, d, l + m))
  BY ONLY <1>4, <1>5, <1>7, <1>8 DEF St
<1>10. Placed(c, sq, d + (l + m))
  <2>1. Rate * sq \in Nat
    BY <1>0, <1>1
  <2>2. c \in 0..(Rate - 1)
    BY <1>0, <1>1, <1>2
  <2>3. d + (l + m) + (IF c = 0 THEN 0 ELSE Rate - c) = Rate * sq
    BY <2>1, <1>0, <1>1, <1>2
  <2> QED BY <2>2, <2>3, <1>0, <1>1 DEF Placed
<1> QED BY ONLY <1>2, <1>8, <1>9, <1>10 DEF c, s, k

\* The extraction is under way: of n bytes behind the first d, l are out.
Flows(s, B, v, d, n, cnt, sq, l) ==
  /\ l \in 0..n /\ Placed(cnt, sq, d + l)
  /\ s = St(Ks(B, v, cnt, sq), n - l, XOut(B, d, l))

\* What a step of the extraction finds and leaves.
LEMMA FlowsIs ==
  ASSUME NEW s, NEW B, NEW v, NEW d \in Nat, NEW n \in Nat, NEW cnt, NEW sq, NEW l,
         Flows(s, B, v, d, n, cnt, sq, l)
  PROVE  /\ s.k.count = cnt /\ s.n = n - l /\ s.k.squeezed = sq /\ l \in Nat /\ n - l \in Nat
         /\ cnt \in 0..(Rate - 1) /\ cnt \in Nat /\ sq \in Nat /\ l \in 0..n
         /\ s = St(Ks(B, v, cnt, sq), n - l, XOut(B, d, l))
         /\ (cnt # 0 => d + l + Rate = Rate * sq + cnt)
         /\ (cnt = 0 => d + l = Rate * sq) /\ Rate * sq \in Nat /\ d + l \in Nat
<1>1. Rate \in Nat \ {0}
  BY Lengths
<1>2. /\ l \in 0..n /\ cnt \in 0..(Rate - 1) /\ sq \in Nat /\ d + l \in Nat
      /\ d + l + (IF cnt = 0 THEN 0 ELSE Rate - cnt) = Rate * sq
      /\ s = St(Ks(B, v, cnt, sq), n - l, XOut(B, d, l))
  BY DEF Flows, Placed
<1>3. l \in Nat /\ n - l \in Nat /\ cnt \in Nat /\ Rate * sq \in Nat
  BY <1>1, <1>2
<1>4. s.k.count = cnt /\ s.n = n - l /\ s.k.squeezed = sq
  BY ONLY <1>2 DEF St, Ks
<1>5. (cnt # 0 => d + l + Rate = Rate * sq + cnt) /\ (cnt = 0 => d + l = Rate * sq)
  BY <1>1, <1>2, <1>3
<1> QED BY ONLY <1>2, <1>3, <1>4, <1>5

\* Bytes taken within a block that has been begun.
LEMMA TakesOn ==
  ASSUME NEW s, NEW B, NEW v, NEW d \in Nat, NEW n \in Nat, NEW cnt, NEW sq, NEW l,
         Flows(s, B, v, d, n, cnt, sq, l), cnt # 0, NEW m \in 0..(n - l), cnt + m <= Rate
  PROVE  Flows(Taken(s, m), B, v, d, n, IF cnt + m = Rate THEN 0 ELSE cnt + m, sq, l + m)
<1>1. /\ l \in 0..n /\ cnt \in 0..(Rate - 1) /\ sq \in Nat /\ cnt \in Nat
      /\ s = St(Ks(B, v, cnt, sq), n - l, XOut(B, d, l))
      /\ d + l + Rate = Rate * sq + cnt /\ l \in Nat /\ n - l \in Nat
  BY FlowsIs
<1>2. cnt + m > 0
  BY <1>1
<1>3. /\ Taken(St(Ks(B, v, cnt, sq), n - l, XOut(B, d, l)), m)
              = St(Ks(B, v, (cnt + m) % Rate, sq), n - (l + m), XOut(B, d, l + m))
      /\ Placed((cnt + m) % Rate, sq, d + (l + m)) /\ l + m \in 0..n
      /\ (cnt + m) % Rate = IF cnt + m = Rate THEN 0 ELSE cnt + m
  <2>1. Begun(d, n, l, m, cnt, sq)
    BY ONLY <1>1, <1>2, d \in Nat, n \in Nat, m \in 0..(n - l), cnt + m <= Rate DEF Begun
  <2> QED BY ONLY <2>1, Takes
<1> QED BY ONLY <1>1, <1>3 DEF Flows
\* The lane where a place of the block is.
LEMMA LaneParts ==
  ASSUME NEW cnt \in 0..(Rate - 1)
  PROVE  \E b \in Nat : /\ b % Lane = 0 /\ b <= Rate - Lane /\ cnt = b + (cnt % Lane)
                        /\ cnt % Lane \in 0..(Lane - 1)
<1>1. cnt \in Nat /\ Lane \in Nat \ {0} /\ Rate \in Nat /\ Rate % Lane = 0
  BY Lengths
<1> DEFINE j == cnt % Lane
           q == cnt \div Lane
           b == Lane * q
<1>2. q \in Nat /\ j \in 0..(Lane - 1) /\ cnt = Lane * q + j
  BY ONLY <1>1, DivParts
<1> HIDE DEF j, q
<1>3. b \in Nat /\ cnt = b + j /\ b < Rate
  BY <1>1, <1>2
<1>4. b % Lane = 0
  BY ONLY <1>2, <1>3, LaneIs
<1> HIDE DEF b
<1>5. b <= Rate - Lane
  BY ONLY <1>1, <1>3, <1>4, LaneSum
<1> QED BY <1>2, <1>3, <1>4, <1>5 DEF j

\* Where a part of a lane is still to come after one turn, and after two.
FirstTurn(cnt, r) == r = 0 \/ cnt = 0 \/ cnt % Lane = 0
AtLane(cnt, r) == r = 0 \/ cnt = 0 \/ (cnt % Lane = 0 /\ r >= Lane)

\* One turn of the loop over parts of lanes.
LEMMA PartialTurn ==
  ASSUME NEW s, NEW B, NEW v, NEW d \in Nat, NEW n \in Nat, NEW cnt, NEW sq, NEW l,
         Flows(s, B, v, d, n, cnt, sq, l)
  PROVE  \E c, e : /\ Flows(PartialLane(s), B, v, d, n, c, sq, e) /\ FirstTurn(c, n - e)
                   /\ (FirstTurn(cnt, n - l) => AtLane(c, n - e))
<1>1. /\ s.k.count = cnt /\ s.n = n - l /\ l \in Nat /\ n - l \in Nat
      /\ cnt \in 0..(Rate - 1) /\ cnt \in Nat /\ sq \in Nat /\ l \in 0..n
  BY FlowsIs
<1>2. Lane \in Nat \ {0} /\ Rate \in Nat \ {0} /\ Rate > Lane
  BY Lengths
<1> DEFINE r == n - l
           j == cnt % Lane
           m == Lesser(Lane - j, r)
<1>3. CASE cnt > 0 /\ r > 0 /\ (r < Lane \/ j # 0)
  <2>1. PartialLane(s) = Taken(s, m)
    BY ONLY <1>1, <1>3 DEF PartialLane
  <2>2. PICK b \in Nat : b % Lane = 0 /\ b <= Rate - Lane /\ cnt = b + j /\ j \in 0..(Lane - 1)
    BY ONLY <1>1, LaneParts
  <2> HIDE DEF j
  <2>3. r \in Nat /\ Lane - j \in Nat
    BY <1>1, <1>2, <2>2
  <2> HIDE DEF r
  <2>4. m \in 0..r /\ m <= Lane - j /\ (m = r \/ m = Lane - j)
    BY <2>3 DEF Lesser
  <2> HIDE DEF m
  <2>5. cnt + m <= Rate /\ cnt # 0 /\ m \in Nat
    BY <2>2, <2>3, <2>4, <1>1, <1>2, <1>3
  <2> DEFINE c == IF cnt + m = Rate THEN 0 ELSE cnt + m
             e == l + m
  <2>6. Flows(Taken(s, m), B, v, d, n, c, sq, e)
    <3>1. m \in 0..(n - l)
      BY <2>4 DEF r
    <3> QED BY ONLY <3>1, <2>5, TakesOn, d \in Nat, n \in Nat, Flows(s, B, v, d, n, cnt, sq, l)
  <2>7. n - e = r - m
    BY <1>1, <2>4, <2>5 DEF r
  <2>8. CASE m = r
    <3>1. n - e = 0
      BY <2>7, <2>8, <2>3
    <3> HIDE DEF c, e
    <3> QED BY ONLY <3>1, <2>1, <2>6 DEF FirstTurn, AtLane
  <2>9. CASE m # r
    <3>1. cnt + m = b + Lane /\ m = Lane - j
      BY <2>2, <2>4, <2>9, <1>2
    <3>2. (cnt + m) % Lane = 0
      <4>1. Lane % Lane = 0 /\ Lane \in Nat
        BY <1>2
      <4>2. (b + Lane) % Lane = 0
        BY ONLY <4>1, <2>2, LaneSum
      <4> QED BY ONLY <4>2, <3>1
    <3>3. FirstTurn(c, n - e)
      BY ONLY <3>2 DEF FirstTurn
    <3>4. ~FirstTurn(cnt, n - l)
      <4>1. cnt # 0 /\ n - l # 0
        BY <1>1, <1>3 DEF r
      <4>2. j # 0
        <5>1. SUFFICES ASSUME j = 0 PROVE FALSE
          OBVIOUS
        <5>2. r < Lane
          BY <1>3, <5>1
        <5> QED BY <5>1, <5>2, <3>1, <2>3, <2>4, <1>2
      <4> QED BY ONLY <4>1, <4>2 DEF FirstTurn, j
    <3> HIDE DEF c, e
    <3> QED BY ONLY <3>3, <3>4, <2>1, <2>6
  <2> QED BY <2>8, <2>9
<1>4. CASE ~(cnt > 0 /\ r > 0 /\ (r < Lane \/ j # 0))
  <2>1. PartialLane(s) = s
    BY ONLY <1>1, <1>4 DEF PartialLane
  <2>2. AtLane(cnt, n - l) /\ FirstTurn(cnt, n - l)
    BY <1>1, <1>2, <1>4 DEF AtLane, FirstTurn
  <2> QED BY ONLY <2>1, <2>2, Flows(s, B, v, d, n, cnt, sq, l)
<1> QED BY <1>3, <1>4

\* After the lanes at the end of the block.
AtBlock(cnt, r) == r = 0 \/ cnt = 0 \/ (cnt % Lane = 0 /\ r < Lane)

\* The lanes up to the end of the block.
LEMMA TailTurn ==
  ASSUME NEW s, NEW B, NEW v, NEW d \in Nat, NEW n \in Nat, NEW cnt, NEW sq, NEW l,
         Flows(s, B, v, d, n, cnt, sq, l), AtLane(cnt, n - l)
  PROVE  \E c, e : Flows(TailLanes(s), B, v, d, n, c, sq, e) /\ AtBlock(c, n - e)
<1>1. /\ s.k.count = cnt /\ s.n = n - l /\ l \in Nat /\ n - l \in Nat
      /\ cnt \in 0..(Rate - 1) /\ cnt \in Nat /\ sq \in Nat /\ l \in 0..n
  BY FlowsIs
<1>2. Lane \in Nat \ {0} /\ Rate \in Nat \ {0} /\ Rate > Lane /\ Rate % Lane = 0
  BY Lengths
<1> DEFINE r == n - l
           a == r \div Lane
           t == Rate - cnt
           b == t \div Lane
           m == Lane * Lesser(a, b)
<1>3. CASE r >= Lane /\ cnt > 0
  <2>1. TailLanes(s) = Taken(s, m)
    BY ONLY <1>1, <1>3 DEF TailLanes
  <2>2. cnt % Lane = 0
    BY <1>1, <1>2, <1>3 DEF AtLane
  <2>3. r \in Nat /\ t \in Nat /\ t + cnt = Rate
    BY <1>1, <1>2
  <2> HIDE DEF r, t
  <2>4. a \in Nat /\ r % Lane \in 0..(Lane - 1) /\ r = Lane * a + (r % Lane)
    BY ONLY <2>3, <1>2, DivParts
  <2>5. t % Lane = 0
    BY ONLY <2>2, <2>3, <1>1, <1>2, LaneSum
  <2>6. b \in Nat /\ t = Lane * b
    <3>1. b \in Nat /\ t = Lane * b + (t % Lane)
      BY ONLY <2>3, <1>2, DivParts
    <3> QED BY <3>1, <2>5, <1>2
  <2> HIDE DEF a, b
  <2>7. CASE b <= a
    <3>1. m = t
      BY <2>4, <2>6, <2>7, <1>2 DEF Lesser
    <3>2. Lane * b <= Lane * a /\ Lane * a \in Nat
      BY <2>4, <2>6, <2>7, <1>2
    <3>3. t \in 0..r
      BY <3>2, <2>3, <2>4, <2>6, <1>2
    <3>4. m \in 0..(n - l) /\ cnt + m = Rate /\ cnt # 0 /\ cnt + m <= Rate
      <4>1. m \in 0..(n - l)
        BY ONLY <3>1, <3>3 DEF r
      <4>2. cnt + t = Rate
        BY ONLY <2>3, <1>1, <1>2
      <4> HIDE DEF m
      <4> QED BY ONLY <4>1, <4>2, <3>1, <1>1, <1>2, <1>3
    <3> HIDE DEF m
    <3>5. Flows(Taken(s, m), B, v, d, n, IF cnt + m = Rate THEN 0 ELSE cnt + m, sq, l + m)
      BY ONLY <3>4, TakesOn, d \in Nat, n \in Nat, Flows(s, B, v, d, n, cnt, sq, l)
    <3>6. Flows(Taken(s, m), B, v, d, n, 0, sq, l + m)
      BY ONLY <3>4, <3>5
    <3>7. AtBlock(0, n - (l + m))
      BY DEF AtBlock
    <3> QED BY ONLY <3>6, <3>7, <2>1
  <2>8. CASE ~(b <= a)
    <3>1. m = Lane * a
      BY <2>4, <2>6, <2>8 DEF Lesser
    <3>2. Lane * a <= Lane * b /\ Lane * a \in Nat
      BY <2>4, <2>6, <2>8, <1>2
    <3> HIDE DEF m
    <3>3. m \in Nat /\ m <= t /\ m <= r /\ r - m = r % Lane
      <4> DEFINE j == r % Lane
      <4>1. j \in Nat /\ m \in Nat /\ r = m + j /\ m <= t
        <5>1. j \in 0..(Lane - 1)
          BY ONLY <2>4
        <5> HIDE DEF j
        <5>2. r = Lane * a + j
          BY ONLY <2>4 DEF j
        <5> QED BY ONLY <5>1, <5>2, <3>1, <3>2, <2>6, <1>2
      <4> HIDE DEF j
      <4>2. m <= r /\ r - m = j
        BY ONLY <4>1
      <4> QED BY ONLY <4>1, <4>2 DEF j
    <3>4. m \in 0..(n - l) /\ cnt # 0 /\ cnt + m <= Rate
      <4>1. m \in 0..(n - l)
        BY <3>3, <2>3 DEF r
      <4>2. cnt + m <= Rate
        BY ONLY <3>3, <2>3, <1>1, <1>2
      <4> QED BY <4>1, <4>2, <1>1, <1>3
    <3> DEFINE c == IF cnt + m = Rate THEN 0 ELSE cnt + m
    <3>5. Flows(Taken(s, m), B, v, d, n, c, sq, l + m)
      BY ONLY <3>4, TakesOn, d \in Nat, n \in Nat, Flows(s, B, v, d, n, cnt, sq, l)
    <3>6. n - (l + m) < Lane
      <4>1. n - (l + m) = r - m
        BY <3>3, <1>1 DEF r
      <4> QED BY ONLY <4>1, <3>3, <2>4, <1>2
    <3>7. (cnt + m) % Lane = 0
      <4>1. m % Lane = 0
        BY ONLY <3>1, <3>3, <2>4, LaneIs
      <4> QED BY ONLY <4>1, <3>3, <2>2, <1>1, LaneSum
    <3>8. AtBlock(c, n - (l + m))
      BY ONLY <3>6, <3>7 DEF AtBlock
    <3> HIDE DEF c
    <3> QED BY ONLY <3>5, <3>8, <2>1
  <2> QED BY <2>7, <2>8
<1>4. CASE ~(r >= Lane /\ cnt > 0)
  <2>1. TailLanes(s) = s
    BY ONLY <1>1, <1>4 DEF TailLanes
  <2>2. AtBlock(cnt, n - l)
    BY <1>1, <1>2, <1>4 DEF AtLane, AtBlock
  <2> QED BY ONLY <2>1, <2>2, Flows(s, B, v, d, n, cnt, sq, l)
<1> QED BY <1>3, <1>4

\* Where the last part of the output comes from: the next block or the lane where
\* the tail ended.
AtHead(cnt, r) == r = 0 \/ (cnt = 0 /\ r < Rate) \/ (cnt % Lane = 0 /\ r < Lane)

\* Whole blocks.
LEMMA BlockTurn ==
  ASSUME NEW s, NEW B, NEW v, NEW d \in Nat, NEW n \in Nat, NEW cnt, NEW sq, NEW l,
         Flows(s, B, v, d, n, cnt, sq, l), AtBlock(cnt, n - l)
  PROVE  \E z, e : Flows(WholeBlocks(s), B, v, d, n, cnt, z, e) /\ AtHead(cnt, n - e)
<1>1. /\ s.k.count = cnt /\ s.n = n - l /\ l \in Nat /\ n - l \in Nat
      /\ cnt \in 0..(Rate - 1) /\ cnt \in Nat /\ sq \in Nat /\ l \in 0..n
      /\ s = St(Ks(B, v, cnt, sq), n - l, XOut(B, d, l))
      /\ (cnt = 0 => d + l = Rate * sq) /\ Rate * sq \in Nat /\ d + l \in Nat
  BY FlowsIs
<1>0. Lane \in Nat \ {0} /\ Rate \in Nat \ {0} /\ Rate > Lane
  BY Lengths
<1> DEFINE r == n - l
           q == r \div Rate
           j == r % Rate
           m == q * Rate
           k == Ks(B, v, cnt, sq)
           after(x) == [k EXCEPT !.squeezed = @ + x]
           o == [i \in 1..m |-> StateByte(after(((i - 1) \div Rate) + 1), (i - 1) % Rate)]
<1>2. q \in Nat /\ j \in 0..(Rate - 1) /\ r = Rate * q + j
  BY ONLY <1>0, <1>1, DivParts
<1>3. WholeBlocks(s) = St(after(q), r - m, XOut(B, d, l) \o o)
  <2>1. s.k = k /\ s.n = r /\ s.out = XOut(B, d, l)
    BY ONLY <1>1 DEF St
  <2> HIDE DEF k, r
  <2> QED BY ONLY <2>1 DEF WholeBlocks, St
<1>4. \A x : after(x) = Ks(B, v, cnt, sq + x)
  <2>1. TAKE x
  <2> DEFINE y == sq + x
             T == [done : {B}, cur : {v[1]}, count : {cnt}, suffix : {v[2]},
                   squeezed : {y}, way : {v[3]}, out : {v[4]}]
  <2>2. k.squeezed = sq
    BY DEF Ks
  <2>3. after(x) = [k EXCEPT !.squeezed = y]
    BY ONLY <2>2
  <2> HIDE DEF y
  <2>4. [k EXCEPT !.squeezed = y] \in T
    BY ONLY TRUE DEF Ks
  <2>5. \A w \in T : w = Ks(B, v, cnt, y)
    BY ONLY TRUE DEF Ks
  <2> HIDE DEF T, k
  <2> QED BY ONLY <2>3, <2>4, <2>5 DEF y
<1> HIDE DEF r, q, j
<1>5. m \in Nat /\ m = Rate * q /\ m \in 0..r /\ r - m = j /\ (q # 0 => r >= Rate)
  <2>1. m = Rate * q /\ Rate * q \in Nat
    BY ONLY <1>0, <1>2
  <2>2. q # 0 => Rate * q >= Rate
    BY ONLY <1>0, <1>2
  <2> QED BY ONLY <2>1, <2>2, <1>2, <1>0
<1>6. q # 0 => cnt = 0 /\ d + l = Rate * sq
  <2>1. q # 0 => n - l >= Rate
    BY ONLY <1>5 DEF r
  <2> QED BY <2>1, <1>0, <1>1 DEF AtBlock
<1>7. IsSeq(o) /\ Len(o) = m /\ \A i \in 1..m : o[i] = XByte(B, d + l + i)
  <2>0. m \in Nat
    BY ONLY <1>5
  <2>1. /\ IsSeq(o) /\ Len(o) = m
        /\ \A i \in 1..m : o[i] = StateByte(after(((i - 1) \div Rate) + 1), (i - 1) % Rate)
    <3> HIDE DEF m, after
    <3> QED BY ONLY <2>0, SeqFcn
  <2>2. ASSUME NEW i \in 1..m
        PROVE  StateByte(after(((i - 1) \div Rate) + 1), (i - 1) % Rate) = XByte(B, d + l + i)
    <3> DEFINE a == (i - 1) \div Rate
               p == (i - 1) % Rate
               z == sq + (a + 1)
               w == d + l + i
    <3>1. i - 1 \in Nat /\ q # 0 /\ i \in Nat \ {0}
      BY ONLY <1>5, <1>0, <1>2, i \in 1..m
    <3>2. a \in Nat /\ p \in 0..(Rate - 1) /\ i - 1 = Rate * a + p
      <4> DEFINE y == i - 1
      <4>1. y \in Nat
        BY ONLY <3>1
      <4> HIDE DEF y
      <4>2. y \div Rate \in Nat /\ y % Rate \in 0..(Rate - 1) /\ y = Rate * (y \div Rate) + (y % Rate)
        BY ONLY <4>1, <1>0, DivParts
      <4> QED BY ONLY <4>2 DEF y
    <3>3. StateByte(after(a + 1), p) = <<"z", B, z, p>>
      <4> HIDE DEF a, p
      <4>1. after(a + 1) = Ks(B, v, cnt, sq + (a + 1))
        BY ONLY <1>4
      <4> HIDE DEF after
      <4> QED BY ONLY <4>1 DEF StateByte, Ks
    <3> HIDE DEF a, p
    <3>4. z \in Nat /\ w \in Nat \ {0} /\ (w - 1) + Rate = Rate * z + p
      <4>1. Rate * z = Rate * sq + Rate * a + Rate /\ Rate * a \in Nat
        BY ONLY <1>0, <1>1, <3>2
      <4>2. w = Rate * sq + i
        BY ONLY <3>1, <1>6
      <4> QED BY <4>1, <4>2, <1>0, <1>1, <3>1, <3>2
    <3> HIDE DEF z, w
    <3>5. XByte(B, w) = <<"z", B, z, p>>
      BY ONLY <3>4, <3>2, XByteIs
    <3> HIDE DEF after
    <3> QED BY ONLY <3>3, <3>5 DEF a, p, w
  <2> HIDE DEF o, after
  <2> QED BY ONLY <2>1, <2>2
<1>8. XOut(B, d, l) \o o = XOut(B, d, l + m)
  <2> HIDE DEF o, m
  <2>1. XMore(XOut(B, d, l), o, B, d, l, m)
    BY ONLY d \in Nat, <1>1, <1>5, <1>7 DEF XMore
  <2> QED BY ONLY <2>1, XOutMore
<1> DEFINE z == sq + q
           e == l + m
<1>9. WholeBlocks(s) = St(Ks(B, v, cnt, z), n - e, XOut(B, d, e))
  <2>1. r - m = n - e
    BY ONLY <1>1, <1>5, n \in Nat DEF r
  <2>2. after(q) = Ks(B, v, cnt, z)
    BY ONLY <1>4
  <2> HIDE DEF after, z, m, o
  <2> QED BY ONLY <1>3, <2>1, <2>2, <1>8
<1>10. e \in 0..n /\ n - e = j
  <2>1. m \in 0..(n - l)
    BY ONLY <1>5 DEF r
  <2>2. (n - l) - m = j
    BY ONLY <1>5 DEF r
  <2> HIDE DEF m
  <2> QED BY ONLY <2>1, <2>2, <1>1, <1>2, n \in Nat
<1>11. Placed(cnt, z, d + e)
  <2>1. Placed(cnt, sq, d + l)
    BY DEF Flows
  <2>2. z \in Nat /\ d + e \in Nat
    BY ONLY <1>10, <1>1, <1>2, <1>5, d \in Nat
  <2>3. Rate * z = Rate * sq + m
    BY ONLY <1>0, <1>1, <1>2, <1>5
  <2>4. d + e = (d + l) + m
    BY ONLY <1>1, <1>5, d \in Nat
  <2>5. cnt \in 0..(Rate - 1) /\ (d + l) + (IF cnt = 0 THEN 0 ELSE Rate - cnt) = Rate * sq
    BY ONLY <2>1 DEF Placed
  <2> HIDE DEF z, e, m
  <2>6. (d + e) + (IF cnt = 0 THEN 0 ELSE Rate - cnt) = Rate * z
    BY ONLY <2>3, <2>4, <2>5, <1>0, <1>1, <1>5
  <2> QED BY ONLY <2>2, <2>5, <2>6 DEF Placed
<1>12. AtHead(cnt, n - e)
  <2>1. n - e = 0 \/ cnt = 0 \/ (cnt % Lane = 0 /\ n - e < Lane)
    <3>1. n - e <= n - l
      BY ONLY <1>1, <1>5, <1>10, n \in Nat
    <3>2. CASE n - l = 0
      <4>1. n - e = 0
        BY <3>1, <3>2, <1>10, n \in Nat
      <4> QED BY ONLY <4>1
    <3>3. CASE n - l # 0
      <4>1. cnt = 0 \/ (cnt % Lane = 0 /\ n - l < Lane)
        BY <3>3 DEF AtBlock
      <4> HIDE DEF e
      <4>2. n - l < Lane => n - e < Lane
        BY ONLY <3>1, <1>0, <1>1, <1>10, n \in Nat
      <4> QED BY ONLY <4>1, <4>2
    <3> QED BY <3>2, <3>3
  <2>2. n - e < Rate
    BY ONLY <1>10, <1>2, <1>0
  <2> HIDE DEF e
  <2> QED BY ONLY <2>1, <2>2 DEF AtHead
<1>13. Flows(WholeBlocks(s), B, v, d, n, cnt, z, e)
  <2> HIDE DEF z, e
  <2> QED BY ONLY <1>9, <1>10, <1>11 DEF Flows
<1> HIDE DEF z, e
<1> QED BY ONLY <1>12, <1>13

\* The head of a block, or of a lane.
LEMMA HeadTurn ==
  ASSUME NEW s, NEW B, NEW v, NEW d \in Nat, NEW n \in Nat, NEW cnt, NEW sq, NEW l,
         Flows(s, B, v, d, n, cnt, sq, l), AtHead(cnt, n - l)
  PROVE  \E c, z : Flows(BlockHead(s), B, v, d, n, c, z, n)
<1>1. /\ s.k.count = cnt /\ s.n = n - l /\ l \in Nat /\ n - l \in Nat
      /\ cnt \in 0..(Rate - 1) /\ cnt \in Nat /\ sq \in Nat /\ l \in 0..n
      /\ s = St(Ks(B, v, cnt, sq), n - l, XOut(B, d, l))
      /\ (cnt = 0 => d + l = Rate * sq) /\ Rate * sq \in Nat /\ d + l \in Nat
  BY FlowsIs
<1>0. Lane \in Nat \ {0} /\ Rate \in Nat \ {0} /\ Rate > Lane /\ Rate % Lane = 0
  BY Lengths
<1> DEFINE r == n - l
           k == Ks(B, v, cnt, sq)
<1>2. CASE r = 0
  <2>1. BlockHead(s) = s
    BY ONLY <1>1, <1>2 DEF BlockHead
  <2>2. l = n
    BY <1>1, <1>2
  <2> QED BY ONLY <2>1, <2>2, Flows(s, B, v, d, n, cnt, sq, l)
<1>3. CASE r # 0 /\ cnt # 0
  <2>1. BlockHead(s) = Taken(s, r)
    <3>1. BlockHead(s) = Taken([s EXCEPT !.k.squeezed = @], r)
      BY ONLY <1>1, <1>3 DEF BlockHead
    <3>2. [s EXCEPT !.k.squeezed = @] = s
      BY ONLY <1>1 DEF St, Ks
    <3> QED BY ONLY <3>1, <3>2
  <2>2. cnt % Lane = 0 /\ r < Lane
    BY <1>3 DEF AtHead
  <2>3. cnt <= Rate - Lane
    <3>1. cnt < Rate
      BY <1>0, <1>1
    <3> QED BY ONLY <3>1, <2>2, <1>0, <1>1, LaneSum
  <2>4. r \in 0..(n - l) /\ cnt + r <= Rate /\ l + r = n
    BY <2>2, <2>3, <1>0, <1>1
  <2> HIDE DEF r
  <2>5. Flows(Taken(s, r), B, v, d, n, IF cnt + r = Rate THEN 0 ELSE cnt + r, sq, l + r)
    BY ONLY <2>4, <1>3, TakesOn, d \in Nat, n \in Nat, Flows(s, B, v, d, n, cnt, sq, l)
  <2> QED BY ONLY <2>1, <2>4, <2>5
<1>4. CASE r # 0 /\ cnt = 0
  <2> DEFINE z == sq + 1
             w == [s EXCEPT !.k.squeezed = @ + 1]
  <2>1. BlockHead(s) = Taken(w, r)
    BY ONLY <1>1, <1>4 DEF BlockHead
  <2>2. w = St(Ks(B, v, 0, z), n - l, XOut(B, d, l))
    <3> DEFINE a == n - l
               b == XOut(B, d, l)
    <3>1. s = St(Ks(B, v, 0, sq), a, b)
      BY ONLY <1>1, <1>4
    <3> HIDE DEF a, b
    <3>2. w = [s EXCEPT !.k = [s.k EXCEPT !.squeezed = s.k.squeezed + 1]]
      BY ONLY <3>1 DEF St, Ks
    <3> DEFINE T == [done : {B}, cur : {v[1]}, count : {0}, suffix : {v[2]},
                     squeezed : {z}, way : {v[3]}, out : {v[4]}]
               y == [Ks(B, v, 0, sq) EXCEPT !.squeezed = @ + 1]
    <3>3. y \in T
      BY ONLY TRUE DEF Ks
    <3>4. \A u \in T : u = Ks(B, v, 0, z)
      BY ONLY TRUE DEF Ks
    <3>5. y = Ks(B, v, 0, z)
      <4> HIDE DEF T, y
      <4> QED BY ONLY <3>3, <3>4
    <3>6. s.k = Ks(B, v, 0, sq) /\ s.n = a /\ s.out = b
      BY ONLY <3>1 DEF St
    <3>7. [s EXCEPT !.k = [s.k EXCEPT !.squeezed = s.k.squeezed + 1]] = St(y, a, b)
      <4>1. [s EXCEPT !.k = [s.k EXCEPT !.squeezed = s.k.squeezed + 1]] = [s EXCEPT !.k = y]
        <5>1. [s.k EXCEPT !.squeezed = s.k.squeezed + 1] = y
          BY ONLY <3>6
        <5> QED BY ONLY <5>1
      <4> HIDE DEF y
      <4>2. [s EXCEPT !.k = y] = St(y, a, b)
        BY ONLY <3>1 DEF St
      <4> QED BY ONLY <4>1, <4>2
    <3> HIDE DEF y, w, z, T
    <3> QED BY ONLY <3>2, <3>5, <3>7 DEF a, b
  <2>3. r < Rate /\ r > 0 /\ r \in Nat
    BY <1>0, <1>1, <1>4 DEF AtHead
  <2>4. Begun(d, n, l, r, 0, z)
    <3>1. Rate * z = Rate * sq + Rate
      BY ONLY <1>0, <1>1
    <3>2. z \in Nat
      BY <1>1
    <3>3. d + l + Rate = Rate * z + 0 /\ 0 + r <= Rate /\ 0 + r > 0 /\ r \in 0..(n - l)
          /\ 0 \in 0..(Rate - 1)
      <4> HIDE DEF z
      <4>1. d + l = Rate * sq
        BY ONLY <1>1, <1>4
      <4> QED BY <4>1, <3>1, <3>2, <2>3, <1>0, <1>1
    <3> HIDE DEF z, r
    <3> QED BY ONLY <3>2, <3>3, <1>1, d \in Nat, n \in Nat DEF Begun
  <2>5. l + r = n /\ n - (l + r) = n - n
    BY <1>1
  <2> HIDE DEF r, z, w
  <2> DEFINE c == (0 + r) % Rate
  <2>6. /\ Taken(St(Ks(B, v, 0, z), n - l, XOut(B, d, l)), r)
              = St(Ks(B, v, c, z), n - (l + r), XOut(B, d, l + r))
        /\ Placed(c, z, d + (l + r)) /\ l + r \in 0..n
    BY ONLY <2>4, Takes
  <2> HIDE DEF c
  <2>7. Flows(BlockHead(s), B, v, d, n, c, z, n)
    BY ONLY <2>1, <2>2, <2>5, <2>6 DEF Flows
  <2> QED BY ONLY <2>7
<1> QED BY <1>2, <1>3, <1>4

\* do_keccak_extract: the next n bytes of the output, whatever has been taken
\* before.
LEMMA Extracts ==
  ASSUME NEW B, NEW v, NEW d \in Nat, NEW n \in Nat, NEW cnt, NEW sq, Placed(cnt, sq, d)
  PROVE  \E c, z : /\ KeccakExtract(Ks(B, v, cnt, sq), n)
                        = [k |-> Ks(B, v, c, z), out |-> XOut(B, d, n)]
                   /\ Placed(c, z, d + n)
<1> DEFINE k == Ks(B, v, cnt, sq)
           s0 == [k |-> k, n |-> n, out |-> <<>>]
<1>1. Flows(s0, B, v, d, n, cnt, sq, 0)
  <2>1. XOut(B, d, 0) = <<>> /\ n - 0 = n /\ d + 0 = d /\ 0 \in 0..n
    <3>1. IsSeq(XOut(B, d, 0)) /\ Len(XOut(B, d, 0)) = 0
      BY SeqFcn DEF XOut
    <3> QED BY <3>1, EmptyIs
  <2> QED BY ONLY <2>1, Placed(cnt, sq, d) DEF Flows, St
<1> HIDE DEF s0
<1>2. PICK c1, e1 : /\ Flows(PartialLane(s0), B, v, d, n, c1, sq, e1) /\ FirstTurn(c1, n - e1)
  BY ONLY <1>1, PartialTurn, d \in Nat, n \in Nat
<1> DEFINE s1 == PartialLane(s0)
           s2 == PartialLane(s1)
           s3 == TailLanes(s2)
           s4 == WholeBlocks(s3)
           s5 == BlockHead(s4)
<1> HIDE DEF s1
<1>3. PICK c2, e2 : /\ Flows(s2, B, v, d, n, c2, sq, e2) /\ AtLane(c2, n - e2)
  <2>1. Flows(s1, B, v, d, n, c1, sq, e1)
    BY ONLY <1>2 DEF s1
  <2> QED BY ONLY <2>1, <1>2, PartialTurn, d \in Nat, n \in Nat
<1> HIDE DEF s2
<1>4. PICK c3, e3 : Flows(s3, B, v, d, n, c3, sq, e3) /\ AtBlock(c3, n - e3)
  BY ONLY <1>3, TailTurn, d \in Nat, n \in Nat
<1> HIDE DEF s3
<1>5. PICK z4, e4 : Flows(s4, B, v, d, n, c3, z4, e4) /\ AtHead(c3, n - e4)
  BY ONLY <1>4, BlockTurn, d \in Nat, n \in Nat
<1> HIDE DEF s4
<1>6. PICK c, z : Flows(s5, B, v, d, n, c, z, n)
  BY ONLY <1>5, HeadTurn, d \in Nat, n \in Nat
<1>7. KeccakExtract(k, n) = [k |-> s5.k, out |-> s5.out]
  <2> HIDE DEF k
  <2> QED BY ONLY TRUE DEF KeccakExtract, s0, s1, s2, s3, s4
<1> HIDE DEF s5
<1>8. s5.k = Ks(B, v, c, z) /\ s5.out = XOut(B, d, n) /\ Placed(c, z, d + n)
  BY ONLY <1>6 DEF Flows, St
<1> QED BY ONLY <1>7, <1>8
-----------------------------------------------------------------------------
(* What a handle is to hold *)

Kinds == {"sha", "blake", "shake"}
SuffixOf(cu) == IF cu = <<0, 0>> THEN <<"1f">> ELSE <<"04">>

\* The customizations: none, or one with a name from Customs.
CustomOk(cu) == cu = <<0, 0>> \/ cu \in {<<1, s>> : s \in Customs}

\* Context c of the algorithm, keyed and customized, has taken in s.
CtxHolds(algo, key, cu, c, s) ==
  CASE algo = "sha" -> c = ShaOf(s)
    [] algo = "blake" -> BlakeHolds(c, key, KeyBlock(key) \o s)
    [] algo = "shake" -> c = KeccakOf(CshakeInput(cu[1], cu[2], <<>>) \o s, SuffixOf(cu))

\* The input s of context c has ended, and n bytes have been extracted from it.
ShakeEnded(B, c, n) ==
  /\ c = Ks(B, <<c.cur, c.suffix, c.way, c.out>>, c.count, c.squeezed)
  /\ c.way \in {"none", "read", "extract"}
  /\ c.way # "read" => c.out = None /\ Placed(c.count, c.squeezed, n)
  /\ c.way = "none" => n = 0
  /\ c.way = "read" => c.out = <<"shake", XOut(B, 0, OutLen)>>
CtxEnded(algo, key, cu, c, s, n) ==
  CASE algo = "sha" -> c.out = ShaDigest(s)
    [] algo = "blake" -> c.out = BlakeDigest(key, s)
    [] algo = "shake" ->
         ShakeEnded(KeccakBlocks(CshakeInput(cu[1], cu[2], <<>>) \o s, SuffixOf(cu)), c, n)

\* What is defined for an entry without key and customization.
Plain(algo, s) ==
  CASE algo = "sha" -> ShaDigest(s)
    [] algo = "blake" -> BlakeDigest(None, s)
    [] algo = "shake" -> <<"shake", ShakeDigest(s, <<"1f">>)>>

\* The fields of an entry.
IsEntry(e) ==
  e \in [algo : Kinds, ctx : {e.ctx}, inner : {e.inner}, outer : {e.outer},
         from : {e.from}, junk : BOOLEAN, key : {e.key}, custom : {e.custom},
         taken : {e.taken}]

\* The input of the context of an entry so far and at its end.
Lead(hmac, key) == IF hmac THEN Pad("36", key) ELSE <<>>
FedTo(hmac, key, s) == Lead(hmac, key) \o s
EndOf(algo, hmac, key, s) ==
  IF hmac THEN Pad("5c", key) \o <<Plain(algo, Pad("36", key) \o s)>> ELSE s

\* The two contexts an HMAC entry keeps for resets and for the end.
PadsRight(e, key) ==
  /\ CtxHolds(e.algo, None, <<0, 0>>, e.inner, Pad("36", key))
  /\ CtxHolds(e.algo, None, <<0, 0>>, e.outer, Pad("5c", key))

\* An entry whose result has a meaning.
EntryRight(e, hmac, key, fin, spoiled, g) ==
  /\ e.from \in 0..Len(g) /\ CustomOk(e.custom)
  /\ hmac => e.key = None /\ e.custom = <<0, 0>> /\ PadsRight(e, key)
  /\ ~fin => /\ e.taken = 0
             /\ CtxHolds(e.algo, e.key, e.custom, e.ctx, FedTo(hmac, key, Behind(g, e.from)))
  /\ fin /\ ~spoiled => /\ e.taken \in Nat
                        /\ CtxEnded(e.algo, e.key, e.custom, e.ctx,
                              EndOf(e.algo, hmac, key, Behind(g, e.from)), e.taken)

\* The entries of a handle with this key and these flags have taken in g.
Entries(l, hmac, key, fin, spoiled, g) ==
  \A i \in 1..Len(l) :
     IsEntry(l[i]) /\ (~l[i].junk => EntryRight(l[i], hmac, key, fin, spoiled, g))

\* A handle by its fields.
Hd(hmac, list, buf, fin, wrote, key, spoiled) ==
  [hmac |-> hmac, list |-> list, buf |-> buf, fin |-> fin, wrote |-> wrote,
   key |-> key, spoiled |-> spoiled]

\* The entries have taken in g, and the rest of what was written waits in the buffer.
Fields(hmac, list, buf, fin, wrote, key, spoiled, g) ==
  /\ {hmac, fin, spoiled} \subseteq BOOLEAN /\ IsSeq(list) /\ IsSeq(buf) /\ IsSeq(g)
  /\ wrote = g \o buf /\ (spoiled => fin) /\ (fin /\ ~spoiled => buf = <<>>)
  /\ Entries(list, hmac, key, fin, spoiled, g)

\* The handle is in order.
HandleRight(h) ==
  /\ h = Hd(h.hmac, h.list, h.buf, h.fin, h.wrote, h.key, h.spoiled)
  /\ \E g : Fields(h.hmac, h.list, h.buf, h.fin, h.wrote, h.key, h.spoiled, g)

\* A pad is one block.
LEMMA PadSeq ==
  ASSUME NEW name, NEW key
  PROVE  IsSeq(Pad(name, key)) /\ Len(Pad(name, key)) = BlockLen
BY Lengths, SeqFcn DEF Pad

\* The head of cSHAKE's prefix is a sequence.
LEMMA HeadSeq ==
  ASSUME NEW n \in Nat, NEW s \in Nat
  PROVE  IsSeq(CshakeHead(n, s))
<1> DEFINE a == <<<<"rate", 1>>, <<"rate", 2>>, <<"n", n, 1>>, <<"n", n, 2>>>>
           b == [i \in 1..n |-> <<"N", i>>]
           c == <<<<"s", s, 1>>, <<"s", s, 2>>>>
           d == [i \in 1..s |-> <<"S", i>>]
<1>1. IsSeq(a)
  <2>1. a \in Seq({<<"rate", 1>>, <<"rate", 2>>, <<"n", n, 1>>, <<"n", n, 2>>})
    OBVIOUS
  <2> HIDE DEF a
  <2> QED BY ONLY <2>1, SeqIs
<1>2. IsSeq(b) /\ IsSeq(d)
  BY SeqFcn
<1>3. IsSeq(c)
  <2>1. c \in Seq({<<"s", s, 1>>, <<"s", s, 2>>})
    OBVIOUS
  <2> HIDE DEF c
  <2> QED BY ONLY <2>1, SeqIs
<1>4. CshakeHead(n, s) = ((a \o b) \o c) \o d
  BY DEF CshakeHead
<1> HIDE DEF a, b, c, d
<1>5. IsSeq(a \o b)
  BY ONLY <1>1, <1>2, ConcatIs
<1>6. IsSeq((a \o b) \o c)
  BY ONLY <1>3, <1>5, ConcatIs
<1>7. IsSeq(((a \o b) \o c) \o d)
  BY ONLY <1>2, <1>6, ConcatIs
<1> QED BY ONLY <1>4, <1>7

\* The prefix of a customized context is in front of the data.
LEMMA PrefixIs ==
  ASSUME NEW cu, CustomOk(cu)
  PROVE  /\ IsSeq(CshakeInput(cu[1], cu[2], <<>>))
         /\ cu = <<0, 0>> => CshakeInput(cu[1], cu[2], <<>>) = <<>>
         /\ \A s : IsSeq(s) => CshakeInput(cu[1], cu[2], s) = CshakeInput(cu[1], cu[2], <<>>) \o s
<1>1. CASE cu = <<0, 0>>
  <2>1. cu[1] = 0 /\ cu[2] = 0
    BY <1>1
  <2>2. \A s : CshakeInput(cu[1], cu[2], s) = s
    BY ONLY <2>1 DEF CshakeInput
  <2> QED BY ONLY <2>2, EmptyIs, ConcatEmpty
<1>2. CASE cu # <<0, 0>>
  <2>1. PICK n \in Customs : cu = <<1, n>>
    BY <1>2 DEF CustomOk
  <2>2. n \in Nat /\ cu[1] = 1 /\ cu[2] = n
    BY <2>1, HandleAssumption
  <2> DEFINE head == CshakeHead(1, n)
             z == (Rate - (Len(head) % Rate)) % Rate
             p == head \o Zeros(z)
  <2>3. IsSeq(head)
    BY ONLY <2>2, HeadSeq, 1 \in Nat
  <2>4. z \in Nat
    <3>1. Len(head) \in Nat /\ Rate \in Nat \ {0}
      BY ONLY <2>3, IsSeqLen, Lengths
    <3> HIDE DEF head
    <3>2. Len(head) % Rate \in 0..(Rate - 1)
      BY ONLY <3>1, DivParts
    <3>3. Rate - (Len(head) % Rate) \in Nat
      BY ONLY <3>1, <3>2
    <3> DEFINE y == Rate - (Len(head) % Rate)
    <3> HIDE DEF y
    <3>4. y % Rate \in 0..(Rate - 1)
      BY ONLY <3>1, <3>3, DivParts DEF y
    <3> QED BY ONLY <3>1, <3>4 DEF y
  <2>5. \A s : CshakeInput(cu[1], cu[2], s) = p \o s
    <3> HIDE DEF head
    <3>1. \A s : CshakeInput(1, n, s) = p \o s
      BY ONLY TRUE DEF CshakeInput, head
    <3> QED BY ONLY <2>2, <3>1
  <2> HIDE DEF head, z
  <2>6. IsSeq(p)
    <3>1. IsSeq(Zeros(z))
      BY ONLY <2>4, ZerosIs
    <3> QED BY ONLY <2>3, <3>1, ConcatIs
  <2> HIDE DEF p
  <2>7. CshakeInput(cu[1], cu[2], <<>>) = p
    BY ONLY <2>5, <2>6, ConcatEmpty
  <2> QED BY ONLY <1>2, <2>5, <2>6, <2>7
<1> QED BY <1>1, <1>2

\* The first customization with a name from Customs: what the code pads with is
\* what the definition does, as long as the head does not end with a block
\* (keccak.c pads with a whole block of zeros then).
PrefixesPartial == \A s \in Customs : Len(CshakeHead(1, s)) % Rate # 0

\* _gcry_cshake_customize
LEMMA Customizes ==
  ASSUME PrefixesPartial, NEW s \in Customs
  PROVE  CshakeCustomize(KeccakOf(<<>>, <<"1f">>), 1, s)
           = KeccakOf(CshakeInput(1, s, <<>>), <<"04">>)
<1> DEFINE head == CshakeHead(1, s)
           r == Len(head) % Rate
           pad == Rate - r
           k == KeccakOf(<<>>, <<"1f">>)
           p == head \o Zeros(pad)
<1>1. s \in Nat
  BY HandleAssumption
<1>2. IsSeq(head)
  BY ONLY <1>1, HeadSeq, 1 \in Nat
<1>3. pad \in Nat /\ pad % Rate = pad
  <2>1. Len(head) \in Nat /\ Rate \in Nat \ {0}
    BY ONLY <1>2, IsSeqLen, Lengths
  <2>2. r # 0
    BY DEF PrefixesPartial
  <2> HIDE DEF head
  <2>3. r \in 0..(Rate - 1)
    BY ONLY <2>1, DivParts
  <2> HIDE DEF r
  <2>4. pad \in Nat /\ pad \in 0..(Rate - 1) /\ pad = Rate * 0 + pad
    BY ONLY <2>1, <2>2, <2>3
  <2> HIDE DEF pad
  <2> QED BY ONLY <2>4, 0 \in Nat, RateDiv
<1>4. CshakeInput(1, s, <<>>) = p
  <2>1. CshakeInput(1, s, <<>>) = (head \o Zeros((Rate - (Len(head) % Rate)) % Rate)) \o <<>>
    <3> HIDE DEF head
    <3> QED BY ONLY TRUE DEF CshakeInput, head
  <2>2. (Rate - (Len(head) % Rate)) % Rate = pad
    BY ONLY <1>3
  <2>3. IsSeq(p)
    <3> HIDE DEF head, pad
    <3>1. IsSeq(Zeros(pad))
      BY ONLY <1>3, ZerosIs
    <3> QED BY ONLY <1>2, <3>1, ConcatIs
  <2>4. p \o <<>> = p
    <3> HIDE DEF p
    <3> QED BY ONLY <2>3, ConcatEmpty
  <2> HIDE DEF pad, head
  <2> QED BY ONLY <2>1, <2>2, <2>4
<1> DEFINE w == KeccakWrite(KeccakWrite(k, head), Zeros(pad))
<1>5. CshakeCustomize(k, 1, s) = [w EXCEPT !.suffix = <<"04">>]
  <2> HIDE DEF k
  <2> QED BY ONLY TRUE DEF CshakeCustomize
<1> HIDE DEF pad, head
<1>6. w = KeccakOf(p, <<"1f">>)
  <2>0. IsSeq(Zeros(pad)) /\ IsSeq(<<>>)
    BY ONLY <1>3, ZerosIs, EmptyIs
  <2> DEFINE x == <<"1f">>
  <2> HIDE DEF x
  <2>1. KeccakWrite(KeccakOf(<<>>, x), head) = KeccakOf(<<>> \o head, x)
    BY ONLY <2>0, <1>2, KeccakWrites
  <2>2. <<>> \o head = head
    BY ONLY <1>2, ConcatEmpty
  <2>3. KeccakWrite(KeccakOf(head, x), Zeros(pad)) = KeccakOf(p, x)
    BY ONLY <2>0, <1>2, KeccakWrites
  <2> QED BY ONLY <2>1, <2>2, <2>3 DEF x
<1> HIDE DEF p, w
<1>7. [KeccakOf(p, <<"1f">>) EXCEPT !.suffix = <<"04">>] = KeccakOf(p, <<"04">>)
  <2> DEFINE a == KDone(p)
             b == KBlk(p, Len(p) \div Rate)
             c == Len(p) % Rate
             x == <<"1f">>
             y == <<"04">>
             T == [done : {a}, cur : {b}, count : {c}, suffix : {y},
                   squeezed : {0}, way : {"none"}, out : {None}]
  <2>1. \A z : KeccakOf(p, z) = [done |-> a, cur |-> b, count |-> c, suffix |-> z,
                                 squeezed |-> 0, way |-> "none", out |-> None]
    BY ONLY TRUE DEF KeccakOf, KeccakAt
  <2> HIDE DEF a, b, c, x, y
  <2>2. [KeccakOf(p, x) EXCEPT !.suffix = y] \in T
    BY ONLY <2>1
  <2>3. \A z \in T : z = KeccakOf(p, y)
    BY ONLY <2>1
  <2> HIDE DEF T
  <2> QED BY ONLY <2>2, <2>3 DEF x, y
<1> QED BY ONLY <1>4, <1>5, <1>6, <1>7

\* A context at the start.
LEMMA CtxStarts ==
  ASSUME NEW algo \in Kinds
  PROVE  CtxHolds(algo, None, <<0, 0>>, CtxInit(algo), <<>>)
<1> DEFINE cu == <<0, 0>>
           x == SuffixOf(cu)
<1>0. CustomOk(cu) /\ x = <<"1f">>
  BY DEF CustomOk, SuffixOf
<1>1. CASE algo = "sha"
  <2>1. FullBlocks(<<>>) = <<>> /\ Tail0(<<>>) = <<>>
    BY ONLY EmptyIs, FewBytes, Lengths
  <2>2. ShaInit = ShaOf(<<>>)
    BY ONLY <2>1 DEF ShaInit, ShaOf
  <2> QED BY ONLY <1>1, <2>2 DEF CtxHolds, CtxInit
<1>2. CASE algo = "blake"
  <2>1. BlakeHolds(BlakeInit(None), None, KeyBlock(None))
    BY ONLY BlakeInits
  <2>2. KeyBlock(None) \o <<>> = KeyBlock(None)
    <3>1. IsSeq(KeyBlock(None))
      BY ONLY BlakeDigestIs, EmptyIs
    <3> QED BY ONLY <3>1, ConcatEmpty
  <2>3. CtxHolds("blake", None, cu, CtxInit("blake"), <<>>)
    BY ONLY <2>1, <2>2 DEF CtxHolds, CtxInit
  <2> QED BY ONLY <1>2, <2>3
<1>3. CASE algo = "shake"
  <2>1. CshakeInput(cu[1], cu[2], <<>>) = <<>>
    <3> HIDE DEF cu
    <3>1. cu = <<0, 0>>
      BY DEF cu
    <3> QED BY ONLY <1>0, <3>1, PrefixIs
  <2>2. <<>> \o <<>> = <<>>
    BY ONLY EmptyIs, ConcatEmpty
  <2>3. CtxHolds("shake", None, cu, CtxInit("shake"), <<>>)
    <3>1. KeccakInit = KeccakOf(CshakeInput(cu[1], cu[2], <<>>) \o <<>>, x)
      BY ONLY <1>0, <2>1, <2>2, KeccakInits
    <3> HIDE DEF cu
    <3> QED BY ONLY <3>1 DEF CtxHolds, CtxInit
  <2> QED BY ONLY <1>3, <2>3
<1> QED BY <1>1, <1>2, <1>3 DEF Kinds

\* A write.
LEMMA CtxWrites ==
  ASSUME NEW algo \in Kinds, NEW key, NEW cu, CustomOk(cu), NEW c, NEW s, IsSeq(s),
         NEW t, IsSeq(t), CtxHolds(algo, key, cu, c, s)
  PROVE  CtxHolds(algo, key, cu, CtxWrite(algo, c, t), s \o t)
<1> DEFINE p == CshakeInput(cu[1], cu[2], <<>>)
           x == SuffixOf(cu)
           b == KeyBlock(key)
<1>0. IsSeq(p) /\ IsSeq(b)
  BY ONLY CustomOk(cu), PrefixIs, BlakeDigestIs, EmptyIs
<1>1. CASE algo = "sha"
  <2>1. c = ShaOf(s)
    BY <1>1 DEF CtxHolds
  <2>2. MdBlockWrite(c, t) = ShaOf(s \o t)
    BY ONLY <2>1, ShaWrites, IsSeq(s), IsSeq(t)
  <2> QED BY ONLY <1>1, <2>2 DEF CtxHolds, CtxWrite
<1>2. CASE algo = "blake"
  <2>1. BlakeHolds(c, key, b \o s)
    BY <1>2 DEF CtxHolds
  <2> HIDE DEF b
  <2>2. BlakeHolds(BlakeWrite(c, t), key, (b \o s) \o t)
    BY ONLY <2>1, BlakeWrites, IsSeq(t)
  <2>3. (b \o s) \o t = b \o (s \o t)
    BY ONLY <1>0, IsSeq(s), IsSeq(t), ConcatAssoc, SMTT(60)
  <2>4. BlakeHolds(BlakeWrite(c, t), key, b \o (s \o t))
    BY ONLY <2>2, <2>3
  <2> QED BY ONLY <1>2, <2>4 DEF CtxHolds, CtxWrite, b
<1>3. CASE algo = "shake"
  <2>1. c = KeccakOf(p \o s, x)
    BY <1>3 DEF CtxHolds
  <2> HIDE DEF p, x
  <2>2. IsSeq(p \o s)
    BY ONLY <1>0, IsSeq(s), ConcatIs
  <2>3. KeccakWrite(c, t) = KeccakOf((p \o s) \o t, x)
    BY ONLY <2>1, <2>2, KeccakWrites, IsSeq(t)
  <2>4. (p \o s) \o t = p \o (s \o t)
    BY ONLY <1>0, IsSeq(s), IsSeq(t), ConcatAssoc
  <2>5. KeccakWrite(c, t) = KeccakOf(p \o (s \o t), x)
    BY ONLY <2>3, <2>4
  <2> QED BY ONLY <1>3, <2>5 DEF CtxHolds, CtxWrite, p, x
<1> QED BY <1>1, <1>2, <1>3 DEF Kinds

\* The end of the input.
LEMMA CtxFinals ==
  ASSUME NEW algo \in Kinds, NEW key, NEW cu, CustomOk(cu), NEW c, NEW s, IsSeq(s),
         CtxHolds(algo, key, cu, c, s)
  PROVE  CtxEnded(algo, key, cu, CtxFinal(algo, c), s, 0)
<1> DEFINE p == CshakeInput(cu[1], cu[2], <<>>)
           x == SuffixOf(cu)
           b == KeyBlock(key)
<1>0. IsSeq(p) /\ IsSeq(b)
  BY ONLY CustomOk(cu), PrefixIs, BlakeDigestIs, EmptyIs
<1>1. CASE algo = "sha"
  <2>1. c = ShaOf(s)
    BY <1>1 DEF CtxHolds
  <2>2. ShaFinal(c).out = ShaDigest(s)
    BY ONLY <2>1, ShaFinals, IsSeq(s)
  <2> QED BY ONLY <1>1, <2>2 DEF CtxEnded, CtxFinal
<1>2. CASE algo = "blake"
  <2>1. BlakeHolds(c, key, b \o s)
    BY <1>2 DEF CtxHolds
  <2>2. BlakeFinal(c).out = BlakeOf(key, b \o s)
    <3> HIDE DEF b
    <3> QED BY ONLY <2>1, BlakeFinals
  <2>3. BlakeDigest(key, s) = BlakeOf(key, b \o s)
    BY ONLY IsSeq(s), BlakeDigestIs
  <2>4. BlakeFinal(c).out = BlakeDigest(key, s)
    BY ONLY <2>2, <2>3
  <2> QED BY ONLY <1>2, <2>4 DEF CtxEnded, CtxFinal
<1>3. CASE algo = "shake"
  <2> DEFINE B == KeccakBlocks(p \o s, x)
             f == KeccakFinal(c)
  <2>1. c = KeccakOf(p \o s, x)
    BY <1>3 DEF CtxHolds
  <2>2. f = [done |-> B, cur |-> ZeroState, count |-> 0, suffix |-> x,
             squeezed |-> 0, way |-> "none", out |-> None]
    <3> HIDE DEF p, x
    <3>1. IsSeq(p \o s)
      BY ONLY <1>0, IsSeq(s), ConcatIs
    <3> QED BY ONLY <2>1, <3>1, KeccakFinals
  <2> HIDE DEF B, f
  <2>3. /\ f.way = "none" /\ f.out = None /\ f.count = 0 /\ f.squeezed = 0
        /\ f.cur = ZeroState /\ f.suffix = x
    BY ONLY <2>2
  <2>4. Placed(0, 0, 0)
    BY Lengths DEF Placed
  <2>5. f = Ks(B, <<f.cur, f.suffix, f.way, f.out>>, f.count, f.squeezed)
    BY ONLY <2>2, <2>3 DEF Ks
  <2>6. ShakeEnded(B, f, 0)
    BY ONLY <2>3, <2>4, <2>5 DEF ShakeEnded
  <2>7. CtxEnded("shake", key, cu, f, s, 0)
    BY ONLY <2>6 DEF CtxEnded, B, p, x
  <2> QED BY ONLY <1>3, <2>7 DEF CtxFinal, f
<1> QED BY <1>1, <1>2, <1>3 DEF Kinds

\* An extraction of n bytes when d have been extracted.
LEMMA ShakeExtracts ==
  ASSUME NEW B, NEW c, NEW d \in Nat, NEW n \in Nat, ShakeEnded(B, c, d), c.way # "read"
  PROVE  \E a, z : /\ KeccakExtract(c, n)
                        = [k |-> Ks(B, <<c.cur, c.suffix, c.way, c.out>>, a, z),
                           out |-> XOut(B, d, n)]
                   /\ Placed(a, z, d + n) /\ c.out = None
<1> DEFINE v == <<c.cur, c.suffix, c.way, c.out>>
           m == c.count
           q == c.squeezed
<1>1. c = Ks(B, v, m, q) /\ Placed(m, q, d) /\ c.out = None
  BY DEF ShakeEnded
<1> HIDE DEF v, m, q
<1>2. \E a, z : /\ KeccakExtract(Ks(B, v, m, q), n) = [k |-> Ks(B, v, a, z), out |-> XOut(B, d, n)]
                /\ Placed(a, z, d + n)
  BY ONLY <1>1, d \in Nat, n \in Nat, Extracts
<1> QED BY ONLY <1>1, <1>2 DEF v

\* What the algorithm, keyed and customized, gives for s.
Result(algo, key, cu, s) ==
  CASE algo = "sha" -> ShaDigest(s)
    [] algo = "blake" -> BlakeDigest(key, s)
    [] algo = "shake" -> <<"shake", ShakeDigest(CshakeInput(cu[1], cu[2], s), SuffixOf(cu))>>

\* The output of SHAKE by its bytes.
LEMMA ShakeIs ==
  ASSUME NEW s, NEW x
  PROVE  /\ XOut(KeccakBlocks(s, x), 0, OutLen) = ShakeDigest(s, x)
         /\ \A d, n : XOut(KeccakBlocks(s, x), d, n) = [i \in 1..n |-> ShakeByte(s, x, d + i)]
<1>1. \A d, n : XOut(KeccakBlocks(s, x), d, n) = [i \in 1..n |-> ShakeByte(s, x, d + i)]
  BY ONLY TRUE DEF XOut, XByte, ShakeByte
<1>2. \A i \in 1..OutLen : 0 + i = i
  BY Lengths
<1>3. XOut(KeccakBlocks(s, x), 0, OutLen) = [i \in 1..OutLen |-> ShakeByte(s, x, 0 + i)]
  BY ONLY <1>1
<1>4. \A i \in 1..OutLen : ShakeByte(s, x, 0 + i) = ShakeByte(s, x, i)
  BY ONLY <1>2
<1>5. [i \in 1..OutLen |-> ShakeByte(s, x, 0 + i)] = [i \in 1..OutLen |-> ShakeByte(s, x, i)]
  BY ONLY <1>4
<1> QED BY ONLY <1>1, <1>3, <1>5 DEF ShakeDigest

\* A read: the digest, at once or again, or nothing in extract mode.
LEMMA CtxReads ==
  ASSUME NEW algo \in Kinds, NEW key, NEW cu, CustomOk(cu), NEW c, NEW s, IsSeq(s),
         NEW d \in Nat, CtxEnded(algo, key, cu, c, s, d)
  PROVE  /\ CtxEnded(algo, key, cu, CtxRead(algo, c), s, d)
         /\ CtxRead(algo, c).out \in {None, Result(algo, key, cu, s)}
         /\ algo # "shake" \/ c.way # "extract" =>
              CtxRead(algo, c).out = Result(algo, key, cu, s)
<1>1. CASE algo = "sha"
  BY ONLY <1>1, CtxEnded(algo, key, cu, c, s, d) DEF CtxEnded, CtxRead, Result
<1>2. CASE algo = "blake"
  BY ONLY <1>2, CtxEnded(algo, key, cu, c, s, d) DEF CtxEnded, CtxRead, Result
<1>3. CASE algo = "shake"
  <2> DEFINE p == CshakeInput(cu[1], cu[2], <<>>) \o s
             x == SuffixOf(cu)
             B == KeccakBlocks(p, x)
             R == <<"shake", XOut(B, 0, OutLen)>>
             w == CtxRead("shake", c)
  <2>1. R = Result("shake", key, cu, s)
    <3>1. p = CshakeInput(cu[1], cu[2], s)
      BY ONLY CustomOk(cu), IsSeq(s), PrefixIs
    <3>2. XOut(B, 0, OutLen) = ShakeDigest(p, x)
      <4> HIDE DEF p, x
      <4> QED BY ONLY ShakeIs
    <3> HIDE DEF p, x, B
    <3> QED BY ONLY <3>1, <3>2 DEF Result, x
  <2>2. ShakeEnded(B, c, d)
    BY ONLY <1>3, CtxEnded(algo, key, cu, c, s, d) DEF CtxEnded
  <2> HIDE DEF B
  <2>3. /\ ShakeEnded(B, w, d) /\ w.out \in {None, R}
        /\ c.way # "extract" => w.out = R
    <3>1. CASE c.way # "none"
      <4>1. w = c
        BY ONLY <3>1 DEF CtxRead
      <4> QED BY ONLY <2>2, <3>1, <4>1 DEF ShakeEnded
    <3>2. CASE c.way = "none"
      <4> DEFINE v == <<c.cur, c.suffix, c.way, c.out>>
                 u == <<c.cur, c.suffix, "read", R>>
      <4>1. d = 0 /\ c.way # "read"
        BY ONLY <2>2, <3>2 DEF ShakeEnded
      <4>2. PICK a, z : KeccakExtract(c, OutLen) = [k |-> Ks(B, v, a, z), out |-> XOut(B, d, OutLen)]
        <5>1. OutLen \in Nat
          BY Lengths
        <5> QED BY ONLY <5>1, <2>2, <4>1, ShakeExtracts, d \in Nat
      <4> DEFINE k == Ks(B, v, a, z)
      <4>3. w = [k EXCEPT !.way = "read", !.out = R]
        <5> HIDE DEF k
        <5>1. KeccakExtract(c, OutLen).k = k /\ KeccakExtract(c, OutLen).out = XOut(B, 0, OutLen)
          BY ONLY <4>1, <4>2 DEF k
        <5> QED BY ONLY <5>1, <3>2 DEF CtxRead
      <4> HIDE DEF R
      <4>4. w = Ks(B, u, a, z)
        <5> DEFINE T == [done : {B}, cur : {c.cur}, count : {a}, suffix : {c.suffix},
                         squeezed : {z}, way : {"read"}, out : {R}]
        <5>1. k = [done |-> B, cur |-> c.cur, count |-> a, suffix |-> c.suffix,
                   squeezed |-> z, way |-> c.way, out |-> c.out]
          BY ONLY TRUE DEF Ks
        <5> HIDE DEF k
        <5>2. [k EXCEPT !.way = "read", !.out = R] \in T
          BY ONLY <5>1
        <5>3. \A y \in T : y = Ks(B, u, a, z)
          BY ONLY TRUE DEF Ks
        <5> HIDE DEF T, w, u
        <5> QED BY ONLY <4>3, <5>2, <5>3
      <4> HIDE DEF w, k
      <4>5. w.way = "read" /\ w.out = R /\ w = Ks(B, <<w.cur, w.suffix, w.way, w.out>>, w.count, w.squeezed)
        BY ONLY <4>4 DEF Ks
      <4> QED BY ONLY <4>5 DEF ShakeEnded, R
    <3> QED BY ONLY <3>1, <3>2
  <2>4. CtxEnded("shake", key, cu, w, s, d)
    BY ONLY <2>3 DEF CtxEnded, B
  <2> HIDE DEF w, R
  <2> QED BY ONLY <1>3, <2>1, <2>3, <2>4 DEF w
<1> QED BY <1>1, <1>2, <1>3 DEF Kinds

\* n bytes of the output of SHAKE for s, behind the first d.
StreamOf(s, x, d, n) == [i \in 1..n |-> ShakeByte(s, x, d + i)]
Extracting(k) == [k EXCEPT !.way = "extract"]

\* The same for gcry_md_extract.
LEMMA CtxExtracts ==
  ASSUME NEW key, NEW cu, CustomOk(cu), NEW c, NEW s, IsSeq(s), NEW d \in Nat, NEW n \in Nat,
         CtxEnded("shake", key, cu, c, s, d), c.way # "read"
  PROVE  LET x == KeccakExtract(c, n)
         IN  /\ CtxEnded("shake", key, cu, Extracting(x.k), s, d + n)
             /\ x.out = StreamOf(CshakeInput(cu[1], cu[2], s), SuffixOf(cu), d, n)
<1> DEFINE p == CshakeInput(cu[1], cu[2], <<>>) \o s
           y == SuffixOf(cu)
           B == KeccakBlocks(p, y)
           x == KeccakExtract(c, n)
           v == <<c.cur, c.suffix, c.way, c.out>>
           u == <<c.cur, c.suffix, "extract", None>>
<1>1. p = CshakeInput(cu[1], cu[2], s)
  BY ONLY CustomOk(cu), IsSeq(s), PrefixIs
<1>2. ShakeEnded(B, c, d)
  BY ONLY CtxEnded("shake", key, cu, c, s, d) DEF CtxEnded
<1>3. XOut(B, d, n) = [i \in 1..n |-> ShakeByte(p, y, d + i)]
  <2> HIDE DEF p, y
  <2> QED BY ONLY ShakeIs
<1> HIDE DEF B
<1>4. PICK a, z : /\ KeccakExtract(c, n) = [k |-> Ks(B, v, a, z), out |-> XOut(B, d, n)]
                  /\ Placed(a, z, d + n) /\ c.out = None
  BY ONLY <1>2, ShakeExtracts, d \in Nat, n \in Nat, c.way # "read"
<1> DEFINE k == Ks(B, v, a, z)
           w == [k EXCEPT !.way = "extract"]
<1>5. w = Ks(B, u, a, z)
  <2> DEFINE T == [done : {B}, cur : {c.cur}, count : {a}, suffix : {c.suffix},
                   squeezed : {z}, way : {"extract"}, out : {None}]
  <2>1. k = [done |-> B, cur |-> c.cur, count |-> a, suffix |-> c.suffix,
             squeezed |-> z, way |-> c.way, out |-> None]
    BY ONLY <1>4 DEF Ks
  <2> HIDE DEF k
  <2>2. w \in T
    BY ONLY <2>1
  <2>3. \A q \in T : q = Ks(B, u, a, z)
    BY ONLY TRUE DEF Ks
  <2> HIDE DEF T, w, u
  <2> QED BY ONLY <2>2, <2>3
<1> HIDE DEF w
<1>6. /\ w.way = "extract" /\ w.out = None /\ w.count = a /\ w.squeezed = z
      /\ w = Ks(B, <<w.cur, w.suffix, w.way, w.out>>, w.count, w.squeezed)
  BY ONLY <1>5 DEF Ks
<1>7. ShakeEnded(B, w, d + n)
  BY ONLY <1>4, <1>6 DEF ShakeEnded
<1>8. CtxEnded("shake", key, cu, w, s, d + n)
  BY ONLY <1>7 DEF CtxEnded, B
<1>9. [x.k EXCEPT !.way = "extract"] = w /\ x.out = XOut(B, d, n)
  <2> HIDE DEF k
  <2>1. x.k = k /\ x.out = XOut(B, d, n)
    BY ONLY <1>4 DEF k
  <2> HIDE DEF x
  <2> QED BY ONLY <2>1 DEF w
<1> HIDE DEF x, w, p, y
<1>10. /\ CtxEnded("shake", key, cu, [x.k EXCEPT !.way = "extract"], s, d + n)
       /\ x.out = [i \in 1..n |-> ShakeByte(CshakeInput(cu[1], cu[2], s), SuffixOf(cu), d + i)]
  BY ONLY <1>1, <1>3, <1>8, <1>9 DEF y
<1> QED BY ONLY <1>10 DEF x, StreamOf, Extracting
-----------------------------------------------------------------------------
(* Entries *)

\* Another context in an entry.
LEMMA WithCtx ==
  ASSUME NEW e, IsEntry(e), NEW x
  PROVE  LET f == [e EXCEPT !.ctx = x]
         IN  /\ IsEntry(f) /\ f.ctx = x /\ f.algo = e.algo /\ f.inner = e.inner
             /\ f.outer = e.outer /\ f.from = e.from /\ f.junk = e.junk
             /\ f.key = e.key /\ f.custom = e.custom /\ f.taken = e.taken
<1> DEFINE f == [e EXCEPT !.ctx = x]
           A == e.inner
           B == e.outer
           C == e.from
           D == e.key
           F == e.custom
           G == e.taken
           y == e.ctx
<1>1. e \in [algo : Kinds, ctx : {y}, inner : {A}, outer : {B}, from : {C}, junk : BOOLEAN,
             key : {D}, custom : {F}, taken : {G}]
  BY DEF IsEntry
<1> HIDE DEF A, B, C, D, F, G, y
<1>2. f \in [algo : Kinds, ctx : {x}, inner : {A}, outer : {B}, from : {C}, junk : BOOLEAN,
             key : {D}, custom : {F}, taken : {G}]
  BY ONLY <1>1
<1>3. f.algo = e.algo /\ f.junk = e.junk
  BY ONLY <1>1
<1> HIDE DEF f
<1>4. /\ f.ctx = x /\ f.inner = A /\ f.outer = B /\ f.from = C /\ f.key = D
      /\ f.custom = F /\ f.taken = G
  BY ONLY <1>2
<1>5. IsEntry(f)
  BY ONLY <1>2, <1>4 DEF IsEntry
<1>6. /\ IsEntry(f) /\ f.ctx = x /\ f.algo = e.algo /\ f.inner = e.inner
      /\ f.outer = e.outer /\ f.from = e.from /\ f.junk = e.junk
      /\ f.key = e.key /\ f.custom = e.custom /\ f.taken = e.taken
  BY ONLY <1>3, <1>4, <1>5 DEF A, B, C, D, F, G
<1> QED BY ONLY <1>6 DEF f

\* What is behind place n goes on with what is added.
LEMMA BehindMore ==
  ASSUME NEW g, IsSeq(g), NEW t, IsSeq(t), NEW n \in 0..Len(g)
  PROVE  /\ Behind(g \o t, n) = Behind(g, n) \o t /\ IsSeq(Behind(g, n))
         /\ n \in 0..Len(g \o t)
<1>1. Len(g) \in Nat /\ Len(t) \in Nat
  BY IsSeqLen
<1>2. /\ IsSeq(g \o t) /\ Len(g \o t) = Len(g) + Len(t)
      /\ \A i \in 1..(Len(g) + Len(t)) :
              (g \o t)[i] = IF i <= Len(g) THEN g[i] ELSE t[i - Len(g)]
  BY ConcatIs
<1>3. n \in 0..Len(g \o t)
  BY <1>1, <1>2
<1>4. /\ IsSeq(Behind(g, n)) /\ Len(Behind(g, n)) = Len(g) - n
      /\ \A i \in 1..(Len(g) - n) : Behind(g, n)[i] = g[n + i]
  BY ONLY FirstIs, IsSeq(g), n \in 0..Len(g)
<1> DEFINE u == g \o t
           a == Behind(u, n)
           b == Behind(g, n)
<1>5. IsSeq(u) /\ n \in 0..Len(u) /\ Len(u) = Len(g) + Len(t)
  BY ONLY <1>2, <1>3
<1> HIDE DEF u
<1>6. IsSeq(a) /\ Len(a) = Len(u) - n /\ \A i \in 1..(Len(u) - n) : a[i] = u[n + i]
  BY ONLY FirstIs, <1>5
<1> HIDE DEF a, b
<1>7. /\ IsSeq(b \o t) /\ Len(b \o t) = Len(b) + Len(t)
      /\ \A i \in 1..(Len(b) + Len(t)) :
              (b \o t)[i] = IF i <= Len(b) THEN b[i] ELSE t[i - Len(b)]
  <2>1. IsSeq(b)
    BY <1>4 DEF b
  <2> QED BY ONLY <2>1, IsSeq(t), ConcatIs
<1>8. Len(b) = Len(g) - n /\ \A i \in 1..(Len(g) - n) : b[i] = g[n + i]
  BY ONLY <1>4 DEF b
<1>9. Len(a) = Len(b \o t)
  BY <1>1, <1>5, <1>6, <1>7, <1>8
<1>10. ASSUME NEW i \in 1..Len(a) PROVE a[i] = (b \o t)[i]
  <2>1. i \in 1..(Len(u) - n) /\ n + i \in 1..(Len(g) + Len(t)) /\ i \in 1..(Len(b) + Len(t))
    BY <1>1, <1>5, <1>6, <1>8
  <2>2. a[i] = u[n + i]
    BY ONLY <2>1, <1>6
  <2>3. u[n + i] = IF n + i <= Len(g) THEN g[n + i] ELSE t[n + i - Len(g)]
    BY ONLY <2>1, <1>2 DEF u
  <2>4. (b \o t)[i] = IF i <= Len(b) THEN b[i] ELSE t[i - Len(b)]
    BY ONLY <2>1, <1>7
  <2>5. CASE n + i <= Len(g)
    <3>1. i <= Len(b) /\ i \in 1..(Len(g) - n)
      BY <2>1, <2>5, <1>1, <1>8
    <3> QED BY ONLY <3>1, <2>2, <2>3, <2>4, <2>5, <1>8
  <2>6. CASE ~(n + i <= Len(g))
    <3>1. ~(i <= Len(b)) /\ n + i - Len(g) = i - Len(b)
      BY <2>1, <2>6, <1>1, <1>8
    <3> QED BY ONLY <3>1, <2>2, <2>3, <2>4, <2>6
  <2> QED BY <2>5, <2>6
<1>11. a = b \o t
  BY ONLY <1>6, <1>7, <1>9, <1>10, SeqSame
<1> QED BY ONLY <1>3, <1>4, <1>11 DEF a, b, u

\* What HMAC has taken in before the data.
LEMMA LeadSeq ==
  ASSUME NEW m, NEW k
  PROVE  IsSeq(Lead(m, k))
<1>1. IsSeq(Pad("36", k)) /\ IsSeq(<<>>)
  BY ONLY PadSeq, EmptyIs
<1> QED BY ONLY <1>1 DEF Lead

\* An entry takes in what was in the buffer and then the data.
LEMMA EntryWrites ==
  ASSUME NEW e, IsEntry(e), NEW m \in BOOLEAN, NEW k, NEW f, NEW p, NEW q, NEW g, IsSeq(g),
         EntryRight(e, m, k, f, p, g), NEW b, IsSeq(b), NEW t, IsSeq(t), ~f \/ q
  PROVE  LET x == CtxWrite(e.algo, CtxWrite(e.algo, e.ctx, b), t)
         IN  EntryRight([e EXCEPT !.ctx = x], m, k, f, q, (g \o b) \o t)
<1> DEFINE n == e.from
           x == CtxWrite(e.algo, CtxWrite(e.algo, e.ctx, b), t)
           w == [e EXCEPT !.ctx = x]
           g2 == (g \o b) \o t
<1>1. /\ w.ctx = x /\ w.algo = e.algo /\ w.inner = e.inner
      /\ w.outer = e.outer /\ w.from = e.from
      /\ w.key = e.key /\ w.custom = e.custom /\ w.taken = e.taken
  <2> HIDE DEF x
  <2> QED BY ONLY IsEntry(e), WithCtx
<1>2. n \in 0..Len(g) /\ CustomOk(e.custom) /\ e.algo \in Kinds
  BY DEF EntryRight, IsEntry
<1>3. /\ IsSeq(g \o b) /\ Behind(g \o b, n) = Behind(g, n) \o b /\ IsSeq(Behind(g, n))
      /\ n \in 0..Len(g \o b)
  <2> HIDE DEF n
  <2> QED BY ONLY <1>2, IsSeq(g), IsSeq(b), BehindMore, ConcatIs
<1>4. /\ Behind(g2, n) = Behind(g \o b, n) \o t /\ n \in 0..Len(g2) /\ IsSeq(Behind(g \o b, n))
  <2> DEFINE y == g \o b
  <2> HIDE DEF n, y
  <2>1. IsSeq(y) /\ n \in 0..Len(y)
    BY ONLY <1>3 DEF y
  <2>2. Behind(y \o t, n) = Behind(y, n) \o t /\ n \in 0..Len(y \o t) /\ IsSeq(Behind(y, n))
    BY ONLY <2>1, IsSeq(t), BehindMore
  <2> QED BY ONLY <2>2 DEF y
<1>5. ~f => CtxHolds(e.algo, e.key, e.custom, x, FedTo(m, k, Behind(g2, n)))
  <2> SUFFICES ASSUME ~f PROVE CtxHolds(e.algo, e.key, e.custom, x, FedTo(m, k, Behind(g2, n)))
    OBVIOUS
  <2> DEFINE A == e.algo
             K == e.key
             U == e.custom
             c == e.ctx
             L == Lead(m, k)
             s0 == Behind(g, n)
             F0 == L \o s0
             s1 == s0 \o b
             F1 == L \o s1
             s2 == s1 \o t
             F2 == L \o s2
  <2>0. IsSeq(L)
    BY ONLY LeadSeq
  <2>1. CtxHolds(A, K, U, c, F0)
    BY DEF EntryRight, FedTo
  <2>2. A \in Kinds /\ CustomOk(U) /\ IsSeq(s0)
    BY ONLY <1>2, <1>3
  <2> HIDE DEF A, K, U, c, s0, L
  <2>3. IsSeq(F0) /\ IsSeq(s1) /\ F0 \o b = F1
    <3>1. IsSeq(F0)
      BY ONLY <2>0, <2>2, ConcatIs
    <3>2. IsSeq(s1)
      BY ONLY <2>2, IsSeq(b), ConcatIs
    <3>3. F0 \o b = F1
      BY ONLY <2>0, <2>2, IsSeq(b), ConcatAssoc
    <3> QED BY ONLY <3>1, <3>2, <3>3
  <2> HIDE DEF s1, F0
  <2>4. IsSeq(F1) /\ F1 \o t = F2
    <3>1. IsSeq(F1)
      BY ONLY <2>0, <2>3, ConcatIs
    <3>2. F1 \o t = F2
      BY ONLY <2>0, <2>3, IsSeq(t), ConcatAssoc
    <3> QED BY ONLY <3>1, <3>2
  <2> HIDE DEF F1
  <2>5. CtxHolds(A, K, U, CtxWrite(A, c, b), F0 \o b)
    BY ONLY <2>1, <2>2, <2>3, IsSeq(b), CtxWrites
  <2>6. CtxHolds(A, K, U, CtxWrite(A, c, b), F1)
    BY ONLY <2>3, <2>5
  <2> DEFINE d == CtxWrite(A, c, b)
  <2> HIDE DEF d
  <2>7. CtxHolds(A, K, U, CtxWrite(A, d, t), F1 \o t)
    BY ONLY <2>2, <2>4, <2>6, IsSeq(t), CtxWrites DEF d
  <2>8. CtxHolds(A, K, U, CtxWrite(A, d, t), F2)
    BY ONLY <2>7, <2>4
  <2>9. s2 = Behind(g2, n)
    BY ONLY <1>3, <1>4 DEF s0, s1
  <2> HIDE DEF s2, g2, n
  <2> QED BY ONLY <2>8, <2>9 DEF A, K, U, c, d, L, FedTo
<1> HIDE DEF x, w, g2, n
<1>6. m => e.key = None /\ e.custom = <<0, 0>> /\ PadsRight(w, k)
  BY ONLY <1>1, EntryRight(e, m, k, f, p, g) DEF EntryRight, PadsRight
<1>7. ~f => w.taken = 0
  BY ONLY <1>1, EntryRight(e, m, k, f, p, g) DEF EntryRight
<1>8. EntryRight(w, m, k, f, q, g2)
  BY ONLY <1>1, <1>2, <1>4, <1>5, <1>6, <1>7, ~f \/ q DEF EntryRight, n
<1> QED BY ONLY <1>8 DEF x, w, g2

\* An entry without key and customization: the digest of its input.
LEMMA PlainIs ==
  ASSUME NEW A \in Kinds, NEW c, NEW s, IsSeq(s), CtxHolds(A, None, <<0, 0>>, c, s)
  PROVE  CtxRead(A, CtxFinal(A, c)).out = Plain(A, s)
<1> DEFINE cu == <<0, 0>>
           d == CtxFinal(A, c)
<1>0. CustomOk(cu)
  BY DEF CustomOk
<1>1. CtxEnded(A, None, cu, d, s, 0)
  <2> HIDE DEF cu
  <2> QED BY ONLY <1>0, CtxFinals, A \in Kinds, IsSeq(s), CtxHolds(A, None, <<0, 0>>, c, s) DEF cu
<1>2. A # "shake" \/ d.way # "extract"
  <2>1. ASSUME A = "shake" PROVE d.way = "none"
    <3>1. PICK z, x : c = KeccakOf(z, x) /\ IsSeq(z)
      <4>1. c = KeccakOf(CshakeInput(cu[1], cu[2], <<>>) \o s, SuffixOf(cu))
        BY <2>1 DEF CtxHolds
      <4>2. IsSeq(CshakeInput(cu[1], cu[2], <<>>))
        <5> HIDE DEF cu
        <5> QED BY ONLY <1>0, PrefixIs
      <4>3. IsSeq(CshakeInput(cu[1], cu[2], <<>>) \o s)
        BY ONLY <4>2, IsSeq(s), ConcatIs
      <4> QED BY ONLY <4>1, <4>3
    <3>2. KeccakFinal(KeccakOf(z, x)) =
           [done |-> KeccakBlocks(z, x), cur |-> ZeroState, count |-> 0, suffix |-> x,
            squeezed |-> 0, way |-> "none", out |-> None]
      BY ONLY <3>1, KeccakFinals
    <3>3. d = KeccakFinal(KeccakOf(z, x))
      BY ONLY <2>1, <3>1 DEF CtxFinal
    <3> QED BY ONLY <3>2, <3>3
  <2> QED BY ONLY <2>1
<1> HIDE DEF d
<1>3. CtxRead(A, d).out = Result(A, None, cu, s)
  <2>1. 0 \in Nat
    OBVIOUS
  <2> HIDE DEF cu
  <2> QED BY ONLY <1>0, <1>1, <1>2, <2>1, A \in Kinds, IsSeq(s), CtxReads
<1>4. Result(A, None, cu, s) = Plain(A, s)
  <2>1. cu[1] = 0 /\ cu[2] = 0 /\ SuffixOf(cu) = <<"1f">>
    BY DEF SuffixOf
  <2>2. CshakeInput(cu[1], cu[2], s) = s
    BY ONLY <2>1 DEF CshakeInput
  <2> QED BY ONLY <2>1, <2>2, A \in Kinds DEF Result, Plain, Kinds
<1> QED BY ONLY <1>3, <1>4 DEF d

\* The end of an entry; in HMAC the digest goes through the outer context.
EndCtx(e, hmac) ==
  IF hmac
  THEN CtxFinal(e.algo, CtxWrite(e.algo, e.outer,
                                 <<CtxRead(e.algo, CtxFinal(e.algo, e.ctx)).out>>))
  ELSE CtxFinal(e.algo, e.ctx)

\* Ended so, an entry that was right is right as a finished one.
LEMMA EntryEnds ==
  ASSUME NEW e, IsEntry(e), NEW m, NEW k, NEW p, NEW g, IsSeq(g),
         EntryRight(e, m, k, FALSE, p, g)
  PROVE  EntryRight([e EXCEPT !.ctx = EndCtx(e, m)], m, k, TRUE, FALSE, g)
<1> DEFINE n == e.from
           A == e.algo
           K == e.key
           U == e.custom
           c == e.ctx
           x == EndCtx(e, m)
           w == [e EXCEPT !.ctx = x]
           s == Behind(g, n)
<1>1. /\ w.ctx = x /\ w.algo = e.algo /\ w.inner = e.inner
      /\ w.outer = e.outer /\ w.from = e.from
      /\ w.key = e.key /\ w.custom = e.custom /\ w.taken = e.taken
  <2> HIDE DEF x
  <2> QED BY ONLY IsEntry(e), WithCtx
<1>2. n \in 0..Len(g) /\ CustomOk(U) /\ A \in Kinds /\ e.taken = 0
      /\ CtxHolds(A, K, U, c, FedTo(m, k, s))
      /\ (m => K = None /\ U = <<0, 0>> /\ PadsRight(e, k))
  BY DEF EntryRight, IsEntry
<1>3. IsSeq(s)
  <2> HIDE DEF n
  <2> QED BY ONLY <1>2, IsSeq(g), FirstIs
<1>4. CASE ~m
  <2>1. x = CtxFinal(A, c)
    BY ONLY <1>4 DEF EndCtx
  <2>2. EndOf(A, m, k, s) = s /\ CtxHolds(A, K, U, c, s)
    <3>1. Lead(m, k) = <<>>
      BY ONLY <1>4 DEF Lead
    <3>2. Lead(m, k) \o s = s
      <4> HIDE DEF s
      <4> QED BY ONLY <1>3, <3>1, ConcatEmpty
    <3>3. FedTo(m, k, s) = s
      BY ONLY <3>2 DEF FedTo
    <3> HIDE DEF s
    <3> QED BY ONLY <1>2, <1>4, <3>3 DEF EndOf
  <2> HIDE DEF x, A, K, U, c, s
  <2>3. CtxEnded(A, K, U, CtxFinal(A, c), s, 0)
    BY ONLY <2>2, <1>2, <1>3, CtxFinals
  <2>4. CtxEnded(A, K, U, x, EndOf(A, m, k, s), 0)
    BY ONLY <2>1, <2>2, <2>3
  <2> HIDE DEF w, n
  <2> QED BY ONLY <1>1, <1>2, <1>4, <2>4, 0 \in Nat DEF EntryRight, n, A, K, U, s, w, x
<1>5. CASE m
  <2> DEFINE P == Pad("36", k)
             Q == Pad("5c", k)
             y == CtxRead(A, CtxFinal(A, c)).out
             o == e.outer
             cu == <<0, 0>>
             z == CtxWrite(A, o, <<y>>)
  <2>1. x = CtxFinal(A, z)
    BY ONLY <1>5 DEF EndCtx
  <2>2. CtxHolds(A, None, cu, c, P \o s) /\ K = None /\ U = cu /\ CtxHolds(A, None, cu, o, Q)
        /\ PadsRight(e, k)
    BY ONLY <1>2, <1>5 DEF FedTo, Lead, PadsRight
  <2>3. IsSeq(P) /\ IsSeq(Q) /\ CustomOk(cu)
    BY ONLY PadSeq DEF CustomOk
  <2>4. IsSeq(P \o s)
    <3> HIDE DEF P, s
    <3> QED BY ONLY <2>3, <1>3, ConcatIs
  <2> HIDE DEF A, K, U, c, o
  <2>5. y = Plain(A, P \o s)
    <3> DEFINE u == P \o s
    <3>1. CtxHolds(A, None, cu, c, u) /\ IsSeq(u)
      BY ONLY <2>2, <2>4
    <3> HIDE DEF u
    <3> QED BY ONLY <1>2, <3>1, PlainIs DEF u
  <2> HIDE DEF cu, Q, y
  <2>6. IsSeq(<<y>>)
    BY ONLY AppendIs, EmptyIs
  <2> DEFINE v == <<y>>
  <2> HIDE DEF v
  <2>7. CtxHolds(A, None, cu, CtxWrite(A, o, v), Q \o v)
    BY ONLY <1>2, <2>2, <2>3, <2>6, CtxWrites DEF v
  <2>8. IsSeq(Q \o v)
    BY ONLY <2>3, <2>6, ConcatIs DEF v
  <2> DEFINE zz == CtxWrite(A, o, v)
             qq == Q \o v
  <2> HIDE DEF zz, qq
  <2>9. CtxEnded(A, None, cu, CtxFinal(A, zz), qq, 0)
    <3>1. CtxHolds(A, None, cu, zz, qq) /\ IsSeq(qq)
      BY ONLY <2>7, <2>8 DEF zz, qq
    <3> QED BY ONLY <3>1, <1>2, <2>3, CtxFinals
  <2>10. qq = EndOf(A, m, k, s)
    BY ONLY <1>5, <2>5 DEF EndOf, qq, v, Q, P
  <2>11. CtxEnded(A, K, U, x, EndOf(A, m, k, s), 0)
    BY ONLY <2>1, <2>2, <2>9, <2>10 DEF zz, v
  <2>12. PadsRight(w, k) /\ K = None /\ U = <<0, 0>>
    <3> HIDE DEF w, x
    <3> QED BY ONLY <1>1, <2>2 DEF PadsRight, cu
  <2> HIDE DEF x, s, w, n
  <2> QED BY ONLY <1>1, <1>2, <2>11, <2>12, 0 \in Nat DEF EntryRight, n, A, K, U, s, w, x
<1> QED BY <1>4, <1>5

\* A new entry.
LEMMA EntryIs ==
  ASSUME NEW a \in Kinds, NEW n, NEW j \in BOOLEAN
  PROVE  LET e == Entry(a, n, j)
         IN  /\ IsEntry(e) /\ e.algo = a /\ e.ctx = CtxInit(a) /\ e.from = n /\ e.junk = j
             /\ e.key = None /\ e.custom = <<0, 0>> /\ e.taken = 0
<1> DEFINE c == CtxInit(a)
           o == None
           u == <<0, 0>>
           e == Entry(a, n, j)
<1>1. e = [algo |-> a, ctx |-> c, inner |-> o, outer |-> o,
           from |-> n, junk |-> j, key |-> o, custom |-> u, taken |-> 0]
  BY ONLY TRUE DEF Entry
<1> HIDE DEF c, o, u, e
<1>2. /\ e.algo = a /\ e.ctx = c /\ e.from = n /\ e.junk = j /\ e.inner = o /\ e.outer = o
      /\ e.key = o /\ e.custom = u /\ e.taken = 0
  BY ONLY <1>1
<1>3. IsEntry(e)
  BY ONLY <1>1, <1>2, a \in Kinds, j \in BOOLEAN DEF IsEntry
<1> QED BY ONLY <1>2, <1>3 DEF e, c, o, u

\* An entry that starts with the next byte.
LEMMA EntryStarts ==
  ASSUME NEW e, IsEntry(e), e.ctx = CtxInit(e.algo), e.key = None, e.custom = <<0, 0>>,
         e.taken = 0, NEW m \in BOOLEAN, ~m, NEW k, NEW p, NEW g, IsSeq(g), e.from = Len(g)
  PROVE  EntryRight(e, m, k, FALSE, p, g)
<1>1. Len(g) \in Nat
  BY IsSeqLen
<1>2. Behind(g, e.from) = <<>>
  BY ONLY e.from = Len(g), IsSeq(g), FirstAll
<1>3. FedTo(m, k, <<>>) = <<>>
  <2>1. Lead(m, k) = <<>>
    BY DEF Lead
  <2> QED BY ONLY <2>1, EmptyIs, ConcatEmpty DEF FedTo
<1>4. CtxHolds(e.algo, None, <<0, 0>>, e.ctx, <<>>)
  <2>1. e.algo \in Kinds
    BY DEF IsEntry
  <2>2. CtxHolds(e.algo, None, <<0, 0>>, CtxInit(e.algo), <<>>)
    BY ONLY <2>1, CtxStarts
  <2> QED BY ONLY <2>2, e.ctx = CtxInit(e.algo)
<1>5. e.from \in 0..Len(g) /\ CustomOk(e.custom)
  BY <1>1 DEF CustomOk
<1>6. CtxHolds(e.algo, e.key, e.custom, e.ctx, FedTo(m, k, Behind(g, e.from)))
  BY ONLY <1>2, <1>3, <1>4, e.key = None, e.custom = <<0, 0>>
<1> QED BY ONLY <1>5, <1>6, e.taken = 0, ~m DEF EntryRight

\* An entry after a reset.
Renewed(e, hmac) ==
  [Entry(e.algo, 0, hmac /\ e.junk) EXCEPT
     !.ctx = IF hmac /\ ~e.junk THEN e.inner ELSE CtxInit(e.algo),
     !.inner = e.inner, !.outer = e.outer]

\* Reset so, it is right for an empty stream.
LEMMA EntryRenews ==
  ASSUME NEW e, IsEntry(e), NEW m \in BOOLEAN, NEW k, m /\ ~e.junk => PadsRight(e, k)
  PROVE  LET w == Renewed(e, m)
         IN  /\ IsEntry(w) /\ w.algo = e.algo /\ w.custom = <<0, 0>>
             /\ ~w.junk => EntryRight(w, m, k, FALSE, FALSE, <<>>)
<1> DEFINE a == e.algo
           i == e.inner
           o == e.outer
           j == m /\ e.junk
           c == IF m /\ ~e.junk THEN i ELSE CtxInit(a)
           n == None
           u == <<0, 0>>
           w == Renewed(e, m)
<1>1. a \in Kinds /\ j \in BOOLEAN /\ e.junk \in BOOLEAN
  BY DEF IsEntry
<1>2. w = [Entry(a, 0, j) EXCEPT !.ctx = c, !.inner = i, !.outer = o]
  BY ONLY TRUE DEF Renewed
<1>3. w = [algo |-> a, ctx |-> c, inner |-> i, outer |-> o,
           from |-> 0, junk |-> j, key |-> n, custom |-> u, taken |-> 0]
  <2> DEFINE T == [algo : {a}, ctx : {c}, inner : {i}, outer : {o}, from : {0}, junk : {j},
                   key : {n}, custom : {u}, taken : {0}]
             d == CtxInit(a)
             v == Entry(a, 0, j)
  <2>1. v = [algo |-> a, ctx |-> d, inner |-> n, outer |-> n,
             from |-> 0, junk |-> j, key |-> n, custom |-> u, taken |-> 0]
    BY ONLY TRUE DEF Entry
  <2> HIDE DEF a, c, i, o, j, n, u, d, v
  <2>2. [v EXCEPT !.ctx = c, !.inner = i, !.outer = o] \in T
    BY ONLY <2>1
  <2>3. \A y \in T : y = [algo |-> a, ctx |-> c, inner |-> i, outer |-> o,
                          from |-> 0, junk |-> j, key |-> n, custom |-> u, taken |-> 0]
    BY ONLY TRUE
  <2> HIDE DEF T, w
  <2> QED BY ONLY <1>2, <2>2, <2>3 DEF v
<1> HIDE DEF a, c, i, o, j, n, u, w
<1>4. /\ w.algo = a /\ w.ctx = c /\ w.inner = i /\ w.outer = o /\ w.from = 0 /\ w.junk = j
      /\ w.key = n /\ w.custom = u /\ w.taken = 0
  BY ONLY <1>3
<1>5. IsEntry(w)
  BY ONLY <1>1, <1>3, <1>4 DEF IsEntry
<1>6. ASSUME ~w.junk PROVE EntryRight(w, m, k, FALSE, FALSE, <<>>)
  <2>1. CASE ~m
    <3>1. w.ctx = CtxInit(w.algo) /\ w.key = None /\ w.custom = <<0, 0>> /\ w.taken = 0
      BY ONLY <1>4, <2>1 DEF c, n, u
    <3>2. w.from = Len(<<>>) /\ IsSeq(<<>>)
      BY ONLY <1>4, EmptyIs
    <3> DEFINE no == FALSE
               g == <<>>
    <3> HIDE DEF no, g
    <3>3. EntryRight(w, m, k, FALSE, no, g)
      BY ONLY <1>5, <2>1, <3>1, <3>2, m \in BOOLEAN, EntryStarts DEF g
    <3> QED BY ONLY <3>3 DEF no, g
  <2>2. CASE m
    <3>1. ~e.junk /\ c = i
      BY ONLY <1>1, <1>4, <1>6, <2>2 DEF j, c
    <3>2. CtxHolds(a, None, <<0, 0>>, i, Pad("36", k)) /\ CtxHolds(a, None, <<0, 0>>, o, Pad("5c", k))
      BY <2>2, <3>1 DEF PadsRight, a, i, o
    <3>3. PadsRight(w, k) /\ w.key = None /\ w.custom = <<0, 0>>
      BY ONLY <1>4, <3>2 DEF PadsRight, n, u
    <3>4. FedTo(m, k, Behind(<<>>, 0)) = Pad("36", k)
      <4>1. Behind(<<>>, 0) = <<>>
        BY ONLY EmptyIs, FirstAll
      <4>2. Lead(m, k) = Pad("36", k) /\ IsSeq(Pad("36", k))
        BY ONLY <2>2, PadSeq DEF Lead
      <4> QED BY ONLY <4>1, <4>2, ConcatEmpty DEF FedTo
    <3>5. CtxHolds(w.algo, w.key, w.custom, w.ctx, FedTo(m, k, Behind(<<>>, w.from)))
      BY ONLY <1>4, <3>1, <3>2, <3>3, <3>4
    <3>6. w.from \in 0..Len(<<>>) /\ CustomOk(w.custom)
      BY <1>4, <3>3, EmptyIs DEF CustomOk
    <3> QED BY ONLY <1>4, <3>3, <3>5, <3>6 DEF EntryRight
  <2> QED BY <2>1, <2>2
<1>7. /\ IsEntry(w) /\ w.algo = e.algo /\ w.custom = <<0, 0>>
      /\ ~w.junk => EntryRight(w, m, k, FALSE, FALSE, <<>>)
  BY ONLY <1>4, <1>5, <1>6 DEF a, u
<1> QED BY ONLY <1>7 DEF w

\* An entry with its pads prepared.
PadsOf(e, key) ==
  [e EXCEPT !.inner = CtxWrite(e.algo, CtxInit(e.algo), Pad("36", key)),
            !.outer = CtxWrite(e.algo, CtxInit(e.algo), Pad("5c", key)),
            !.junk = FALSE]

\* The pads so prepared are those of the key.
LEMMA EntryPads ==
  ASSUME NEW e, IsEntry(e), NEW k
  PROVE  IsEntry(PadsOf(e, k)) /\ PadsRight(PadsOf(e, k), k)
<1> DEFINE a == e.algo
           i == CtxWrite(a, CtxInit(a), Pad("36", k))
           o == CtxWrite(a, CtxInit(a), Pad("5c", k))
           w == PadsOf(e, k)
           C == e.from
           D == e.key
           F == e.custom
           G == e.taken
           y == e.ctx
           A == e.inner
           B == e.outer
<1>1. e \in [algo : Kinds, ctx : {y}, inner : {A}, outer : {B}, from : {C}, junk : BOOLEAN,
             key : {D}, custom : {F}, taken : {G}]
  BY DEF IsEntry
<1>2. w = [e EXCEPT !.inner = i, !.outer = o, !.junk = FALSE]
  BY ONLY TRUE DEF PadsOf
<1>3. a \in Kinds
  BY DEF IsEntry
<1>4. CtxHolds(a, None, <<0, 0>>, i, Pad("36", k)) /\ CtxHolds(a, None, <<0, 0>>, o, Pad("5c", k))
  <2> DEFINE u == <<0, 0>>
             c == CtxInit(a)
  <2>1. CtxHolds(a, None, u, c, <<>>) /\ IsSeq(<<>>) /\ CustomOk(u)
    BY ONLY <1>3, CtxStarts, EmptyIs DEF CustomOk
  <2> HIDE DEF u, a, c
  <2>2. \A p : IsSeq(p) => CtxHolds(a, None, u, CtxWrite(a, c, p), <<>> \o p)
    BY ONLY <2>1, <1>3, CtxWrites
  <2>3. \A p : IsSeq(p) => CtxHolds(a, None, u, CtxWrite(a, c, p), p)
    <3>1. \A p : IsSeq(p) => <<>> \o p = p
      BY ONLY ConcatEmpty
    <3> QED BY ONLY <2>2, <3>1
  <2>4. IsSeq(Pad("36", k)) /\ IsSeq(Pad("5c", k))
    BY ONLY PadSeq
  <2> QED BY ONLY <2>3, <2>4 DEF u, c
<1> HIDE DEF i, o, w, y, A, B, C, D, F, G, a
<1>5. w \in [algo : Kinds, ctx : {y}, inner : {i}, outer : {o}, from : {C}, junk : BOOLEAN,
             key : {D}, custom : {F}, taken : {G}] /\ w.algo = e.algo
  BY ONLY <1>1, <1>2
<1>6. /\ w.ctx = y /\ w.inner = i /\ w.outer = o /\ w.from = C /\ w.key = D
      /\ w.custom = F /\ w.taken = G
  BY ONLY <1>5
<1>7. IsEntry(w)
  BY ONLY <1>5, <1>6 DEF IsEntry
<1>8. PadsRight(w, k)
  BY ONLY <1>4, <1>5, <1>6 DEF PadsRight, a
<1> QED BY ONLY <1>7, <1>8 DEF w
-----------------------------------------------------------------------------
(* Handles *)

\* The list after md_write, after the end, after a reset and with pads prepared.
WrittenList(l, b, t) ==
  [i \in 1..Len(l) |->
     IF l[i].junk THEN l[i]
     ELSE [l[i] EXCEPT !.ctx = CtxWrite(l[i].algo, CtxWrite(l[i].algo, l[i].ctx, b), t)]]
EndedList(l, hmac) ==
  [i \in 1..Len(l) |->
     [l[i] EXCEPT !.ctx = IF l[i].junk THEN l[i].ctx ELSE EndCtx(l[i], hmac)]]
RenewedList(l, hmac) == [i \in 1..Len(l) |-> Renewed(l[i], hmac)]
PadsList(l, key) == [i \in 1..Len(l) |-> PadsOf(l[i], key)]

\* The fields of a handle.
LEMMA HdIs ==
  ASSUME NEW m, NEW l, NEW b, NEW f, NEW w, NEW k, NEW p
  PROVE  LET h == Hd(m, l, b, f, w, k, p)
         IN  /\ h.hmac = m /\ h.list = l /\ h.buf = b /\ h.fin = f /\ h.wrote = w /\ h.key = k
             /\ h.spoiled = p
BY DEF Hd

\* md_write by fields.
LEMMA MdWriteIs ==
  ASSUME NEW m, NEW l, NEW b, NEW f, NEW w, NEW k, NEW p, NEW t
  PROVE  MdWrite(Hd(m, l, b, f, w, k, p), t) = Hd(m, WrittenList(l, b, t), <<>>, f, w, k, p)
<1> DEFINE h == Hd(m, l, b, f, w, k, p)
           x == WrittenList(l, b, t)
<1>1. h.list = l /\ h.buf = b
  BY ONLY HdIs
<1> HIDE DEF h
<1>2. MdWrite(h, t) = [h EXCEPT !.list = x, !.buf = <<>>]
  BY ONLY <1>1 DEF MdWrite, Each, WrittenList
<1> DEFINE z == <<>>
<1> HIDE DEF x, z
<1>3. [h EXCEPT !.list = x, !.buf = z] = Hd(m, x, z, f, w, k, p)
  <2> DEFINE T == [hmac : {m}, list : {x}, buf : {z}, fin : {f}, wrote : {w},
                   key : {k}, spoiled : {p}]
             y == [h EXCEPT !.list = x, !.buf = z]
  <2>1. y \in T
    BY ONLY TRUE DEF Hd, h
  <2>2. \A u \in T : u = Hd(m, x, z, f, w, k, p)
    BY ONLY TRUE DEF Hd
  <2> HIDE DEF T, y
  <2>3. y = Hd(m, x, z, f, w, k, p)
    BY ONLY <2>1, <2>2
  <2> QED BY ONLY <2>3 DEF y
<1> QED BY ONLY <1>2, <1>3 DEF h, x, z

\* _gcry_md_reset by fields.
LEMMA MdResetIs ==
  ASSUME NEW m, NEW l, NEW b, NEW f, NEW w, NEW k, NEW p
  PROVE  MdReset(Hd(m, l, b, f, w, k, p)) = Hd(m, RenewedList(l, m), <<>>, FALSE, <<>>, k, FALSE)
<1> DEFINE h == Hd(m, l, b, f, w, k, p)
           x == RenewedList(l, m)
           z == <<>>
           no == FALSE
<1>1. h.list = l /\ h.hmac = m
  BY ONLY HdIs
<1> HIDE DEF h
<1>2. MdReset(h) = [h EXCEPT !.fin = FALSE, !.buf = <<>>, !.wrote = <<>>, !.spoiled = FALSE,
                             !.list = x]
  BY ONLY <1>1 DEF MdReset, Each, RenewedList, Renewed
<1> HIDE DEF x, z, no
<1>3. [h EXCEPT !.fin = no, !.buf = z, !.wrote = z, !.spoiled = no, !.list = x]
        = Hd(m, x, z, no, z, k, no)
  <2> DEFINE T == [hmac : {m}, list : {x}, buf : {z}, fin : {no}, wrote : {z},
                   key : {k}, spoiled : {no}]
             y == [h EXCEPT !.fin = no, !.buf = z, !.wrote = z, !.spoiled = no, !.list = x]
  <2>1. y \in T
    BY ONLY TRUE DEF Hd, h
  <2>2. \A u \in T : u = Hd(m, x, z, no, z, k, no)
    BY ONLY TRUE DEF Hd
  <2> HIDE DEF T, y
  <2>3. y = Hd(m, x, z, no, z, k, no)
    BY ONLY <2>1, <2>2
  <2> QED BY ONLY <2>3 DEF y
<1> QED BY ONLY <1>2, <1>3 DEF h, x, z, no

\* The pads by fields.
LEMMA KeyedIs ==
  ASSUME NEW m, NEW l, NEW b, NEW f, NEW w, NEW k, NEW p, NEW key
  PROVE  Keyed(Hd(m, l, b, f, w, k, p), key) = Hd(m, PadsList(l, key), b, f, w, key, p)
<1> DEFINE h == Hd(m, l, b, f, w, k, p)
           x == PadsList(l, key)
<1>1. h.list = l
  BY ONLY HdIs
<1> HIDE DEF h
<1>2. Keyed(h, key) = [h EXCEPT !.key = key, !.list = x]
  BY ONLY <1>1 DEF Keyed, Each, PadsList, PadsOf
<1> HIDE DEF x
<1>3. [h EXCEPT !.key = key, !.list = x] = Hd(m, x, b, f, w, key, p)
  <2> DEFINE T == [hmac : {m}, list : {x}, buf : {b}, fin : {f}, wrote : {w},
                   key : {key}, spoiled : {p}]
             y == [h EXCEPT !.key = key, !.list = x]
  <2>1. y \in T
    BY ONLY TRUE DEF Hd, h
  <2>2. \A u \in T : u = Hd(m, x, b, f, w, key, p)
    BY ONLY TRUE DEF Hd
  <2> HIDE DEF T, y
  <2>3. y = Hd(m, x, b, f, w, key, p)
    BY ONLY <2>1, <2>2
  <2> QED BY ONLY <2>3 DEF y
<1> QED BY ONLY <1>2, <1>3 DEF h, x

\* What Fields says, but for the buffer.
LEMMA FieldsIs ==
  ASSUME NEW m, NEW l, NEW b, NEW f, NEW w, NEW k, NEW p, NEW g, Fields(m, l, b, f, w, k, p, g)
  PROVE  /\ m \in BOOLEAN /\ f \in BOOLEAN /\ p \in BOOLEAN /\ IsSeq(l) /\ IsSeq(b) /\ IsSeq(g)
         /\ Len(l) \in Nat /\ w = g \o b /\ IsSeq(w) /\ Entries(l, m, k, f, p, g)
<1>1. /\ m \in BOOLEAN /\ f \in BOOLEAN /\ p \in BOOLEAN /\ IsSeq(l) /\ IsSeq(b) /\ IsSeq(g)
      /\ w = g \o b /\ Entries(l, m, k, f, p, g)
  BY DEF Fields
<1>2. Len(l) \in Nat
  BY ONLY <1>1, IsSeqLen
<1>3. IsSeq(w)
  BY ONLY <1>1, ConcatIs
<1> QED BY ONLY <1>1, <1>2, <1>3

\* md_write keeps the entries right.
LEMMA WritesRight ==
  ASSUME NEW m \in BOOLEAN, NEW l, IsSeq(l), NEW k, NEW f, NEW p, NEW q, NEW g, IsSeq(g),
         Entries(l, m, k, f, p, g), NEW b, IsSeq(b), NEW t, IsSeq(t), ~f \/ q
  PROVE  LET x == WrittenList(l, b, t)
         IN  IsSeq(x) /\ Len(x) = Len(l) /\ Entries(x, m, k, f, q, (g \o b) \o t)
<1> DEFINE E(i) == [l[i] EXCEPT !.ctx = CtxWrite(l[i].algo, CtxWrite(l[i].algo, l[i].ctx, b), t)]
           X(i) == IF l[i].junk THEN l[i] ELSE E(i)
           x == [i \in 1..Len(l) |-> X(i)]
           g2 == (g \o b) \o t
<1>1. Len(l) \in Nat
  BY IsSeqLen
<1>2. IsSeq(x) /\ Len(x) = Len(l)
  <2> HIDE DEF X
  <2> QED BY ONLY <1>1, SeqFcn
<1>3. \A i \in 1..Len(l) : x[i] = X(i)
  <2> HIDE DEF X
  <2> QED BY ONLY TRUE
<1>4. ASSUME NEW i \in 1..Len(l)
      PROVE  IsEntry(X(i)) /\ (~X(i).junk => EntryRight(X(i), m, k, f, q, g2))
  <2>1. IsEntry(l[i]) /\ (~l[i].junk => EntryRight(l[i], m, k, f, p, g))
    BY DEF Entries
  <2>2. CASE l[i].junk
    <3>1. X(i) = l[i]
      BY ONLY <2>2
    <3> HIDE DEF X
    <3> QED BY ONLY <2>1, <2>2, <3>1
  <2>3. CASE ~l[i].junk
    <3>1. X(i) = E(i)
      BY ONLY <2>3
    <3> DEFINE e == l[i]
    <3>2. IsEntry(e) /\ EntryRight(e, m, k, f, p, g)
      BY ONLY <2>1, <2>3
    <3> HIDE DEF e
    <3> DEFINE c == CtxWrite(e.algo, CtxWrite(e.algo, e.ctx, b), t)
               y == [e EXCEPT !.ctx = c]
    <3>3. EntryRight(y, m, k, f, q, g2)
      BY ONLY <3>2, EntryWrites, m \in BOOLEAN, IsSeq(g), IsSeq(b), IsSeq(t), ~f \/ q
    <3>4. IsEntry(y)
      <4> HIDE DEF c
      <4> QED BY ONLY <3>2, WithCtx
    <3>5. E(i) = y
      BY ONLY TRUE DEF e
    <3> HIDE DEF X, E, y, g2
    <3> QED BY ONLY <3>1, <3>3, <3>4, <3>5
  <2> QED BY ONLY <2>2, <2>3
<1> HIDE DEF X, x, g2
<1>5. Entries(x, m, k, f, q, g2)
  BY ONLY <1>2, <1>3, <1>4 DEF Entries
<1> QED BY ONLY <1>2, <1>5 DEF x, X, E, g2, WrittenList

\* The buffer is written.
LEMMA FlushRight ==
  ASSUME NEW m, NEW l, NEW b, NEW f, NEW w, NEW k, NEW p, NEW g, Fields(m, l, b, f, w, k, p, g)
  PROVE  \E l2 : /\ Flushed(Hd(m, l, b, f, w, k, p)) = Hd(m, l2, <<>>, f, w, k, p)
                 /\ Fields(m, l2, <<>>, f, w, k, p, w) /\ Len(l2) = Len(l)
<1> DEFINE h == Hd(m, l, b, f, w, k, p)
<1>1. /\ m \in BOOLEAN /\ f \in BOOLEAN /\ p \in BOOLEAN /\ IsSeq(l) /\ IsSeq(b) /\ IsSeq(g)
      /\ Len(l) \in Nat /\ w = g \o b /\ IsSeq(w) /\ Entries(l, m, k, f, p, g)
  BY ONLY Fields(m, l, b, f, w, k, p, g), FieldsIs
<1>2. (p => f) /\ (f /\ ~p => b = <<>>) /\ h.buf = b
  BY DEF Fields, Hd
<1>3. w \o <<>> = w /\ g \o <<>> = g
  BY ONLY <1>1, ConcatEmpty
<1>4. CASE b = <<>>
  <2>1. Flushed(h) = h
    BY ONLY <1>2, <1>4 DEF Flushed
  <2>2. w = g
    BY ONLY <1>1, <1>3, <1>4
  <2>3. Flushed(h) = Hd(m, l, <<>>, f, w, k, p)
    BY ONLY <2>1, <1>4
  <2>4. Fields(m, l, <<>>, f, w, k, p, w)
    BY ONLY <2>2, <1>4, Fields(m, l, b, f, w, k, p, g)
  <2> QED BY ONLY <2>3, <2>4
<1>5. CASE b # <<>>
  <2> DEFINE x == WrittenList(l, b, <<>>)
             z == <<>>
  <2>0. IsSeq(z) /\ (~f \/ p)
    BY ONLY <1>2, <1>5, EmptyIs
  <2>1. Flushed(h) = MdWrite(h, <<>>)
    BY ONLY <1>2, <1>5 DEF Flushed
  <2>2. MdWrite(h, <<>>) = Hd(m, x, <<>>, f, w, k, p)
    BY ONLY MdWriteIs
  <2>3. IsSeq(x) /\ Len(x) = Len(l) /\ Entries(x, m, k, f, p, (g \o b) \o z)
    <3> HIDE DEF z
    <3> DEFINE y == WrittenList(l, b, z)
    <3>1. IsSeq(y) /\ Len(y) = Len(l) /\ Entries(y, m, k, f, p, (g \o b) \o z)
      BY ONLY <1>1, <2>0, WritesRight
    <3> QED BY ONLY <3>1 DEF z
  <2>4. (g \o b) \o z = w
    BY ONLY <1>1, <1>3
  <2> HIDE DEF x, h
  <2>5. Fields(m, x, <<>>, f, w, k, p, w)
    BY ONLY <1>1, <1>2, <1>3, <2>0, <2>3, <2>4 DEF Fields, z
  <2> QED BY ONLY <2>1, <2>2, <2>3, <2>5 DEF h
<1> QED BY ONLY <1>4, <1>5

\* The flag of a handle that is at its end, and of one without writes behind it.
Ended == TRUE
Unspoiled == FALSE

\* md_final
LEMMA FinalRight ==
  ASSUME NEW m, NEW l, NEW b, NEW f, NEW w, NEW k, NEW p, NEW g, Fields(m, l, b, f, w, k, p, g),
         p = Unspoiled
  PROVE  \E l2 : /\ MdFinal(Hd(m, l, b, f, w, k, p)) = Hd(m, l2, <<>>, Ended, w, k, p)
                 /\ Fields(m, l2, <<>>, Ended, w, k, p, w) /\ Len(l2) = Len(l)
<1> DEFINE h == Hd(m, l, b, f, w, k, p)
<1>0. p = FALSE
  BY DEF Unspoiled
<1>1. /\ m \in BOOLEAN /\ f \in BOOLEAN /\ p \in BOOLEAN /\ IsSeq(l) /\ IsSeq(b) /\ IsSeq(g)
      /\ Len(l) \in Nat /\ w = g \o b /\ IsSeq(w) /\ Entries(l, m, k, f, p, g)
  BY ONLY Fields(m, l, b, f, w, k, p, g), FieldsIs
<1>2. (f => b = <<>>) /\ h.fin = f /\ h.buf = b
  BY <1>0 DEF Fields, Hd
<1>3. PICK l2 : /\ Flushed(Hd(m, l, b, f, w, k, p)) = Hd(m, l2, <<>>, f, w, k, p)
                /\ Fields(m, l2, <<>>, f, w, k, p, w) /\ Len(l2) = Len(l)
  BY ONLY Fields(m, l, b, f, w, k, p, g), FlushRight
<1>4. CASE f
  <2>1. MdFinal(h) = h /\ Flushed(h) = h
    BY ONLY <1>2, <1>4 DEF MdFinal, Flushed
  <2>2. f = TRUE
    BY ONLY <1>4, <1>1
  <2> HIDE DEF h
  <2>3. MdFinal(h) = Hd(m, l2, <<>>, f, w, k, p)
    BY ONLY <2>1, <1>3 DEF h
  <2> QED BY ONLY <2>2, <2>3, <1>3 DEF h, Ended
<1>5. CASE ~f
  <2> DEFINE x == EndedList(l2, m)
             E(i) == EndCtx(l2[i], m)
             X(i) == [l2[i] EXCEPT !.ctx = IF l2[i].junk THEN l2[i].ctx ELSE E(i)]
             y == [i \in 1..Len(l2) |-> X(i)]
             yes == TRUE
             z == <<>>
  <2>0. f = FALSE /\ p = FALSE
    BY ONLY <1>5, <1>1, <1>0
  <2>1. MdFinal(h) = Hd(m, x, <<>>, TRUE, w, k, p)
    <3> DEFINE fl == Hd(m, l2, z, f, w, k, p)
    <3>1. h.fin = f /\ h.hmac = m /\ fl.list = l2 /\ Flushed(h) = fl
      <4>1. h.fin = f /\ h.hmac = m /\ fl.list = l2
        BY ONLY TRUE DEF Hd
      <4> QED BY ONLY <4>1, <1>3
    <3> HIDE DEF h, fl
    <3>2. MdFinal(h) = [fl EXCEPT !.fin = TRUE, !.list = x]
      BY ONLY <3>1, <1>5 DEF MdFinal, Each, EndedList, EndCtx
    <3> HIDE DEF x, z, yes
    <3>3. [fl EXCEPT !.fin = yes, !.list = x] = Hd(m, x, z, yes, w, k, p)
      <4> DEFINE T == [hmac : {m}, list : {x}, buf : {z}, fin : {yes}, wrote : {w},
                       key : {k}, spoiled : {p}]
                 en == [fl EXCEPT !.fin = yes, !.list = x]
      <4>1. en \in T
        BY ONLY TRUE DEF Hd, fl
      <4>2. \A u \in T : u = Hd(m, x, z, yes, w, k, p)
        BY ONLY TRUE DEF Hd
      <4> HIDE DEF T, en
      <4>3. en = Hd(m, x, z, yes, w, k, p)
        BY ONLY <4>1, <4>2
      <4> QED BY ONLY <4>3 DEF en
    <3> QED BY ONLY <3>2, <3>3 DEF h, x, z, yes
  <2>2. IsSeq(l2) /\ Len(l2) \in Nat /\ Entries(l2, m, k, f, p, w)
    BY ONLY <1>3, FieldsIs
  <2>3. IsSeq(y) /\ Len(y) = Len(l2)
    <3> HIDE DEF X
    <3> QED BY ONLY <2>2, SeqFcn
  <2>4. \A i \in 1..Len(l2) : y[i] = X(i)
    <3> HIDE DEF X
    <3> QED BY ONLY TRUE
  <2>5. ASSUME NEW i \in 1..Len(l2)
        PROVE  IsEntry(X(i)) /\ (~X(i).junk => EntryRight(X(i), m, k, TRUE, FALSE, w))
    <3> DEFINE e == l2[i]
    <3>1. IsEntry(e) /\ (~e.junk => EntryRight(e, m, k, FALSE, p, w))
      BY ONLY <2>2, <2>0 DEF Entries
    <3> DEFINE c == IF e.junk THEN e.ctx ELSE EndCtx(e, m)
               v == [e EXCEPT !.ctx = c]
    <3>2. X(i) = v
      BY ONLY TRUE
    <3> HIDE DEF e
    <3>3. IsEntry(v) /\ v.junk = e.junk
      <4> HIDE DEF c
      <4> QED BY ONLY <3>1, WithCtx
    <3>4. ASSUME ~e.junk PROVE EntryRight(v, m, k, TRUE, FALSE, w)
      <4>1. c = EndCtx(e, m)
        BY ONLY <3>4
      <4>2. EntryRight(e, m, k, FALSE, p, w)
        BY ONLY <3>1, <3>4
      <4>3. EntryRight([e EXCEPT !.ctx = EndCtx(e, m)], m, k, TRUE, FALSE, w)
        BY ONLY <3>1, <4>2, <1>1, EntryEnds
      <4> HIDE DEF c
      <4> QED BY ONLY <4>1, <4>3
    <3> HIDE DEF X, v
    <3> QED BY ONLY <3>2, <3>3, <3>4
  <2> HIDE DEF X, y
  <2>6. Entries(y, m, k, TRUE, FALSE, w)
    BY ONLY <2>3, <2>4, <2>5 DEF Entries
  <2>7. x = y
    BY ONLY TRUE DEF EndedList, y, X, E
  <2>8. IsSeq(<<>>) /\ w \o <<>> = w
    BY ONLY <1>1, EmptyIs, ConcatEmpty
  <2> HIDE DEF x, h
  <2>9. Fields(m, x, <<>>, TRUE, w, k, p, w)
    BY ONLY <1>1, <2>0, <2>3, <2>6, <2>7, <2>8 DEF Fields
  <2>10. Len(x) = Len(l)
    BY ONLY <2>3, <2>7, <1>3
  <2> QED BY ONLY <2>1, <2>9, <2>10 DEF h, Ended
<1> QED BY ONLY <1>4, <1>5

\* _gcry_md_reset: of an HMAC entry only the pads are needed.
LEMMA ResetRight ==
  ASSUME NEW m \in BOOLEAN, NEW l, IsSeq(l), NEW k,
         \A i \in 1..Len(l) : IsEntry(l[i]) /\ (m /\ ~l[i].junk => PadsRight(l[i], k))
  PROVE  /\ Fields(m, RenewedList(l, m), <<>>, FALSE, <<>>, k, FALSE, <<>>)
         /\ Len(RenewedList(l, m)) = Len(l)
         /\ \A i \in 1..Len(l) : RenewedList(l, m)[i].algo = l[i].algo
<1> DEFINE X(i) == Renewed(l[i], m)
           x == [i \in 1..Len(l) |-> X(i)]
<1>1. Len(l) \in Nat
  BY IsSeqLen
<1>2. IsSeq(x) /\ Len(x) = Len(l)
  <2> HIDE DEF X
  <2> QED BY ONLY <1>1, SeqFcn
<1>3. \A i \in 1..Len(l) : x[i] = X(i)
  <2> HIDE DEF X
  <2> QED BY ONLY TRUE
<1>4. ASSUME NEW i \in 1..Len(l)
      PROVE  /\ IsEntry(X(i)) /\ (~X(i).junk => EntryRight(X(i), m, k, FALSE, FALSE, <<>>))
             /\ X(i).algo = l[i].algo
  <2> DEFINE e == l[i]
  <2>1. IsEntry(e) /\ (m /\ ~e.junk => PadsRight(e, k))
    OBVIOUS
  <2> HIDE DEF e
  <2>2. /\ IsEntry(Renewed(e, m)) /\ Renewed(e, m).algo = e.algo
        /\ ~Renewed(e, m).junk => EntryRight(Renewed(e, m), m, k, FALSE, FALSE, <<>>)
    BY ONLY <2>1, EntryRenews, m \in BOOLEAN
  <2> QED BY ONLY <2>2 DEF e
<1> HIDE DEF X, x
<1>5. Entries(x, m, k, FALSE, FALSE, <<>>)
  BY ONLY <1>2, <1>3, <1>4 DEF Entries
<1>6. IsSeq(<<>>) /\ <<>> \o <<>> = <<>>
  BY ONLY EmptyIs, ConcatEmpty
<1>7. Fields(m, x, <<>>, FALSE, <<>>, k, FALSE, <<>>)
  BY ONLY <1>2, <1>5, <1>6, m \in BOOLEAN DEF Fields
<1>8. \A i \in 1..Len(l) : x[i].algo = l[i].algo
  BY ONLY <1>3, <1>4
<1>9. x = RenewedList(l, m)
  BY ONLY TRUE DEF RenewedList, x, X
<1> QED BY ONLY <1>2, <1>7, <1>8, <1>9
-----------------------------------------------------------------------------
(* The calls *)

\* A handle made of right fields is in order.
LEMMA Made ==
  ASSUME NEW m, NEW l, NEW b, NEW f, NEW w, NEW k, NEW p, NEW g, Fields(m, l, b, f, w, k, p, g),
         NEW h, h = Hd(m, l, b, f, w, k, p)
  PROVE  HandleRight(h)
<1>1. /\ h.hmac = m /\ h.list = l /\ h.buf = b /\ h.fin = f /\ h.wrote = w /\ h.key = k
      /\ h.spoiled = p
  BY DEF Hd
<1> QED BY ONLY <1>1, Fields(m, l, b, f, w, k, p, g), h = Hd(m, l, b, f, w, k, p) DEF HandleRight

\* Once more is written after the end nothing is claimed of the results.
LEMMA Spoils ==
  ASSUME NEW m, NEW l, NEW k, NEW f, NEW p, NEW g, Entries(l, m, k, f, p, g)
  PROVE  Entries(l, m, k, f, f, g)
<1>1. ASSUME NEW e, EntryRight(e, m, k, f, p, g) PROVE EntryRight(e, m, k, f, f, g)
  BY <1>1 DEF EntryRight
<1> QED BY <1>1 DEF Entries

\* The bytes of a call.
LEMMA FreshIs ==
  ASSUME NEW n \in Nat
  PROVE  IsSeq(Fresh(n)) /\ Len(Fresh(n)) = n
BY SeqFcn DEF Fresh

\* More is written: bytes t behind w, handle h having taken in g2.
LEMMA Adds ==
  ASSUME NEW m \in BOOLEAN, NEW x, IsSeq(x), NEW b, IsSeq(b), NEW f \in BOOLEAN, NEW w, NEW k,
         NEW g, IsSeq(g), w = g \o b, Entries(x, m, k, f, f, g)
  PROVE  Fields(m, x, b, f, w, k, f, g)
<1>1. {m, f, f} \subseteq BOOLEAN
  OBVIOUS
<1> QED BY ONLY <1>1, IsSeq(x), IsSeq(b), IsSeq(g), w = g \o b, Entries(x, m, k, f, f, g) DEF Fields

\* gcry_md_write
LEMMA WriteKeeps ==
  ASSUME HandleRight(hd), NEW n \in Chunks, Write(n)
  PROVE  HandleRight(hd')
<1> DEFINE m == hd.hmac
           l == hd.list
           b == hd.buf
           f == hd.fin
           w == hd.wrote
           k == hd.key
           p == hd.spoiled
           t == Fresh(n)
           x == WrittenList(l, b, t)
           z == <<>>
           w2 == w \o t
<1>1. hd = Hd(m, l, b, f, w, k, p)
  BY DEF HandleRight
<1>2. PICK g : Fields(m, l, b, f, w, k, p, g)
  BY DEF HandleRight
<1>3. hd' = [MdWrite(hd, t) EXCEPT !.wrote = @ \o t, !.spoiled = f]
  BY DEF Write
<1>4. n \in Nat
  BY HandleAssumption
<1> HIDE DEF m, l, b, f, w, k, p, t
<1>5. IsSeq(t)
  BY ONLY <1>4, FreshIs DEF t
<1>6. /\ m \in BOOLEAN /\ f \in BOOLEAN /\ p \in BOOLEAN /\ IsSeq(l) /\ IsSeq(b) /\ IsSeq(g)
      /\ Len(l) \in Nat /\ w = g \o b /\ IsSeq(w) /\ Entries(l, m, k, f, p, g)
  BY ONLY <1>2, FieldsIs
<1>7. MdWrite(hd, t) = Hd(m, x, z, f, w, k, p)
  BY ONLY <1>1, MdWriteIs
<1>8. IsSeq(x) /\ Entries(x, m, k, f, f, w2)
  <2>1. Entries(x, m, k, f, f, (g \o b) \o t) /\ IsSeq(x)
    <3>1. ~f \/ f
      OBVIOUS
    <3> QED BY ONLY <1>5, <1>6, <3>1, WritesRight
  <2> QED BY ONLY <2>1, <1>6
<1> HIDE DEF x, z
<1>9. hd' = Hd(m, x, z, f, w2, k, f)
  <2> DEFINE y == MdWrite(hd, t)
             T == [hmac : {m}, list : {x}, buf : {z}, fin : {f}, wrote : {w2},
                   key : {k}, spoiled : {f}]
             v == [y EXCEPT !.wrote = w2, !.spoiled = f]
  <2>0. y = Hd(m, x, z, f, w, k, p) /\ hd' = [y EXCEPT !.wrote = @ \o t, !.spoiled = f]
    BY ONLY <1>3, <1>7
  <2> HIDE DEF y
  <2>1. y.wrote = w
    BY ONLY <2>0 DEF Hd
  <2>2. hd' = v
    BY ONLY <2>0, <2>1
  <2> HIDE DEF w2
  <2>3. v \in T
    BY ONLY <2>0 DEF Hd
  <2>4. \A u \in T : u = Hd(m, x, z, f, w2, k, f)
    BY ONLY TRUE DEF Hd
  <2> HIDE DEF T, v
  <2> QED BY ONLY <2>2, <2>3, <2>4
<1>10. IsSeq(w2) /\ IsSeq(z) /\ w2 = w2 \o z
  <2>1. IsSeq(w2)
    BY ONLY <1>5, <1>6, ConcatIs
  <2> HIDE DEF w2
  <2> QED BY ONLY <2>1, EmptyIs, ConcatEmpty DEF z
<1> HIDE DEF w2
<1>11. Fields(m, x, z, f, w2, k, f, w2)
  BY ONLY <1>6, <1>8, <1>10, Adds
<1> QED BY ONLY <1>9, <1>11, Made

\* gcry_md_putc
LEMMA PutcKeeps ==
  ASSUME HandleRight(hd), Putc
  PROVE  HandleRight(hd')
<1> DEFINE m == hd.hmac
           l == hd.list
           b == hd.buf
           f == hd.fin
           w == hd.wrote
           k == hd.key
           p == hd.spoiled
           t == Fresh(1)
           h == IF Len(hd.buf) = BufSize THEN MdWrite(hd, <<>>) ELSE hd
           w2 == w \o t
<1>1. hd = Hd(m, l, b, f, w, k, p)
  BY DEF HandleRight
<1>2. PICK g : Fields(m, l, b, f, w, k, p, g)
  BY DEF HandleRight
<1>3. hd' = [h EXCEPT !.buf = @ \o t, !.wrote = @ \o t, !.spoiled = f]
  BY DEF Putc
<1> HIDE DEF m, l, b, f, w, k, p, t
<1>5. IsSeq(t)
  BY ONLY 1 \in Nat, FreshIs DEF t
<1>6. /\ m \in BOOLEAN /\ f \in BOOLEAN /\ p \in BOOLEAN /\ IsSeq(l) /\ IsSeq(b) /\ IsSeq(g)
      /\ Len(l) \in Nat /\ w = g \o b /\ IsSeq(w) /\ Entries(l, m, k, f, p, g)
  BY ONLY <1>2, FieldsIs
<1>7. \E x, b2, g2 : /\ h = Hd(m, x, b2, f, w, k, p) /\ IsSeq(x) /\ IsSeq(b2) /\ IsSeq(g2)
                     /\ w = g2 \o b2 /\ Entries(x, m, k, f, f, g2)
  <2>1. CASE Len(hd.buf) = BufSize
    <3> DEFINE z == <<>>
               x == WrittenList(l, b, z)
    <3>1. h = MdWrite(hd, z)
      BY ONLY <2>1
    <3>2. IsSeq(z) /\ w \o z = w
      BY ONLY <1>6, EmptyIs, ConcatEmpty
    <3>3. MdWrite(hd, z) = Hd(m, x, <<>>, f, w, k, p)
      <4> HIDE DEF z
      <4> QED BY ONLY <1>1, MdWriteIs
    <3>4. Entries(x, m, k, f, f, (g \o b) \o z) /\ IsSeq(x)
      <4>1. ~f \/ f
        OBVIOUS
      <4> HIDE DEF z
      <4> QED BY ONLY <1>6, <3>2, <4>1, WritesRight
    <3>5. (g \o b) \o z = w
      BY ONLY <1>6, <3>2
    <3> HIDE DEF h, x
    <3>6. h = Hd(m, x, z, f, w, k, p)
      BY ONLY <3>1, <3>3
    <3> HIDE DEF z
    <3>7. Entries(x, m, k, f, f, w)
      BY ONLY <3>4, <3>5
    <3> QED BY ONLY <3>2, <3>4, <3>6, <3>7, <1>6
  <2>2. CASE Len(hd.buf) # BufSize
    <3>1. h = Hd(m, l, b, f, w, k, p)
      BY ONLY <2>2, <1>1
    <3>2. Entries(l, m, k, f, f, g)
      BY ONLY <1>6, Spoils
    <3> HIDE DEF h
    <3> QED BY ONLY <3>1, <3>2, <1>6
  <2> QED BY ONLY <2>1, <2>2
<1> HIDE DEF h
<1>8. PICK x, b2, g2 : /\ h = Hd(m, x, b2, f, w, k, p) /\ IsSeq(x) /\ IsSeq(b2) /\ IsSeq(g2)
                       /\ w = g2 \o b2 /\ Entries(x, m, k, f, f, g2)
  BY ONLY <1>7
<1> DEFINE c == b2 \o t
<1>9. hd' = Hd(m, x, c, f, w2, k, f)
  <2> DEFINE T == [hmac : {m}, list : {x}, buf : {c}, fin : {f}, wrote : {w2},
                   key : {k}, spoiled : {f}]
             v == [h EXCEPT !.buf = c, !.wrote = w2, !.spoiled = f]
  <2>1. h.wrote = w /\ h.buf = b2
    BY ONLY <1>8 DEF Hd
  <2>2. hd' = v
    BY ONLY <1>3, <2>1
  <2> HIDE DEF w2, c
  <2>3. v \in T
    BY ONLY <1>8 DEF Hd
  <2>4. \A u \in T : u = Hd(m, x, c, f, w2, k, f)
    BY ONLY TRUE DEF Hd
  <2> HIDE DEF T, v
  <2> QED BY ONLY <2>2, <2>3, <2>4
<1>10. IsSeq(c) /\ w2 = g2 \o c
  <2>1. IsSeq(c)
    BY ONLY <1>5, <1>8, ConcatIs
  <2>2. (g2 \o b2) \o t = g2 \o (b2 \o t)
    BY ONLY <1>5, <1>8, ConcatAssoc
  <2> QED BY ONLY <2>1, <2>2, <1>8
<1> HIDE DEF w2, c
<1>11. Fields(m, x, c, f, w2, k, f, g2)
  BY ONLY <1>6, <1>8, <1>10, Adds
<1> QED BY ONLY <1>9, <1>11, Made

\* gcry_md_reset
LEMMA ResetKeeps ==
  ASSUME NEW h, HandleRight(h)
  PROVE  HandleRight(MdReset(h))
<1> DEFINE m == h.hmac
           l == h.list
           b == h.buf
           f == h.fin
           w == h.wrote
           k == h.key
           p == h.spoiled
           x == RenewedList(l, m)
           z == <<>>
           no == FALSE
<1>1. h = Hd(m, l, b, f, w, k, p)
  BY DEF HandleRight
<1>2. PICK g : Fields(m, l, b, f, w, k, p, g)
  BY DEF HandleRight
<1> HIDE DEF m, l, b, f, w, k, p
<1>3. /\ m \in BOOLEAN /\ IsSeq(l) /\ Entries(l, m, k, f, p, g)
  BY ONLY <1>2, FieldsIs
<1>4. \A i \in 1..Len(l) : IsEntry(l[i]) /\ (m /\ ~l[i].junk => PadsRight(l[i], k))
  BY ONLY <1>3 DEF Entries, EntryRight
<1>5. Fields(m, x, z, no, z, k, no, z)
  BY ONLY <1>3, <1>4, ResetRight
<1>6. MdReset(h) = Hd(m, x, z, no, z, k, no)
  BY ONLY <1>1, MdResetIs, ZenonT(60)
<1> HIDE DEF x, z, no
<1> QED BY ONLY <1>5, <1>6, Made

\* gcry_md_copy
LEMMA CopyKeeps ==
  ASSUME HandleRight(hd), Copy
  PROVE  HandleRight(hd')
<1> DEFINE m == hd.hmac
           l == hd.list
           b == hd.buf
           f == hd.fin
           w == hd.wrote
           k == hd.key
           p == hd.spoiled
           z == <<>>
<1>1. hd = Hd(m, l, b, f, w, k, p)
  BY DEF HandleRight
<1>2. PICK g : Fields(m, l, b, f, w, k, p, g)
  BY DEF HandleRight
<1> HIDE DEF m, l, b, f, w, k, p
<1>3. PICK l2 : Flushed(hd) = Hd(m, l2, z, f, w, k, p) /\ Fields(m, l2, z, f, w, k, p, w)
  BY ONLY <1>1, <1>2, FlushRight
<1> HIDE DEF z
<1>4. CASE hd' = Flushed(hd)
  BY ONLY <1>3, <1>4, Made
<1>5. CASE hd' = [Flushed(hd) EXCEPT !.list = Reverse(@)]
  <2> DEFINE x == Reverse(l2)
  <2>1. IsSeq(l2) /\ Len(l2) \in Nat /\ Entries(l2, m, k, f, p, w)
    BY ONLY <1>3, FieldsIs
  <2>2. /\ IsSeq(x) /\ Len(x) = Len(l2)
        /\ \A i \in 1..Len(l2) : x[i] = l2[(Len(l2) - i) + 1]
    BY <2>1, SeqFcn DEF Reverse
  <2> HIDE DEF x
  <2>3. \A i \in 1..Len(l2) : (Len(l2) - i) + 1 \in 1..Len(l2)
    BY ONLY <2>1
  <2>4. Entries(x, m, k, f, p, w)
    BY ONLY <2>1, <2>2, <2>3 DEF Entries
  <2>5. Fields(m, x, z, f, w, k, p, w)
    BY ONLY <1>3, <2>2, <2>4 DEF Fields
  <2>6. hd' = Hd(m, x, z, f, w, k, p)
    <3> DEFINE y == Flushed(hd)
               T == [hmac : {m}, list : {x}, buf : {z}, fin : {f}, wrote : {w},
                     key : {k}, spoiled : {p}]
               v == [y EXCEPT !.list = x]
    <3>1. y = Hd(m, l2, z, f, w, k, p) /\ hd' = [y EXCEPT !.list = Reverse(@)]
      BY ONLY <1>3, <1>5
    <3> HIDE DEF y
    <3>2. y.list = l2
      BY ONLY <3>1 DEF Hd
    <3>3. hd' = v
      BY ONLY <3>1, <3>2 DEF x
    <3>4. v \in T
      BY ONLY <3>1 DEF Hd
    <3>5. \A u \in T : u = Hd(m, x, z, f, w, k, p)
      BY ONLY TRUE DEF Hd
    <3> HIDE DEF T, v
    <3> QED BY ONLY <3>3, <3>4, <3>5
  <2> QED BY ONLY <2>5, <2>6, Made
<1> QED BY <1>4, <1>5 DEF Copy

\* gcry_md_enable
LEMMA EnableKeeps ==
  ASSUME HandleRight(hd), NEW algo \in Algos, Enable(algo)
  PROVE  HandleRight(hd')
<1> DEFINE m == hd.hmac
           l == hd.list
           b == hd.buf
           f == hd.fin
           w == hd.wrote
           k == hd.key
           p == hd.spoiled
           j == m \/ f \/ b # <<>>
           e == Entry(algo, Len(w), j)
           x == <<e>> \o l
<1>1. hd = Hd(m, l, b, f, w, k, p)
  BY DEF HandleRight
<1>2. PICK g : Fields(m, l, b, f, w, k, p, g)
  BY DEF HandleRight
<1>3. hd' = [hd EXCEPT !.list = <<e>> \o @]
  BY DEF Enable
<1>4. algo \in Kinds
  BY HandleAssumption DEF Kinds
<1> HIDE DEF m, l, b, f, w, k, p
<1>5. /\ m \in BOOLEAN /\ f \in BOOLEAN /\ p \in BOOLEAN /\ IsSeq(l) /\ IsSeq(b) /\ IsSeq(g)
      /\ Len(l) \in Nat /\ w = g \o b /\ IsSeq(w) /\ Entries(l, m, k, f, p, g)
  BY ONLY <1>2, FieldsIs
<1>6. j \in BOOLEAN
  BY ONLY TRUE
<1>7. /\ IsEntry(e) /\ e.algo = algo /\ e.ctx = CtxInit(algo) /\ e.from = Len(w) /\ e.junk = j
      /\ e.key = None /\ e.custom = <<0, 0>> /\ e.taken = 0
  <2> HIDE DEF j
  <2> QED BY ONLY <1>4, <1>6, EntryIs
<1> HIDE DEF e
<1>8. ASSUME ~e.junk PROVE EntryRight(e, m, k, f, p, g)
  <2>1. ~m /\ ~f /\ b = <<>>
    BY ONLY <1>7, <1>8
  <2>2. w = g
    BY ONLY <2>1, <1>5, ConcatEmpty
  <2>3. e.ctx = CtxInit(e.algo) /\ e.from = Len(g)
    BY ONLY <1>7, <2>2
  <2>4. EntryRight(e, m, k, FALSE, p, g)
    BY ONLY <1>5, <1>7, <2>1, <2>3, EntryStarts
  <2>5. f = FALSE
    BY ONLY <2>1, <1>5
  <2> QED BY ONLY <2>4, <2>5
<1>9. /\ IsSeq(x) /\ Len(x) = 1 + Len(l)
      /\ \A i \in 1..(1 + Len(l)) : x[i] = IF i <= 1 THEN <<e>>[i] ELSE l[i - 1]
  <2> DEFINE y == <<e>>
  <2>1. IsSeq(y) /\ Len(y) = 1
    BY ONLY AppendIs, EmptyIs
  <2> HIDE DEF y
  <2>2. /\ IsSeq(y \o l) /\ Len(y \o l) = Len(y) + Len(l)
        /\ \A i \in 1..(Len(y) + Len(l)) : (y \o l)[i] = IF i <= Len(y) THEN y[i] ELSE l[i - Len(y)]
    BY ONLY <2>1, <1>5, ConcatIs
  <2> QED BY ONLY <2>1, <2>2 DEF y
<1> HIDE DEF x
<1>10. Entries(x, m, k, f, p, g)
  <2>1. ASSUME NEW i \in 1..Len(x)
        PROVE  IsEntry(x[i]) /\ (~x[i].junk => EntryRight(x[i], m, k, f, p, g))
    <3>1. CASE i = 1
      <4>1. x[i] = e
        BY <1>9, <2>1, <3>1
      <4> QED BY ONLY <4>1, <1>7, <1>8
    <3>2. CASE i # 1
      <4>1. x[i] = l[i - 1] /\ i - 1 \in 1..Len(l)
        BY <1>5, <1>9, <2>1, <3>2
      <4> QED BY ONLY <4>1, <1>5 DEF Entries
    <3> QED BY ONLY <3>1, <3>2
  <2> QED BY ONLY <2>1 DEF Entries
<1>11. Fields(m, x, b, f, w, k, p, g)
  BY ONLY <1>2, <1>9, <1>10 DEF Fields
<1>12. hd' = Hd(m, x, b, f, w, k, p)
  <2> DEFINE T == [hmac : {m}, list : {x}, buf : {b}, fin : {f}, wrote : {w},
                   key : {k}, spoiled : {p}]
             v == [hd EXCEPT !.list = x]
  <2>1. hd.list = l
    BY ONLY <1>1 DEF Hd
  <2>2. hd' = v
    BY ONLY <1>3, <2>1 DEF x
  <2>3. v \in T
    BY ONLY <1>1 DEF Hd
  <2>4. \A u \in T : u = Hd(m, x, b, f, w, k, p)
    BY ONLY TRUE DEF Hd
  <2> HIDE DEF T, v
  <2> QED BY ONLY <2>2, <2>3, <2>4
<1> QED BY ONLY <1>11, <1>12, Made

\* Keyed BLAKE2 on every entry of a handle that has just been reset.
BlakeKeyList(l, key) ==
  [i \in 1..Len(l) |-> [l[i] EXCEPT !.ctx = BlakeInit(key), !.key = key]]

\* Keyed so, every entry is right.
LEMMA BlakeList ==
  ASSUME NEW l, IsSeq(l), NEW m \in BOOLEAN, ~m, NEW k, NEW key, NEW f, ~f, NEW p,
         NEW g, g = <<>>, Entries(l, m, k, f, p, g), \A i \in 1..Len(l) : l[i].algo = "blake"
  PROVE  IsSeq(BlakeKeyList(l, key)) /\ Entries(BlakeKeyList(l, key), m, k, f, p, g)
<1> DEFINE X(i) == [l[i] EXCEPT !.ctx = BlakeInit(key), !.key = key]
           x == [i \in 1..Len(l) |-> X(i)]
<1>1. Len(l) \in Nat
  BY IsSeqLen
<1>2. IsSeq(x) /\ Len(x) = Len(l)
  <2> HIDE DEF X
  <2> QED BY ONLY <1>1, SeqFcn
<1>3. \A i \in 1..Len(l) : x[i] = X(i)
  <2> HIDE DEF X
  <2> QED BY ONLY TRUE
<1>4. ASSUME NEW i \in 1..Len(l)
      PROVE  IsEntry(X(i)) /\ (~X(i).junk => EntryRight(X(i), m, k, f, p, g))
  <2> DEFINE e == l[i]
             c == BlakeInit(key)
             A == e.inner
             B == e.outer
             C == e.from
             D == e.key
             F == e.custom
             G == e.taken
             y == e.ctx
             w == [e EXCEPT !.ctx = c, !.key = key]
  <2>1. /\ IsEntry(e) /\ (~e.junk => EntryRight(e, m, k, f, p, g))
        /\ e.algo = "blake"
    BY DEF Entries
  <2> HIDE DEF e, c
  <2>2. e \in [algo : Kinds, ctx : {y}, inner : {A}, outer : {B}, from : {C}, junk : BOOLEAN,
               key : {D}, custom : {F}, taken : {G}]
    BY ONLY <2>1 DEF IsEntry
  <2> HIDE DEF A, B, C, D, F, G, y
  <2>3. /\ w \in [algo : Kinds, ctx : {c}, inner : {A}, outer : {B}, from : {C}, junk : BOOLEAN,
                  key : {key}, custom : {F}, taken : {G}]
        /\ w.algo = e.algo /\ w.junk = e.junk
    BY ONLY <2>2
  <2> HIDE DEF w
  <2>4. /\ w.ctx = c /\ w.inner = A /\ w.outer = B /\ w.from = C /\ w.key = key
        /\ w.custom = F /\ w.taken = G
    BY ONLY <2>3
  <2>5. IsEntry(w)
    BY ONLY <2>3, <2>4 DEF IsEntry
  <2>6. ASSUME ~w.junk PROVE EntryRight(w, m, k, f, p, g)
    <3>1. EntryRight(e, m, k, f, p, g)
      BY ONLY <2>1, <2>3, <2>6
    <3>2. C \in 0..Len(g) /\ CustomOk(F) /\ G = 0
      BY ONLY <3>1, ~f DEF EntryRight, C, F, G
    <3>3. C = 0
      BY <3>2, EmptyIs, g = <<>>
    <3>4. FedTo(m, k, Behind(g, C)) = <<>>
      <4>1. Behind(g, C) = <<>>
        BY ONLY <3>3, g = <<>>, EmptyIs, FirstAll
      <4>2. Lead(m, k) = <<>>
        BY ONLY ~m DEF Lead
      <4> QED BY ONLY <4>1, <4>2, EmptyIs, ConcatEmpty DEF FedTo
    <3>5. CtxHolds("blake", key, F, c, <<>>)
      <4>1. IsSeq(KeyBlock(key))
        BY ONLY BlakeDigestIs, EmptyIs
      <4>2. KeyBlock(key) \o <<>> = KeyBlock(key)
        BY ONLY <4>1, ConcatEmpty
      <4>3. BlakeHolds(c, key, KeyBlock(key) \o <<>>)
        BY ONLY <4>2, BlakeInits DEF c
      <4> QED BY ONLY <4>3 DEF CtxHolds
    <3>6. CtxHolds(w.algo, w.key, w.custom, w.ctx, FedTo(m, k, Behind(g, w.from)))
      BY ONLY <3>4, <3>5, <2>1, <2>3, <2>4
    <3> QED BY ONLY <3>2, <3>6, <2>4, ~m, ~f DEF EntryRight
  <2>7. X(i) = w
    BY ONLY TRUE DEF w, c, e
  <2> HIDE DEF X
  <2> QED BY ONLY <2>5, <2>6, <2>7
<1> HIDE DEF X, x
<1>5. Entries(x, m, k, f, p, g)
  BY ONLY <1>2, <1>3, <1>4 DEF Entries
<1>6. x = BlakeKeyList(l, key)
  BY ONLY TRUE DEF BlakeKeyList, x, X
<1> QED BY ONLY <1>2, <1>5, <1>6

\* md_setkey without HMAC
LEMMA BlakeKeyKeeps ==
  ASSUME NEW h, HandleRight(h), ~h.hmac, NEW key
  PROVE  HandleRight(BlakeKeyed(h, key))
<1> DEFINE m == h.hmac
           l == h.list
           b == h.buf
           f == h.fin
           w == h.wrote
           k == h.key
           p == h.spoiled
           x == RenewedList(l, m)
           z == <<>>
           no == FALSE
           heads == {i \in 1..Len(l) : \A j \in 1..i : l[j].algo = "blake"}
           y == BlakeKeyList(x, key)
<1>1. h = Hd(m, l, b, f, w, k, p)
  BY DEF HandleRight
<1>2. PICK g : Fields(m, l, b, f, w, k, p, g)
  BY DEF HandleRight
<1>3. CASE heads = {}
  <2>1. BlakeKeyed(h, key) = h
    BY ONLY <1>3 DEF BlakeKeyed
  <2> QED BY ONLY <2>1, HandleRight(h)
<1>4. CASE heads # {} /\ Cardinality(heads) < Len(l)
  <2>1. BlakeKeyed(h, key) = MdReset(h)
    BY ONLY <1>4 DEF BlakeKeyed
  <2> QED BY ONLY <2>1, HandleRight(h), ResetKeeps
<1>5. CASE heads # {} /\ ~(Cardinality(heads) < Len(l))
  <2>1. BlakeKeyed(h, key) =
          [MdReset(h) EXCEPT !.list = [i \in 1..Len(@) |->
                                         [@[i] EXCEPT !.ctx = BlakeInit(key), !.key = key]]]
    BY ONLY <1>5 DEF BlakeKeyed, Each
  <2>2. ~m
    OBVIOUS
  <2> HIDE DEF m, l, b, f, w, k, p
  <2>3. /\ m \in BOOLEAN /\ IsSeq(l) /\ Entries(l, m, k, f, p, g) /\ Len(l) \in Nat
    BY ONLY <1>2, FieldsIs
  <2>4. \A i \in 1..Len(l) : IsEntry(l[i]) /\ (m /\ ~l[i].junk => PadsRight(l[i], k))
    BY ONLY <2>3 DEF Entries, EntryRight
  <2>5. /\ Fields(m, x, z, no, z, k, no, z) /\ Len(x) = Len(l)
        /\ \A i \in 1..Len(l) : x[i].algo = l[i].algo
    BY ONLY <2>3, <2>4, ResetRight
  <2>6. MdReset(h) = Hd(m, x, z, no, z, k, no)
    BY ONLY <1>1, MdResetIs, ZenonT(60)
  <2>7. \A i \in 1..Len(l) : l[i].algo = "blake"
    <3>1. heads \in SUBSET (1..Len(l))
      OBVIOUS
    <3>2. IsFiniteSet(1..Len(l)) /\ Cardinality(1..Len(l)) = Len(l)
      <4>1. IsFiniteSet(1..Len(l)) /\ Cardinality(1..Len(l)) = IF 1 > Len(l) THEN 0 ELSE Len(l) - 1 + 1
        <5>1. 1 \in Int /\ Len(l) \in Int
          BY ONLY <2>3
        <5> QED BY ONLY <5>1, FS_Interval
      <4> QED BY ONLY <4>1, <2>3
    <3> DEFINE S == 1..Len(l)
               T == heads
    <3> HIDE DEF S, T
    <3>3. IsFiniteSet(T) /\ Cardinality(T) <= Cardinality(S) /\ (Cardinality(S) = Cardinality(T) => S = T)
      <4>1. IsFiniteSet(S) /\ T \in SUBSET S
        BY ONLY <3>1, <3>2 DEF S, T
      <4> QED BY ONLY <4>1, FS_Subset
    <3>4. Cardinality(T) \in Nat
      BY ONLY <3>3, FS_CardinalityType
    <3>5. Cardinality(T) = Len(l) /\ Cardinality(S) = Len(l)
      BY ONLY <3>2, <3>3, <3>4, <1>5, <2>3 DEF S, T
    <3>6. heads = 1..Len(l)
      BY ONLY <3>3, <3>5 DEF S, T
    <3>7. TAKE i \in 1..Len(l)
    <3>8. i \in heads /\ i \in 1..i
      BY ONLY <3>6, <2>3, i \in 1..Len(l)
    <3> QED BY ONLY <3>8
  <2>8. \A i \in 1..Len(x) : x[i].algo = "blake"
    BY ONLY <2>5, <2>7
  <2>9. IsSeq(y) /\ Entries(y, m, k, no, no, z)
    <3>0. ~no /\ z = <<>>
      OBVIOUS
    <3> HIDE DEF x, z, no
    <3>1. IsSeq(x) /\ Entries(x, m, k, no, no, z)
      BY ONLY <2>5, FieldsIs
    <3> QED BY ONLY <3>0, <3>1, <2>2, <2>3, <2>8, BlakeList
  <2>10. Fields(m, y, z, no, z, k, no, z)
    BY ONLY <2>5, <2>9 DEF Fields
  <2>11. BlakeKeyed(h, key) = Hd(m, y, z, no, z, k, no)
    <3> HIDE DEF x, y, z, no
    <3> DEFINE r == MdReset(h)
               T == [hmac : {m}, list : {y}, buf : {z}, fin : {no}, wrote : {z},
                     key : {k}, spoiled : {no}]
               v == [r EXCEPT !.list = y]
    <3>1. r = Hd(m, x, z, no, z, k, no)
      BY ONLY <2>6
    <3> HIDE DEF r
    <3>2. r.list = x
      BY ONLY <3>1 DEF Hd
    <3>3. BlakeKeyed(h, key) = v
      <4>1. BlakeKeyed(h, key) =
             [r EXCEPT !.list = [i \in 1..Len(r.list) |->
                                   [r.list[i] EXCEPT !.ctx = BlakeInit(key), !.key = key]]]
        BY ONLY <2>1 DEF r
      <4> QED BY ONLY <4>1, <3>2 DEF y, BlakeKeyList
    <3>4. v \in T
      BY ONLY <3>1 DEF Hd
    <3>5. \A u \in T : u = Hd(m, y, z, no, z, k, no)
      BY ONLY TRUE DEF Hd
    <3> HIDE DEF T, v
    <3> QED BY ONLY <3>3, <3>4, <3>5
  <2> HIDE DEF y, z, no
  <2> QED BY ONLY <2>10, <2>11, Made
<1> QED BY ONLY <1>3, <1>4, <1>5

\* gcry_md_setkey
LEMMA SetKeyKeeps ==
  ASSUME HandleRight(hd), NEW key, SetKey(key)
  PROVE  HandleRight(hd')
<1> DEFINE m == hd.hmac
           l == hd.list
           b == hd.buf
           f == hd.fin
           w == hd.wrote
           k == hd.key
           p == hd.spoiled
           q == PadsList(l, key)
           x == RenewedList(q, m)
           z == <<>>
           no == FALSE
<1>1. hd = Hd(m, l, b, f, w, k, p)
  BY DEF HandleRight
<1>2. PICK g : Fields(m, l, b, f, w, k, p, g)
  BY DEF HandleRight
<1>3. m \in BOOLEAN /\ IsSeq(l) /\ Len(l) \in Nat /\ Entries(l, m, k, f, p, g)
  <2> HIDE DEF m, l, b, f, w, k, p
  <2> QED BY ONLY <1>2, FieldsIs
<1>4. CASE m /\ l # <<>>
  <2>1. hd' = MdReset(Keyed(hd, key))
    BY <1>4 DEF SetKey
  <2> HIDE DEF m, l, b, f, w, k, p
  <2>2. Keyed(hd, key) = Hd(m, q, b, f, w, key, p)
    BY ONLY <1>1, KeyedIs
  <2>3. MdReset(Keyed(hd, key)) = Hd(m, x, z, no, z, key, no)
    <3> DEFINE v == Keyed(hd, key)
    <3> HIDE DEF q, v
    <3>1. v = Hd(m, q, b, f, w, key, p)
      BY ONLY <2>2 DEF v
    <3>2. MdReset(v) = Hd(m, x, z, no, z, key, no)
      BY ONLY <3>1, MdResetIs, ZenonT(60)
    <3> QED BY ONLY <3>2 DEF v
  <2>4. /\ IsSeq(q) /\ Len(q) = Len(l)
        /\ \A i \in 1..Len(l) : q[i] = PadsOf(l[i], key)
    BY ONLY <1>3, SeqFcn DEF PadsList
  <2> HIDE DEF q
  <2>5. \A i \in 1..Len(l) : IsEntry(q[i]) /\ PadsRight(q[i], key)
    <3>1. TAKE i \in 1..Len(l)
    <3> DEFINE e == l[i]
    <3>2. IsEntry(e) /\ q[i] = PadsOf(e, key)
      BY ONLY <1>3, <2>4, i \in 1..Len(l) DEF Entries
    <3> HIDE DEF e
    <3>3. IsEntry(PadsOf(e, key)) /\ PadsRight(PadsOf(e, key), key)
      BY ONLY <3>2, EntryPads
    <3> QED BY ONLY <3>2, <3>3
  <2>6. \A i \in 1..Len(q) : IsEntry(q[i]) /\ (m /\ ~q[i].junk => PadsRight(q[i], key))
    BY ONLY <2>4, <2>5
  <2>7. Fields(m, x, z, no, z, key, no, z)
    BY ONLY <1>3, <2>4, <2>6, ResetRight
  <2> HIDE DEF x, z, no
  <2> QED BY ONLY <2>1, <2>3, <2>7, Made
<1>5. CASE m /\ l = <<>>
  <2>1. hd' = hd
    BY <1>5 DEF SetKey
  <2> QED BY ONLY <2>1, HandleRight(hd)
<1>6. CASE ~m
  <2>1. hd' = BlakeKeyed(hd, key)
    BY <1>6 DEF SetKey
  <2> QED BY ONLY <2>1, <1>6, HandleRight(hd), BlakeKeyKeeps
<1> QED BY ONLY <1>4, <1>5, <1>6

\* Another entry at place j.
Put(l, j, y) == [l EXCEPT ![j] = y]

\* With a right entry put at one place, all are right.
LEMMA PutRight ==
  ASSUME NEW l, IsSeq(l), NEW j \in 1..Len(l), NEW m, NEW k, NEW f, NEW p, NEW g,
         Entries(l, m, k, f, p, g), NEW y, IsEntry(y), ~y.junk => EntryRight(y, m, k, f, p, g)
  PROVE  /\ IsSeq(Put(l, j, y)) /\ Len(Put(l, j, y)) = Len(l) /\ Put(l, j, y)[j] = y
         /\ Entries(Put(l, j, y), m, k, f, p, g)
<1> DEFINE x == Put(l, j, y)
<1>1. Len(l) \in Nat /\ DOMAIN l = 1..Len(l)
  BY ONLY IsSeq(l), IsSeqLen
<1>2. /\ DOMAIN x = 1..Len(l) /\ x = [i \in 1..Len(l) |-> x[i]]
      /\ \A i \in 1..Len(l) : x[i] = IF i = j THEN y ELSE l[i]
  BY ONLY <1>1 DEF Put
<1> HIDE DEF x
<1>3. IsSeq(x) /\ Len(x) = Len(l)
  BY ONLY <1>1, <1>2, SeqFcn
<1>4. x[j] = y
  BY ONLY <1>2, j \in 1..Len(l)
<1>5. ASSUME NEW i \in 1..Len(x)
      PROVE  IsEntry(x[i]) /\ (~x[i].junk => EntryRight(x[i], m, k, f, p, g))
  <2>1. CASE i = j
    BY ONLY <2>1, <1>4, IsEntry(y), ~y.junk => EntryRight(y, m, k, f, p, g)
  <2>2. CASE i # j
    <3>1. x[i] = l[i] /\ i \in 1..Len(l)
      BY ONLY <1>2, <1>3, <2>2, i \in 1..Len(x)
    <3> QED BY ONLY <3>1, Entries(l, m, k, f, p, g) DEF Entries
  <2> QED BY ONLY <2>1, <2>2
<1>6. Entries(x, m, k, f, p, g)
  BY ONLY <1>5 DEF Entries
<1> QED BY ONLY <1>3, <1>4, <1>6 DEF x

\* A handle with another list.
LEMMA HdList ==
  ASSUME NEW m, NEW l, NEW b, NEW f, NEW w, NEW k, NEW p, NEW x
  PROVE  [Hd(m, l, b, f, w, k, p) EXCEPT !.list = x] = Hd(m, x, b, f, w, k, p)
<1> DEFINE T == [hmac : {m}, list : {x}, buf : {b}, fin : {f}, wrote : {w},
                 key : {k}, spoiled : {p}]
           v == [Hd(m, l, b, f, w, k, p) EXCEPT !.list = x]
<1>1. v \in T
  BY ONLY TRUE DEF Hd
<1>2. \A u \in T : u = Hd(m, x, b, f, w, k, p)
  BY ONLY TRUE DEF Hd
<1> HIDE DEF T, v
<1>3. v = Hd(m, x, b, f, w, k, p)
  BY ONLY <1>1, <1>2
<1> QED BY ONLY <1>3 DEF v

\* An entry of cSHAKE, before any data, is customized.
CustomEntry(e, s) == [e EXCEPT !.ctx = CshakeCustomize(e.ctx, 1, s), !.custom = <<1, s>>]

\* Customized so, the entry is right.
LEMMA EntryCustom ==
  ASSUME PrefixesPartial, NEW e, IsEntry(e), NEW k, NEW p, NEW s \in Customs, NEW m, ~m,
         NEW f, ~f, NEW g, g = <<>>, e.algo = "shake", e.custom = <<0, 0>>,
         ~e.junk => EntryRight(e, m, k, f, p, g)
  PROVE  /\ IsEntry(CustomEntry(e, s))
         /\ ~CustomEntry(e, s).junk => EntryRight(CustomEntry(e, s), m, k, f, p, g)
<1> DEFINE c == CshakeCustomize(e.ctx, 1, s)
           V == <<1, s>>
           A == e.inner
           B == e.outer
           C == e.from
           D == e.key
           F == e.custom
           G == e.taken
           y == e.ctx
           w == CustomEntry(e, s)
<1>1. e \in [algo : Kinds, ctx : {y}, inner : {A}, outer : {B}, from : {C}, junk : BOOLEAN,
             key : {D}, custom : {F}, taken : {G}]
  BY DEF IsEntry
<1>2. w = [e EXCEPT !.ctx = c, !.custom = V]
  BY ONLY TRUE DEF CustomEntry
<1> HIDE DEF c, V, A, B, C, D, F, G, y, w
<1>3. /\ w \in [algo : Kinds, ctx : {c}, inner : {A}, outer : {B}, from : {C}, junk : BOOLEAN,
                key : {D}, custom : {V}, taken : {G}]
      /\ w.algo = e.algo /\ w.junk = e.junk
  BY ONLY <1>1, <1>2
<1>4. /\ w.ctx = c /\ w.inner = A /\ w.outer = B /\ w.from = C /\ w.key = D
      /\ w.custom = V /\ w.taken = G
  BY ONLY <1>3
<1>5. IsEntry(w)
  BY ONLY <1>3, <1>4 DEF IsEntry
<1>6. ASSUME ~w.junk PROVE EntryRight(w, m, k, f, p, g)
  <2>1. EntryRight(e, m, k, f, p, g)
    BY <1>3, <1>6
  <2>2. C \in 0..Len(g) /\ G = 0 /\ CtxHolds("shake", D, <<0, 0>>, y, FedTo(m, k, Behind(g, C)))
    BY ONLY <2>1, ~f, e.algo = "shake", e.custom = <<0, 0>> DEF EntryRight, C, D, G, y
  <2>3. C = 0
    BY <2>2, EmptyIs, g = <<>>
  <2>4. FedTo(m, k, Behind(g, C)) = <<>>
    <3>1. Behind(g, C) = <<>>
      BY ONLY <2>3, g = <<>>, EmptyIs, FirstAll
    <3>2. Lead(m, k) = <<>>
      BY ONLY ~m DEF Lead
    <3> QED BY ONLY <3>1, <3>2, EmptyIs, ConcatEmpty DEF FedTo
  <2>5. y = KeccakOf(<<>>, <<"1f">>)
    <3> DEFINE u == <<0, 0>>
    <3>1. CustomOk(u) /\ SuffixOf(u) = <<"1f">> /\ u = <<0, 0>>
      BY DEF CustomOk, SuffixOf
    <3>2. y = KeccakOf(CshakeInput(u[1], u[2], <<>>) \o <<>>, SuffixOf(u))
      BY ONLY <2>2, <2>4 DEF CtxHolds
    <3> HIDE DEF u
    <3>3. CshakeInput(u[1], u[2], <<>>) = <<>>
      BY ONLY <3>1, PrefixIs
    <3>4. <<>> \o <<>> = <<>>
      BY ONLY EmptyIs, ConcatEmpty
    <3> QED BY ONLY <3>1, <3>2, <3>3, <3>4
  <2>6. c = KeccakOf(CshakeInput(1, s, <<>>), <<"04">>)
    <3>1. c = CshakeCustomize(KeccakOf(<<>>, <<"1f">>), 1, s)
      BY ONLY <2>5 DEF c, y
    <3> QED BY ONLY <3>1, PrefixesPartial, s \in Customs, Customizes
  <2>7. CustomOk(V) /\ V[1] = 1 /\ V[2] = s /\ SuffixOf(V) = <<"04">>
    BY DEF CustomOk, SuffixOf, V
  <2>8. CshakeInput(V[1], V[2], <<>>) \o <<>> = CshakeInput(1, s, <<>>)
    <3>1. IsSeq(CshakeInput(V[1], V[2], <<>>))
      BY ONLY <2>7, PrefixIs
    <3>2. CshakeInput(V[1], V[2], <<>>) \o <<>> = CshakeInput(V[1], V[2], <<>>)
      BY ONLY <3>1, ConcatEmpty
    <3> QED BY ONLY <3>2, <2>7
  <2>9. CtxHolds("shake", D, V, c, <<>>)
    <3>1. c = KeccakOf(CshakeInput(V[1], V[2], <<>>) \o <<>>, SuffixOf(V))
      BY ONLY <2>6, <2>7, <2>8
    <3> QED BY ONLY <3>1 DEF CtxHolds
  <2>10. CtxHolds(w.algo, w.key, w.custom, w.ctx, FedTo(m, k, Behind(g, w.from)))
    BY ONLY <2>4, <2>9, <1>3, <1>4, e.algo = "shake"
  <2> QED BY ONLY <2>2, <2>7, <2>10, <1>4, ~m, ~f DEF EntryRight
<1> QED BY ONLY <1>5, <1>6 DEF w

\* md_customize
LEMMA CustomKeeps ==
  ASSUME PrefixesPartial, HandleRight(hd), NEW s \in Customs, Customize(1, s)
  PROVE  HandleRight(hd')
<1> DEFINE m == hd.hmac
           l == hd.list
           b == hd.buf
           f == hd.fin
           w == hd.wrote
           k == hd.key
           p == hd.spoiled
           e == l[1]
           y == CustomEntry(e, s)
           x == Put(l, 1, y)
<1>1. hd = Hd(m, l, b, f, w, k, p)
  BY DEF HandleRight
<1>2. PICK g : Fields(m, l, b, f, w, k, p, g)
  BY DEF HandleRight
<1>3. ~m /\ w = <<>> /\ ~f /\ l # <<>> /\ e.algo = "shake" /\ e.custom = <<0, 0>>
  BY DEF Customize
<1>4. CASE Len(l) > 1
  <2>1. hd' = MdReset(hd)
    BY <1>4 DEF Customize
  <2> QED BY ONLY <2>1, HandleRight(hd), ResetKeeps
<1>5. CASE ~(Len(l) > 1)
  <2>1. hd' = [hd EXCEPT !.list[1].ctx = CshakeCustomize(@, 1, s), !.list[1].custom = <<1, s>>]
    BY <1>5 DEF Customize
  <2>2. hd' = [hd EXCEPT !.list = x]
    <3> DEFINE c == CshakeCustomize(e.ctx, 1, s)
               V == <<1, s>>
    <3> HIDE DEF V
    <3>1. hd' = [hd EXCEPT !.list[1].ctx = CshakeCustomize(@, 1, s), !.list[1].custom = V]
      BY ONLY <2>1 DEF V
    <3> QED BY ONLY <3>1, <1>1, <1>2 DEF Put, CustomEntry, V, Hd
  <2> HIDE DEF m, l, b, f, w, k, p
  <2>3. /\ m \in BOOLEAN /\ f \in BOOLEAN /\ p \in BOOLEAN /\ IsSeq(l) /\ IsSeq(b) /\ IsSeq(g)
        /\ Len(l) \in Nat /\ w = g \o b /\ Entries(l, m, k, f, p, g)
    BY ONLY <1>2, FieldsIs
  <2>4. g = <<>>
    <3>1. Len(w) = Len(g) + Len(b) /\ Len(g) \in Nat /\ Len(b) \in Nat
      BY ONLY <2>3, ConcatIs, IsSeqLen
    <3>2. Len(w) = 0
      BY ONLY <1>3, EmptyIs
    <3>3. Len(g) = 0
      <4> DEFINE a == Len(g)
                 c == Len(b)
      <4>1. 0 = a + c /\ a \in Nat /\ c \in Nat
        BY ONLY <3>1, <3>2
      <4> HIDE DEF a, c
      <4>2. a = 0
        BY ONLY <4>1
      <4> QED BY ONLY <4>2 DEF a
    <3> QED BY ONLY <3>3, <2>3, EmptyIs
  <2>5. 1 \in 1..Len(l)
    <3>1. Len(l) # 0
      BY ONLY <1>3, <2>3, EmptyIs
    <3> QED BY ONLY <3>1, <2>3
  <2>6. IsEntry(e) /\ (~e.junk => EntryRight(e, m, k, f, p, g))
    BY ONLY <2>3, <2>5 DEF Entries
  <2> HIDE DEF e
  <2>7. IsEntry(y) /\ (~y.junk => EntryRight(y, m, k, f, p, g))
    BY ONLY PrefixesPartial, <1>3, <2>4, <2>6, s \in Customs, EntryCustom
  <2> HIDE DEF y
  <2>8. IsSeq(x) /\ Entries(x, m, k, f, p, g)
    BY ONLY <2>3, <2>5, <2>7, PutRight
  <2> HIDE DEF x
  <2>9. hd' = Hd(m, x, b, f, w, k, p)
    BY ONLY <1>1, <2>2, HdList
  <2>10. Fields(m, x, b, f, w, k, p, g)
    BY ONLY <1>2, <2>8 DEF Fields
  <2> QED BY ONLY <2>9, <2>10, Made
<1> QED BY ONLY <1>4, <1>5

\* The input of an entry as the properties have it, and as its context had it.
LEMMA InputIs ==
  ASSUME NEW h, NEW e, IsEntry(e), EntryRight(e, h.hmac, h.key, Ended, Unspoiled, h.wrote),
         h.hmac \in BOOLEAN, IsSeq(h.wrote)
  PROVE  LET S == EndOf(e.algo, h.hmac, h.key, Behind(h.wrote, e.from))
         IN  /\ IsSeq(S) /\ Suffix(e) = SuffixOf(e.custom) /\ CustomOk(e.custom)
             /\ e.taken \in Nat /\ CtxEnded(e.algo, e.key, e.custom, e.ctx, S, e.taken)
             /\ e.algo = "shake" => CshakeInput(e.custom[1], e.custom[2], S) = Input(h, e)
             /\ e.algo # "shake" => Input(h, e) = S
<1> DEFINE m == h.hmac
           k == h.key
           A == e.algo
           s == Behind(h.wrote, e.from)
           S == EndOf(A, m, k, s)
           U == e.custom
<1>1. /\ A \in Kinds /\ CustomOk(U) /\ e.from \in 0..Len(h.wrote)
      /\ (m => e.key = None /\ U = <<0, 0>>)
      /\ e.taken \in Nat /\ CtxEnded(A, e.key, U, e.ctx, S, e.taken)
  BY DEF IsEntry, EntryRight, Ended, Unspoiled
<1>2. IsSeq(s)
  BY ONLY <1>1, IsSeq(h.wrote), FirstIs
<1>3. s = SubSeq(h.wrote, e.from + 1, Len(h.wrote))
  BY ONLY TRUE DEF Behind
<1>4. Suffix(e) = SuffixOf(U)
  BY ONLY TRUE DEF Suffix, SuffixOf
<1>5. CASE m
  <2> DEFINE P == Pad("36", k)
             Q == Pad("5c", k)
             d == Plain(A, P \o s)
  <2>1. S = Q \o <<d>>
    BY ONLY <1>5 DEF EndOf
  <2>2. Defined(e, P \o s) = d
    <3> DEFINE v == P \o s
    <3>1. e.key = None
      BY ONLY <1>1, <1>5
    <3> HIDE DEF v
    <3> QED BY ONLY <3>1, <1>1 DEF Defined, Plain, Kinds
  <2>3. Input(h, e) = Q \o <<Defined(e, P \o s)>>
    <3> HIDE DEF s
    <3> QED BY ONLY <1>3, <1>5 DEF Input
  <2>4. Input(h, e) = S
    BY ONLY <2>1, <2>2, <2>3
  <2>5. IsSeq(S)
    <3> HIDE DEF S, d
    <3>1. IsSeq(<<d>>)
      BY ONLY AppendIs, EmptyIs
    <3>2. IsSeq(Q)
      BY ONLY PadSeq
    <3>3. IsSeq(Q \o <<d>>)
      <4> DEFINE y == <<d>>
      <4> HIDE DEF y, Q
      <4>1. IsSeq(y)
        BY ONLY <3>1 DEF y
      <4>2. IsSeq(Q \o y)
        BY ONLY <4>1, <3>2, ConcatIs
      <4> QED BY ONLY <4>2 DEF y
    <3> QED BY ONLY <3>3, <2>1
  <2>6. CshakeInput(U[1], U[2], S) = S
    <3> HIDE DEF S
    <3>1. U[1] = 0 /\ U[2] = 0
      BY <1>1, <1>5
    <3> QED BY ONLY <3>1 DEF CshakeInput
  <2> HIDE DEF S
  <2> QED BY ONLY <2>4, <2>5, <2>6, <1>1, <1>4 DEF S
<1>6. CASE ~m
  <2>1. S = s
    BY ONLY <1>6 DEF EndOf
  <2>2. Input(h, e) = IF e.algo = "shake" THEN CshakeInput(U[1], U[2], s) ELSE s
    <3> HIDE DEF s
    <3> QED BY ONLY <1>3, <1>6 DEF Input
  <2> HIDE DEF S, s
  <2> QED BY ONLY <2>1, <2>2, <1>1, <1>2, <1>4 DEF S, s
<1> QED BY ONLY <1>5, <1>6

\* The fields of a handle that is at its end.
LEMMA FinalIs ==
  ASSUME HandleRight(hd), Usable
  PROVE  LET h == MdFinal(hd)
         IN  /\ h = Hd(h.hmac, h.list, h.buf, h.fin, h.wrote, h.key, h.spoiled)
             /\ Fields(h.hmac, h.list, h.buf, h.fin, h.wrote, h.key, h.spoiled, h.wrote)
             /\ h.fin = Ended /\ h.spoiled = Unspoiled /\ Len(h.list) = Len(hd.list)
<1> DEFINE m == hd.hmac
           l == hd.list
           b == hd.buf
           f == hd.fin
           w == hd.wrote
           k == hd.key
           p == hd.spoiled
           z == <<>>
           h == MdFinal(hd)
<1>1. hd = Hd(m, l, b, f, w, k, p)
  BY DEF HandleRight
<1>2. PICK g : Fields(m, l, b, f, w, k, p, g)
  BY DEF HandleRight
<1>3. p = Unspoiled
  <2>1. p \in BOOLEAN /\ ~p
    BY ONLY <1>2, FieldsIs, Usable DEF Usable
  <2> QED BY ONLY <2>1 DEF Unspoiled
<1> HIDE DEF m, l, b, f, w, k, p
<1>4. PICK l2 : /\ h = Hd(m, l2, z, Ended, w, k, p)
                /\ Fields(m, l2, z, Ended, w, k, p, w) /\ Len(l2) = Len(l)
  <2>1. \E l2 : /\ MdFinal(Hd(m, l, b, f, w, k, p)) = Hd(m, l2, <<>>, Ended, w, k, p)
                /\ Fields(m, l2, <<>>, Ended, w, k, p, w) /\ Len(l2) = Len(l)
    BY ONLY <1>2, <1>3, FinalRight
  <2> QED BY ONLY <1>1, <2>1
<1> HIDE DEF h, z
<1>7. /\ h.hmac = m /\ h.list = l2 /\ h.buf = z /\ h.fin = Ended /\ h.wrote = w /\ h.key = k
      /\ h.spoiled = p
  BY ONLY <1>4 DEF Hd
<1>8. Len(h.list) = Len(hd.list)
  BY ONLY <1>4, <1>7 DEF l
<1> QED BY ONLY <1>3, <1>4, <1>7, <1>8 DEF h

\* Another entry at place j of a handle.
WithEntry(h, j, y) == [h EXCEPT !.list = Put(h.list, j, y)]

\* The same in a handle that is at its end.
LEMMA PutKeeps ==
  ASSUME NEW h, h = Hd(h.hmac, h.list, h.buf, h.fin, h.wrote, h.key, h.spoiled),
         Fields(h.hmac, h.list, h.buf, h.fin, h.wrote, h.key, h.spoiled, h.wrote),
         NEW j \in 1..Len(h.list), NEW y, IsEntry(y),
         ~y.junk => EntryRight(y, h.hmac, h.key, h.fin, h.spoiled, h.wrote),
         NEW n, n = WithEntry(h, j, y)
  PROVE  /\ HandleRight(n) /\ n.hmac = h.hmac /\ n.wrote = h.wrote /\ n.key = h.key
         /\ n.list[j] = y
<1> DEFINE m == h.hmac
           l == h.list
           b == h.buf
           f == h.fin
           w == h.wrote
           k == h.key
           p == h.spoiled
           x == Put(l, j, y)
<1>1. h = Hd(m, l, b, f, w, k, p) /\ Fields(m, l, b, f, w, k, p, w) /\ n = [h EXCEPT !.list = x]
  BY DEF WithEntry
<1>2. IsSeq(l) /\ Entries(l, m, k, f, p, w) /\ j \in 1..Len(l) /\ IsEntry(y)
      /\ (~y.junk => EntryRight(y, m, k, f, p, w))
  BY ONLY <1>1, FieldsIs, IsEntry(y), j \in 1..Len(h.list),
          ~y.junk => EntryRight(y, h.hmac, h.key, h.fin, h.spoiled, h.wrote)
<1> HIDE DEF m, l, b, f, w, k, p
<1>3. IsSeq(x) /\ Entries(x, m, k, f, p, w) /\ x[j] = y
  BY ONLY <1>2, PutRight
<1> HIDE DEF x
<1>4. n = Hd(m, x, b, f, w, k, p)
  BY ONLY <1>1, HdList
<1>5. Fields(m, x, b, f, w, k, p, w)
  BY ONLY <1>1, <1>3 DEF Fields
<1>6. HandleRight(n)
  BY ONLY <1>4, <1>5, Made
<1>7. n.hmac = m /\ n.wrote = w /\ n.key = k /\ n.list = x
  BY ONLY <1>4 DEF Hd
<1> QED BY ONLY <1>3, <1>6, <1>7 DEF m, w, k
\* What DigestRight asks of entry e of handle h.
Wanted(h, e) ==
  IF e.algo = "shake" THEN <<"shake", ShakeDigest(Input(h, e), Suffix(e))>>
  ELSE Defined(e, Input(h, e))

\* Entries that differ in nothing but their contexts have the same input.
LEMMA SameInput ==
  ASSUME NEW h, NEW e, NEW n, NEW y, n.hmac = h.hmac, n.wrote = h.wrote, n.key = h.key,
         y.algo = e.algo, y.from = e.from, y.key = e.key, y.custom = e.custom
  PROVE  Input(n, y) = Input(h, e) /\ Suffix(y) = Suffix(e) /\ Wanted(n, y) = Wanted(h, e)
<1>1. \A s : Defined(y, s) = Defined(e, s)
  BY DEF Defined
<1>2. Input(n, y) = Input(h, e)
  BY <1>1 DEF Input
<1>3. Suffix(y) = Suffix(e)
  BY DEF Suffix
<1> QED BY <1>1, <1>2, <1>3 DEF Wanted

\* The digest of an entry at its end is read.
LEMMA EntryReads ==
  ASSUME NEW h, NEW e, IsEntry(e), EntryRight(e, h.hmac, h.key, Ended, Unspoiled, h.wrote),
         h.hmac \in BOOLEAN, IsSeq(h.wrote),
         NEW c, c = CtxRead(e.algo, e.ctx), NEW y, y = [e EXCEPT !.ctx = c]
  PROVE  /\ EntryRight(y, h.hmac, h.key, Ended, Unspoiled, h.wrote)
         /\ c.out \in {None, Wanted(h, e)}
<1> DEFINE m == h.hmac
           k == h.key
           A == e.algo
           S == EndOf(A, m, k, Behind(h.wrote, e.from))
           U == e.custom
<1>1. /\ IsSeq(S) /\ Suffix(e) = SuffixOf(U) /\ CustomOk(U)
      /\ e.taken \in Nat /\ CtxEnded(A, e.key, U, e.ctx, S, e.taken)
      /\ A = "shake" => CshakeInput(U[1], U[2], S) = Input(h, e)
      /\ A # "shake" => Input(h, e) = S
  BY InputIs
<1>2. A \in Kinds
  BY DEF IsEntry
<1>3. /\ y.ctx = c /\ y.algo = e.algo /\ y.inner = e.inner /\ y.outer = e.outer
      /\ y.from = e.from /\ y.key = e.key /\ y.custom = e.custom /\ y.taken = e.taken
  BY ONLY WithCtx, IsEntry(e), y = [e EXCEPT !.ctx = c]
<1>4. CtxEnded(A, e.key, U, c, S, e.taken) /\ c.out \in {None, Result(A, e.key, U, S)}
  <2> HIDE DEF S
  <2> QED BY ONLY <1>1, <1>2, c = CtxRead(A, e.ctx), CtxReads
<1>5. Result(A, e.key, U, S) = Wanted(h, e)
  <2> HIDE DEF S
  <2> QED BY ONLY <1>1, <1>2 DEF Result, Wanted, Defined, Kinds
<1>6. EntryRight(y, m, k, Ended, Unspoiled, h.wrote)
  <2>1. /\ y.from \in 0..Len(h.wrote) /\ CustomOk(y.custom)
        /\ m => y.key = None /\ y.custom = <<0, 0>> /\ PadsRight(y, k)
    BY <1>3 DEF EntryRight, PadsRight
  <2>2. CtxEnded(y.algo, y.key, y.custom, y.ctx, EndOf(y.algo, m, k, Behind(h.wrote, y.from)),
                 y.taken)
    BY ONLY <1>3, <1>4
  <2> QED BY ONLY <1>1, <1>3, <2>1, <2>2 DEF EntryRight, Ended
<1> HIDE DEF S
<1> QED BY ONLY <1>4, <1>5, <1>6

\* Bytes are extracted from an entry at its end.
LEMMA EntryExtracts ==
  ASSUME NEW h, NEW e, IsEntry(e), EntryRight(e, h.hmac, h.key, Ended, Unspoiled, h.wrote),
         h.hmac \in BOOLEAN, IsSeq(h.wrote), e.algo = "shake", e.ctx.way # "read",
         NEW n \in Nat, NEW x, x = KeccakExtract(e.ctx, n),
         NEW y, IsEntry(y), y.ctx = Extracting(x.k), y.taken = e.taken + n,
         y.algo = e.algo, y.inner = e.inner, y.outer = e.outer, y.from = e.from,
         y.key = e.key, y.custom = e.custom
  PROVE  /\ EntryRight(y, h.hmac, h.key, Ended, Unspoiled, h.wrote)
         /\ e.taken \in Nat
         /\ x.out = StreamOf(Input(h, e), Suffix(e), e.taken, n)
<1> DEFINE m == h.hmac
           k == h.key
           A == e.algo
           S == EndOf(A, m, k, Behind(h.wrote, e.from))
           U == e.custom
           d == e.taken
           c == Extracting(x.k)
<1>1. /\ IsSeq(S) /\ Suffix(e) = SuffixOf(U) /\ CustomOk(U)
      /\ d \in Nat /\ CtxEnded(A, e.key, U, e.ctx, S, d)
      /\ A = "shake" => CshakeInput(U[1], U[2], S) = Input(h, e)
  BY InputIs
<1>2. CtxEnded("shake", e.key, U, e.ctx, S, d)
  <2> HIDE DEF S
  <2> QED BY ONLY <1>1, A = "shake"
<1>3. /\ CtxEnded("shake", e.key, U, Extracting(KeccakExtract(e.ctx, n).k), S, d + n)
      /\ KeccakExtract(e.ctx, n).out
           = StreamOf(CshakeInput(U[1], U[2], S), SuffixOf(U), d, n)
  <2> HIDE DEF S, d
  <2> QED BY ONLY <1>1, <1>2, e.ctx.way # "read", n \in Nat, CtxExtracts
<1>4. CtxEnded("shake", e.key, U, c, S, d + n)
  BY ONLY <1>3, x = KeccakExtract(e.ctx, n)
<1>5. x.out = StreamOf(Input(h, e), Suffix(e), d, n)
  <2> DEFINE a == CshakeInput(U[1], U[2], S)
             b == SuffixOf(U)
  <2>1. x.out = StreamOf(a, b, d, n)
    BY ONLY <1>3, x = KeccakExtract(e.ctx, n)
  <2>2. a = Input(h, e) /\ b = Suffix(e)
    BY ONLY <1>1, A = "shake"
  <2> HIDE DEF a, b
  <2> QED BY ONLY <2>1, <2>2
<1>6. EntryRight(y, m, k, Ended, Unspoiled, h.wrote)
  <2>1. /\ y.from \in 0..Len(h.wrote) /\ CustomOk(y.custom)
        /\ m => y.key = None /\ y.custom = <<0, 0>> /\ PadsRight(y, k)
    BY DEF EntryRight, PadsRight
  <2>2. CtxEnded(y.algo, y.key, y.custom, y.ctx, EndOf(y.algo, m, k, Behind(h.wrote, y.from)),
                 y.taken)
    <3>1. /\ y.algo = A /\ A = "shake" /\ y.key = e.key /\ y.custom = U /\ y.ctx = c
          /\ y.from = e.from /\ y.taken = d + n
      OBVIOUS
    <3> HIDE DEF c
    <3> QED BY ONLY <1>4, <3>1
  <2>3. y.taken \in Nat
    <3>1. y.taken = d + n
      OBVIOUS
    <3> HIDE DEF d
    <3> QED BY ONLY <1>1, <3>1, n \in Nat
  <2> QED BY ONLY <2>1, <2>2, <2>3 DEF EntryRight, Ended
<1> HIDE DEF S
<1> QED BY ONLY <1>1, <1>5, <1>6
\* A call that returns no digest and no bytes claims nothing.
LEMMA Silent ==
  ASSUME last' = Nothing
  PROVE  DigestRight' /\ StreamRight'
<1>1. last'.op = "none"
  BY DEF Nothing
<1> QED BY <1>1 DEF DigestRight, StreamRight, Claimed

\* gcry_md_read
LEMMA ReadKeeps ==
  ASSUME HandleRight(hd), NEW j \in 1..MaxEntries, Read(j)
  PROVE  HandleRight(hd') /\ DigestRight' /\ StreamRight'
<1> DEFINE h == MdFinal(hd)
           l == h.list
           e == l[j]
           c == CtxRead(e.algo, e.ctx)
           y == [e EXCEPT !.ctx = c]
<1>1. /\ Usable /\ j <= Len(hd.list)
      /\ hd' = [h EXCEPT !.list[j].ctx = c]
      /\ last' = IF c.out = None THEN Nothing
                 ELSE [op |-> "read", entry |-> j, out |-> c.out]
  BY DEF Read
<1>2. /\ h = Hd(h.hmac, h.list, h.buf, h.fin, h.wrote, h.key, h.spoiled)
      /\ Fields(h.hmac, h.list, h.buf, h.fin, h.wrote, h.key, h.spoiled, h.wrote)
      /\ h.fin = Ended /\ h.spoiled = Unspoiled /\ Len(h.list) = Len(hd.list)
  BY ONLY <1>1, HandleRight(hd), FinalIs
<1> HIDE DEF h
<1>3. h.hmac \in BOOLEAN /\ IsSeq(h.wrote) /\ IsSeq(l) /\ Len(l) \in Nat
      /\ Entries(l, h.hmac, h.key, h.fin, h.spoiled, h.wrote)
  BY ONLY <1>2, FieldsIs
<1>4. j \in 1..Len(l)
  <2>1. j \in Nat /\ j >= 1
    BY HandleAssumption
  <2> QED BY ONLY <2>1, <1>1, <1>2, <1>3
<1>5. hd' = [h EXCEPT !.list = Put(l, j, y)]
  BY ONLY <1>1 DEF Put
<1>6. IsEntry(e) /\ (~e.junk => EntryRight(e, h.hmac, h.key, h.fin, h.spoiled, h.wrote))
  BY ONLY <1>3, <1>4 DEF Entries
<1> HIDE DEF l, e
<1>7. IsEntry(y) /\ y.junk = e.junk /\ y.algo = e.algo /\ y.from = e.from /\ y.key = e.key
      /\ y.custom = e.custom
  <2> HIDE DEF c
  <2> QED BY ONLY <1>6, WithCtx
<1>8. ~e.junk => /\ EntryRight(y, h.hmac, h.key, h.fin, h.spoiled, h.wrote)
                 /\ c.out \in {None, Wanted(h, e)}
  <2> SUFFICES ASSUME ~e.junk PROVE /\ EntryRight(y, h.hmac, h.key, h.fin, h.spoiled, h.wrote)
                                    /\ c.out \in {None, Wanted(h, e)}
    OBVIOUS
  <2>1. EntryRight(e, h.hmac, h.key, Ended, Unspoiled, h.wrote)
    BY ONLY <1>2, <1>6, ~e.junk
  <2>2. c = CtxRead(e.algo, e.ctx) /\ y = [e EXCEPT !.ctx = c]
    BY ONLY TRUE
  <2> HIDE DEF c, y
  <2>3. /\ EntryRight(y, h.hmac, h.key, Ended, Unspoiled, h.wrote)
        /\ c.out \in {None, Wanted(h, e)}
    BY ONLY <2>1, <2>2, <1>3, <1>6, EntryReads
  <2> QED BY ONLY <2>3, <1>2
<1> HIDE DEF c, y
<1>9. /\ HandleRight(hd') /\ hd'.hmac = h.hmac /\ hd'.wrote = h.wrote /\ hd'.key = h.key
      /\ hd'.list[j] = y
  <2> DEFINE n == hd'
  <2>1. n = WithEntry(h, j, y) /\ j \in 1..Len(h.list)
    BY ONLY <1>4, <1>5 DEF l, WithEntry
  <2> HIDE DEF n
  <2>2. ~y.junk => EntryRight(y, h.hmac, h.key, h.fin, h.spoiled, h.wrote)
    BY ONLY <1>7, <1>8
  <2>3. /\ HandleRight(n) /\ n.hmac = h.hmac /\ n.wrote = h.wrote /\ n.key = h.key
        /\ n.list[j] = y
    BY ONLY <2>1, <2>2, <1>2, <1>7, PutKeeps
  <2> QED BY ONLY <2>3 DEF n
<1>10. Wanted(hd', y) = Wanted(h, e)
  <2> DEFINE n == hd'
  <2>1. n.hmac = h.hmac /\ n.wrote = h.wrote /\ n.key = h.key
    BY ONLY <1>9
  <2> HIDE DEF n
  <2>2. Wanted(n, y) = Wanted(h, e)
    BY ONLY <2>1, <1>7, SameInput
  <2> QED BY ONLY <2>2 DEF n
<1>11. CASE c.out = None
  <2>1. last' = Nothing
    BY ONLY <1>1, <1>11
  <2> QED BY ONLY <2>1, <1>9, Silent
<1>12. CASE c.out # None
  <2>1. last' = [op |-> "read", entry |-> j, out |-> c.out]
    BY ONLY <1>1, <1>12
  <2>2. last'.op = "read" /\ last'.entry = j /\ last'.out = c.out
    BY ONLY <2>1
  <2>3. StreamRight'
    BY ONLY <2>2 DEF StreamRight
  <2>4. ~y.junk => last'.out = Wanted(hd', y)
    BY ONLY <1>7, <1>8, <1>10, <1>12, <2>2
  <2>5. DigestRight'
    BY ONLY <2>2, <2>4, <1>9 DEF DigestRight, Claimed, Wanted
  <2> QED BY ONLY <2>3, <2>5, <1>9
<1> QED BY ONLY <1>11, <1>12

\* gcry_md_extract
LEMMA ExtractKeeps ==
  ASSUME HandleRight(hd), NEW j \in 1..MaxEntries, NEW n \in OutChunks, Extract(j, n)
  PROVE  HandleRight(hd') /\ DigestRight' /\ StreamRight'
<1> DEFINE h == MdFinal(hd)
           l == h.list
           e == l[j]
           x == KeccakExtract(e.ctx, n)
           y == [e EXCEPT !.ctx = Extracting(x.k), !.taken = e.taken + n]
<1>1. /\ Usable /\ j <= Len(hd.list) /\ e.algo = "shake" /\ e.ctx.way # "read"
      /\ hd' = [h EXCEPT !.list[j] = y]
      /\ last' = [op |-> "extract", entry |-> j, out |-> x.out]
  BY DEF Extract, Extracting
<1>2. /\ h = Hd(h.hmac, h.list, h.buf, h.fin, h.wrote, h.key, h.spoiled)
      /\ Fields(h.hmac, h.list, h.buf, h.fin, h.wrote, h.key, h.spoiled, h.wrote)
      /\ h.fin = Ended /\ h.spoiled = Unspoiled /\ Len(h.list) = Len(hd.list)
  BY ONLY <1>1, HandleRight(hd), FinalIs
<1> HIDE DEF h
<1>3. h.hmac \in BOOLEAN /\ IsSeq(h.wrote) /\ IsSeq(l) /\ Len(l) \in Nat
      /\ Entries(l, h.hmac, h.key, h.fin, h.spoiled, h.wrote)
  BY ONLY <1>2, FieldsIs
<1>4. j \in 1..Len(l) /\ n \in Nat
  <2>1. j \in Nat /\ j >= 1 /\ n \in Nat
    BY HandleAssumption
  <2> QED BY ONLY <2>1, <1>1, <1>2, <1>3
<1>5. hd' = [h EXCEPT !.list = Put(l, j, y)]
  <2> HIDE DEF y
  <2> QED BY ONLY <1>1 DEF Put
<1>6. IsEntry(e) /\ (~e.junk => EntryRight(e, h.hmac, h.key, h.fin, h.spoiled, h.wrote))
  BY ONLY <1>3, <1>4 DEF Entries
<1> HIDE DEF l, e
<1>7. /\ IsEntry(y) /\ y.junk = e.junk /\ y.algo = e.algo /\ y.from = e.from /\ y.key = e.key
      /\ y.custom = e.custom /\ y.inner = e.inner /\ y.outer = e.outer
      /\ y.ctx = Extracting(x.k) /\ y.taken = e.taken + n
  <2> DEFINE c == Extracting(x.k)
             t == e.taken + n
             A == e.inner
             B == e.outer
             C == e.from
             D == e.key
             F == e.custom
             G == e.taken
             H == e.ctx
             z == [e EXCEPT !.ctx = c, !.taken = t]
  <2>1. e \in [algo : Kinds, ctx : {H}, inner : {A}, outer : {B}, from : {C}, junk : BOOLEAN,
               key : {D}, custom : {F}, taken : {G}]
    BY ONLY <1>6 DEF IsEntry
  <2> HIDE DEF c, t, A, B, C, D, F, G, H
  <2>2. z \in [algo : Kinds, ctx : {c}, inner : {A}, outer : {B}, from : {C}, junk : BOOLEAN,
               key : {D}, custom : {F}, taken : {t}]
    BY ONLY <2>1
  <2>3. z.junk = e.junk /\ z.algo = e.algo
    BY ONLY <2>1
  <2> HIDE DEF z
  <2>4. /\ z.from = C /\ z.key = D /\ z.custom = F /\ z.inner = A /\ z.outer = B
        /\ z.ctx = c /\ z.taken = t
    BY ONLY <2>2
  <2>5. IsEntry(z)
    BY ONLY <2>2, <2>4 DEF IsEntry
  <2>6. z = y
    BY ONLY TRUE DEF z, c, t
  <2> HIDE DEF y
  <2> QED BY ONLY <2>3, <2>4, <2>5, <2>6 DEF c, t, A, B, C, D, F
<1>8. ~e.junk => /\ EntryRight(y, h.hmac, h.key, h.fin, h.spoiled, h.wrote)
                 /\ e.taken \in Nat
                 /\ x.out = StreamOf(Input(h, e), Suffix(e), e.taken, n)
  <2> SUFFICES ASSUME ~e.junk
               PROVE  /\ EntryRight(y, h.hmac, h.key, h.fin, h.spoiled, h.wrote)
                      /\ e.taken \in Nat
                      /\ x.out = StreamOf(Input(h, e), Suffix(e), e.taken, n)
    OBVIOUS
  <2>1. EntryRight(e, h.hmac, h.key, Ended, Unspoiled, h.wrote)
    BY ONLY <1>2, <1>6, ~e.junk
  <2>2. x = KeccakExtract(e.ctx, n) /\ e.algo = "shake" /\ e.ctx.way # "read"
    BY ONLY <1>1 DEF e
  <2> HIDE DEF x, y
  <2>3. /\ EntryRight(y, h.hmac, h.key, Ended, Unspoiled, h.wrote) /\ e.taken \in Nat
        /\ x.out = StreamOf(Input(h, e), Suffix(e), e.taken, n)
    BY ONLY <2>1, <2>2, <1>3, <1>4, <1>6, <1>7, EntryExtracts, ZenonT(60)
  <2> QED BY ONLY <2>3, <1>2
<1> HIDE DEF x, y
<1>9. /\ HandleRight(hd') /\ hd'.hmac = h.hmac /\ hd'.wrote = h.wrote /\ hd'.key = h.key
      /\ hd'.list[j] = y
  <2> DEFINE v == hd'
  <2>1. v = WithEntry(h, j, y) /\ j \in 1..Len(h.list)
    BY ONLY <1>4, <1>5 DEF l, WithEntry
  <2> HIDE DEF v
  <2>2. ~y.junk => EntryRight(y, h.hmac, h.key, h.fin, h.spoiled, h.wrote)
    BY ONLY <1>7, <1>8
  <2>3. /\ HandleRight(v) /\ v.hmac = h.hmac /\ v.wrote = h.wrote /\ v.key = h.key
        /\ v.list[j] = y
    BY ONLY <2>1, <2>2, <1>2, <1>7, PutKeeps
  <2> QED BY ONLY <2>3 DEF v
<1>10. Input(hd', y) = Input(h, e) /\ Suffix(y) = Suffix(e)
  <2> DEFINE v == hd'
  <2>1. v.hmac = h.hmac /\ v.wrote = h.wrote /\ v.key = h.key
    BY ONLY <1>9
  <2> HIDE DEF v
  <2>2. Input(v, y) = Input(h, e) /\ Suffix(y) = Suffix(e)
    BY ONLY <2>1, <1>7, SameInput
  <2> QED BY ONLY <2>2 DEF v
<1>11. last'.op = "extract" /\ last'.entry = j /\ last'.out = x.out
  BY ONLY <1>1
<1>12. DigestRight'
  BY ONLY <1>11 DEF DigestRight
<1>13. ASSUME ~y.junk
       PROVE  x.out = [i \in 1..Len(x.out) |->
                         ShakeByte(Input(hd', y), Suffix(y), y.taken - Len(x.out) + i)]
  <2> DEFINE s == Input(hd', y)
             u == Suffix(y)
             d == e.taken
  <2>1. x.out = StreamOf(s, u, d, n) /\ d \in Nat /\ y.taken = d + n
    BY ONLY <1>7, <1>8, <1>10, <1>13
  <2> HIDE DEF s, u, d
  <2>2. x.out = [i \in 1..n |-> ShakeByte(s, u, d + i)]
    BY ONLY <2>1 DEF StreamOf
  <2>3. Len(x.out) = n
    BY ONLY <2>2, <1>4, SeqFcn
  <2>4. \A i \in 1..n : y.taken - n + i = d + i
    BY ONLY <2>1, <1>4
  <2>5. \A i \in 1..n : ShakeByte(s, u, y.taken - n + i) = ShakeByte(s, u, d + i)
    BY ONLY <2>4
  <2>6. [i \in 1..n |-> ShakeByte(s, u, y.taken - n + i)] = [i \in 1..n |-> ShakeByte(s, u, d + i)]
    BY ONLY <2>5
  <2> QED BY ONLY <2>2, <2>3, <2>6 DEF s, u
<1>14. StreamRight'
  BY ONLY <1>9, <1>11, <1>13 DEF StreamRight, Claimed
<1> QED BY ONLY <1>9, <1>12, <1>14
-----------------------------------------------------------------------------
(* The specification *)

\* The handle is in order, and what the last call returned is right.
MdInv == HandleRight(hd) /\ DigestRight /\ StreamRight

\* md_open
LEMMA OpenRight ==
  ASSUME Init
  PROVE  MdInv
<1>1. PICK m \in BOOLEAN : hd = MdOpen(m)
  BY DEF Init
<1> DEFINE z == <<>>
           no == FALSE
<1>2. hd = Hd(m, z, z, no, z, None, no)
  BY ONLY <1>1 DEF MdOpen, Hd
<1>3. IsSeq(z) /\ Len(z) = 0 /\ z = z \o z
  BY ONLY EmptyIs, ConcatEmpty
<1>4. Fields(m, z, z, no, z, None, no, z)
  <2>1. Entries(z, m, None, no, no, z)
    <3> HIDE DEF z
    <3> QED BY ONLY <1>3 DEF Entries
  <2>2. no = FALSE /\ no \in BOOLEAN
    OBVIOUS
  <2> HIDE DEF z, no
  <2> QED BY ONLY <1>3, <2>1, <2>2, m \in BOOLEAN DEF Fields
<1>5. HandleRight(hd)
  <2> HIDE DEF z, no
  <2> QED BY ONLY <1>2, <1>4, Made
<1>6. last.op = "none"
  BY DEF Init, Nothing
<1>7. DigestRight /\ StreamRight
  BY ONLY <1>6 DEF DigestRight, StreamRight, Claimed
<1> QED BY ONLY <1>5, <1>7 DEF MdInv

\* Every call keeps the handle in order and returns what is right.
LEMMA CallsKeep ==
  ASSUME PrefixesPartial, MdInv, [Next]_vars
  PROVE  MdInv'
<1>1. HandleRight(hd)
  BY DEF MdInv
<1>2. CASE Copy
  <2>1. HandleRight(hd')
    BY ONLY <1>1, <1>2, CopyKeeps
  <2>2. last' = Nothing
    BY ONLY <1>2 DEF Copy
  <2> QED BY ONLY <2>1, <2>2, Silent DEF MdInv
<1>3. CASE Putc
  <2>1. HandleRight(hd')
    BY ONLY <1>1, <1>3, PutcKeeps
  <2>2. last' = Nothing
    BY ONLY <1>3 DEF Putc
  <2> QED BY ONLY <2>1, <2>2, Silent DEF MdInv
<1>4. CASE Reset
  <2>1. hd' = MdReset(hd) /\ last' = Nothing
    BY ONLY <1>4 DEF Reset
  <2>2. HandleRight(hd')
    BY ONLY <1>1, <2>1, ResetKeeps
  <2> QED BY ONLY <2>1, <2>2, Silent DEF MdInv
<1>5. ASSUME NEW algo \in Algos, Enable(algo) PROVE MdInv'
  <2>1. HandleRight(hd')
    BY ONLY <1>1, <1>5, EnableKeeps
  <2>2. last' = Nothing
    BY ONLY <1>5 DEF Enable
  <2> QED BY ONLY <2>1, <2>2, Silent DEF MdInv
<1>6. ASSUME NEW key \in Keys, SetKey(key) PROVE MdInv'
  <2>1. HandleRight(hd')
    BY ONLY <1>1, <1>6, SetKeyKeeps
  <2>2. last' = Nothing
    BY ONLY <1>6 DEF SetKey
  <2> QED BY ONLY <2>1, <2>2, Silent DEF MdInv
<1>7. ASSUME NEW s \in Customs, Customize(1, s) PROVE MdInv'
  <2>1. HandleRight(hd')
    BY ONLY PrefixesPartial, <1>1, <1>7, CustomKeeps
  <2>2. last' = Nothing
    BY ONLY <1>7 DEF Customize
  <2> QED BY ONLY <2>1, <2>2, Silent DEF MdInv
<1>8. ASSUME NEW n \in Chunks, Write(n) PROVE MdInv'
  <2>1. HandleRight(hd')
    BY ONLY <1>1, <1>8, WriteKeeps
  <2>2. last' = Nothing
    BY ONLY <1>8 DEF Write
  <2> QED BY ONLY <2>1, <2>2, Silent DEF MdInv
<1>9. ASSUME NEW j \in 1..MaxEntries, Read(j) PROVE MdInv'
  BY ONLY <1>1, <1>9, ReadKeeps DEF MdInv
<1>10. ASSUME NEW j \in 1..MaxEntries, NEW n \in OutChunks, Extract(j, n) PROVE MdInv'
  BY ONLY <1>1, <1>10, ExtractKeeps DEF MdInv
<1>11. CASE UNCHANGED vars
  <2>1. hd' = hd /\ last' = last
    BY ONLY <1>11 DEF vars
  <2> QED BY ONLY <2>1, MdInv DEF MdInv, DigestRight, StreamRight, Claimed
<1> QED
  BY ONLY [Next]_vars, <1>2, <1>3, <1>4, <1>5, <1>6, <1>7, <1>8, <1>9, <1>10, <1>11 DEF Next

\* For every length of a block and of the buffer of gcry_md_putc, every cut of
\* the data into calls, every set of algorithms and keys: a digest or HMAC read
\* from a handle (md_final, md_read) is the one the algorithm defines for the
\* bytes given to it since it was opened or reset.  The names for cSHAKE are those
\* whose prefix ends within a block.
THEOREM MdDigest ==
  ASSUME PrefixesPartial
  PROVE  Spec => []DigestRight
<1>1. Init => MdInv
  BY OpenRight
<1>2. MdInv /\ [Next]_vars => MdInv'
  BY CallsKeep
<1>3. MdInv => DigestRight
  BY DEF MdInv
<1> QED BY <1>1, <1>2, <1>3, PTL DEF Spec

\* In the same generality, the bytes that gcry_md_extract calls return one after
\* another (do_keccak_extract) are the output stream of the input, without a gap
\* or a repetition.
THEOREM MdStream ==
  ASSUME PrefixesPartial
  PROVE  Spec => []StreamRight
<1>1. Init => MdInv
  BY OpenRight
<1>2. MdInv /\ [Next]_vars => MdInv'
  BY CallsKeep
<1>3. MdInv => StreamRight
  BY DEF MdInv
<1> QED BY <1>1, <1>2, <1>3, PTL DEF Spec

=============================================================================
