---------------------------- MODULE SecMemProofs ----------------------------
(***************************************************************************)
(* Proofs about SecMem, for every head size, alignment, pool size, set of  *)
(* requests and number of pools.  The argument goes from the block lists   *)
(* (merging, splitting and releasing keep a chain) to single pools, to the *)
(* outcomes of malloc, and from there to the invariant of the allocator.   *)
(* At the end the allocator is shown to implement the heap of SecureHeap:  *)
(* whatever the block lists go through, each operation is one step of the  *)
(* abstract heap or no step at all.                                        *)
(* The statistics follow: sums over the sets of allocated blocks, and      *)
(* what each operation adds to them and takes away.                        *)
(* The last part is about PoolList, the walk over the pools that takes no  *)
(* lock, for any number of threads and pools: pointers are attributed to   *)
(* the allocator they came from, and a walk never stands on a half visible *)
(* descriptor.                                                             *)
(***************************************************************************)
EXTENDS SecMem, PoolList, TLAPS, FiniteSetTheorems, WellFoundedInduction

(* Block lists *)

\* Merging a free block with its free neighbours, as mb_merge does, keeps the
\* chain of headers and every allocated block, and leaves no free neighbours.
LEMMA MergeKeepsChain ==
  ASSUME NEW B \in SUBSET Block, NEW s \in Nat, Chain(B, s),
         NEW b \in B, ~b.active
  PROVE  /\ Merge(B, b) \in SUBSET Block
         /\ Chain(Merge(B, b), s)
         /\ \A c \in Block : c.active => (c \in Merge(B, b) <=> c \in B)
         /\ (\E c \in B : c.off = 0) => \E c \in Merge(B, b) : c.off = 0
         /\ (\A c, d \in B : d.off = End(c) => c.active \/ d.active \/ c = b \/ d = b)
              => Coalesced(Merge(B, b))
<1> DEFINE prev == Idle(Preceding(B, b))
           next == Idle(Following(B, b))
           lo   == IF prev = {} THEN b.off ELSE (CHOOSE c \in prev : TRUE).off
           hi   == IF next = {} THEN End(b) ELSE End(CHOOSE c \in next : TRUE)
           m    == [off |-> lo, size |-> hi - lo - HeadSize, active |-> FALSE]
           R    == B \ ({b} \cup prev \cup next)
<1>0. HeadSize \in Nat /\ HeadSize > 0
  BY SizesAssumption
<1>1. /\ \A c \in B : c \in Block /\ c.off \in Nat /\ c.size \in Nat /\ End(c) \in Nat
                      /\ c.off + HeadSize <= End(c) /\ End(c) <= s
      /\ \A c, d \in B : c # d => End(c) <= d.off \/ End(d) <= c.off
  BY <1>0 DEF Chain, Block, End
<1>2. prev = {c \in B : End(c) = b.off /\ ~c.active}
  BY DEF Preceding, Idle
<1>3. next = {c \in B : c.off = End(b) /\ ~c.active}
  BY DEF Following, Idle
<1>4. \/ prev = {} /\ lo = b.off
      \/ \E p \in B : prev = {p} /\ lo = p.off /\ End(p) = b.off
  <2>1. CASE prev = {}
    BY <2>1
  <2>2. CASE prev # {}
    <3> DEFINE p == CHOOSE c \in prev : TRUE
    <3>1. p \in prev
      BY <2>2
    <3>2. \A c \in prev : c = p
      BY <3>1, <1>1, <1>2, <1>0
    <3> QED BY <3>1, <3>2, <2>2, <1>2
  <2> QED BY <2>1, <2>2
<1>5. \/ next = {} /\ hi = End(b)
      \/ \E q \in B : next = {q} /\ hi = End(q) /\ q.off = End(b)
  <2>1. CASE next = {}
    BY <2>1
  <2>2. CASE next # {}
    <3> DEFINE q == CHOOSE c \in next : TRUE
    <3>1. q \in next
      BY <2>2
    <3>2. \A c \in next : c = q
      BY <3>1, <1>1, <1>3, <1>0
    <3> QED BY <3>1, <3>2, <2>2, <1>3
  <2> QED BY <2>1, <2>2
<1> HIDE DEF prev, next, lo, hi
<1>6. /\ lo \in Nat /\ hi \in Nat /\ lo <= b.off /\ End(b) <= hi /\ hi <= s
      /\ hi - lo - HeadSize \in Nat
  BY <1>0, <1>1, <1>4, <1>5
<1>7. m \in Block /\ m.off = lo /\ End(m) = hi /\ ~m.active
  BY <1>6, <1>0 DEF Block, End
<1>8. Merge(B, b) = R \cup {m}
  BY DEF Merge, prev, next, lo, hi
<1>9. \A c \in B : c \in R \/ (lo <= c.off /\ End(c) <= hi /\ ~c.active)
  BY <1>1, <1>2, <1>3, <1>4, <1>5, <1>6, <1>0
<1>10. \A c \in R : End(c) <= lo \/ hi <= c.off
  BY <1>0, <1>1, <1>4, <1>5
<1>11. \A c \in B : (End(c) = lo => c \in R) /\ (c.off = hi => c \in R)
  BY <1>9, <1>1, <1>0, <1>6
<1> HIDE DEF m, R
<1>12. Merge(B, b) \in SUBSET Block
  BY <1>7, <1>8, <1>1 DEF R
<1>13. Chain(Merge(B, b), s)
  <2>1. \A c \in R \cup {m} : End(c) <= s
    BY <1>1, <1>6, <1>7 DEF R
  <2>2. \A c \in R \cup {m} : End(c) # s => \E d \in R \cup {m} : d.off = End(c)
    <3>1. CASE hi # s
      <4>1. \E d \in B : d.off = hi
        BY <3>1, <1>5 DEF Chain, Following
      <4> QED BY <4>1, <1>11, <1>7, <1>1, <1>9, <1>10, <1>6, <1>0 DEF Chain, Following, R
    <3>2. CASE hi = s
      BY <3>2, <1>7, <1>1, <1>9, <1>10, <1>6, <1>0 DEF Chain, Following, R
    <3> QED BY <3>1, <3>2
  <2>3. \A c \in R \cup {m} : c.off # 0 => \E d \in R \cup {m} : End(d) = c.off
    <3>1. CASE lo # 0
      <4>1. \E d \in B : End(d) = lo
        BY <3>1, <1>4 DEF Chain, Preceding
      <4> QED BY <4>1, <1>11, <1>7, <1>1, <1>9, <1>10, <1>6, <1>0 DEF Chain, Preceding, R
    <3>2. CASE lo = 0
      BY <3>2, <1>7, <1>1, <1>9, <1>10, <1>6, <1>0 DEF Chain, Preceding, R
    <3> QED BY <3>1, <3>2
  <2>4. \A c, d \in R \cup {m} : c # d => End(c) <= d.off \/ End(d) <= c.off
    BY <1>1, <1>7, <1>10 DEF R
  <2> QED BY <2>1, <2>2, <2>3, <2>4, <1>8 DEF Chain, Following, Preceding
<1>14. \A c \in Block : c.active => (c \in Merge(B, b) <=> c \in B)
  BY <1>7, <1>8, <1>9 DEF R
<1>15. (\E c \in B : c.off = 0) => \E c \in Merge(B, b) : c.off = 0
  BY <1>7, <1>8, <1>9, <1>6
<1>16. ASSUME \A c, d \in B : d.off = End(c) => c.active \/ d.active \/ c = b \/ d = b
       PROVE  Coalesced(Merge(B, b))
  <2> SUFFICES ASSUME NEW c \in R \cup {m}, NEW d \in R \cup {m}, d.off = End(c),
                      ~c.active, ~d.active
               PROVE  FALSE
    BY <1>8 DEF Coalesced
  <2>1. CASE c \in R /\ d \in R
    BY <2>1, <1>16 DEF R
  <2>2. CASE c = m /\ d \in R
    BY <2>2, <1>16, <1>7, <1>5, <1>3, <1>1, <1>0 DEF R
  <2>3. CASE c \in R /\ d = m
    BY <2>3, <1>16, <1>7, <1>4, <1>2, <1>1, <1>0 DEF R
  <2>4. CASE c = m /\ d = m
    BY <2>4, <1>7, <1>6, <1>1, <1>0
  <2> QED BY <2>1, <2>2, <2>3, <2>4
<1> QED BY <1>12, <1>13, <1>14, <1>15, <1>16

\* Taking the free block b for n units, as mb_get_new does, keeps the chain,
\* turns exactly one block active, at b's place and large enough, and leaves no
\* free neighbours.
LEMMA CarveKeepsChain ==
  ASSUME NEW B \in SUBSET Block, NEW s \in Nat, Chain(B, s), Coalesced(B),
         NEW b \in B, ~b.active, NEW n \in Nat, b.size >= n
  PROVE  LET a == [off |-> b.off, size |-> Granted(b, n), active |-> TRUE]
         IN  /\ Carve(B, b, n) \in SUBSET Block
             /\ Chain(Carve(B, b, n), s)
             /\ Coalesced(Carve(B, b, n))
             /\ a \in Block /\ n <= a.size
             /\ \A c \in Block : c.active => (c \in Carve(B, b, n) <=> c \in B \cup {a})
             /\ (\E c \in B : c.off = 0) => \E c \in Carve(B, b, n) : c.off = 0
<1> DEFINE a == [off |-> b.off, size |-> Granted(b, n), active |-> TRUE]
<1>0. HeadSize \in Nat /\ HeadSize > 0
  BY SizesAssumption
<1>1. /\ \A c \in B : c \in Block /\ c.off \in Nat /\ c.size \in Nat /\ End(c) \in Nat
                      /\ c.off + HeadSize <= End(c) /\ End(c) <= s
      /\ \A c, d \in B : c # d => End(c) <= d.off \/ End(d) <= c.off
  BY <1>0 DEF Chain, Block, End
<1>2. a \in Block /\ n <= a.size /\ a.off = b.off /\ a.active
  BY <1>0, <1>1 DEF Granted, Block
<1>3. CASE b.size - n > HeadSize
  <2> DEFINE r  == [off |-> b.off + HeadSize + n,
                    size |-> b.size - n - HeadSize, active |-> FALSE]
             B1 == (B \ {b}) \cup {a, r}
  <2>1. /\ r \in Block /\ ~r.active /\ r.off = End(a) /\ End(r) = End(b)
        /\ a.size = n /\ End(a) \in Nat /\ End(a) < End(r)
    BY <1>0, <1>1, <1>3 DEF Granted, Block, End
  <2>2. Carve(B, b, n) = Merge(B1, r)
    BY <1>3 DEF Carve, Granted
  <2> HIDE DEF a, r
  <2>3. B1 \in SUBSET Block
    BY <1>2, <2>1
  <2>4. Chain(B1, s)
    <3>1. \A c \in B1 : End(c) <= s
      BY <1>0, <1>1, <1>2, <2>1
    <3>2. \A c \in B1 : End(c) # s => \E d \in B1 : d.off = End(c)
      BY <1>0, <1>1, <1>2, <2>1 DEF Chain, Following
    <3>3. \A c \in B1 : c.off # 0 => \E d \in B1 : End(d) = c.off
      BY <1>0, <1>1, <1>2, <2>1 DEF Chain, Preceding
    <3>4. \A c, d \in B1 : c # d => End(c) <= d.off \/ End(d) <= c.off
      BY <1>0, <1>1, <1>2, <2>1, <2>3 DEF End, Block
    <3> QED BY <3>1, <3>2, <3>3, <3>4 DEF Chain, Following, Preceding
  <2>5. \A c, d \in B1 : d.off = End(c) => c.active \/ d.active \/ c = r \/ d = r
    BY <1>2, <2>1 DEF Coalesced
  <2>6. (\E c \in B : c.off = 0) => \E c \in B1 : c.off = 0
    BY <1>2
  <2>7. \A c \in Block : c.active => (c \in B1 <=> c \in B \cup {a})
    BY <2>1
  <2>8. r \in B1
    OBVIOUS
  <2> HIDE DEF B1
  <2>9. /\ Merge(B1, r) \in SUBSET Block
        /\ Chain(Merge(B1, r), s)
        /\ \A c \in Block : c.active => (c \in Merge(B1, r) <=> c \in B1)
        /\ (\E c \in B1 : c.off = 0) => \E c \in Merge(B1, r) : c.off = 0
        /\ Coalesced(Merge(B1, r))
    BY <2>1, <2>3, <2>4, <2>5, <2>8, MergeKeepsChain
  <2> QED BY <1>2, <2>2, <2>6, <2>7, <2>9 DEF a
<1>4. CASE ~(b.size - n > HeadSize)
  <2> DEFINE C == (B \ {b}) \cup {a}
  <2>1. Carve(B, b, n) = C
    BY <1>1, <1>4 DEF Carve, Granted, Block
  <2>2. End(a) = End(b)
    BY <1>4 DEF Granted, End
  <2> HIDE DEF a
  <2>3. C \in SUBSET Block /\ Chain(C, s)
    <3>1. \A c \in C : c \in Block /\ End(c) <= s
      BY <1>1, <1>2, <2>2
    <3>2. \A c \in C : End(c) # s => \E d \in C : d.off = End(c)
      BY <1>0, <1>1, <1>2, <2>2 DEF Chain, Following
    <3>3. \A c \in C : c.off # 0 => \E d \in C : End(d) = c.off
      BY <1>0, <1>1, <1>2, <2>2 DEF Chain, Preceding
    <3>4. \A c, d \in C : c # d => End(c) <= d.off \/ End(d) <= c.off
      BY <1>0, <1>1, <1>2, <2>2
    <3> QED BY <3>1, <3>2, <3>3, <3>4 DEF Chain, Following, Preceding
  <2>4. Coalesced(C)
    BY <1>1, <1>2, <2>2 DEF Coalesced
  <2> QED BY <1>1, <1>2, <2>1, <2>3, <2>4 DEF a
<1> QED BY <1>3, <1>4

\* What _gcry_secmem_free_internal leaves of the block list.
Released(B, b) ==
  Merge((B \ {b}) \cup {[b EXCEPT !.active = FALSE]}, [b EXCEPT !.active = FALSE])

\* Releasing an allocated block, as _gcry_secmem_free_internal does, keeps the
\* chain and every other allocated block, and leaves no free neighbours.
LEMMA ReleaseKeepsChain ==
  ASSUME NEW B \in SUBSET Block, NEW s \in Nat, Chain(B, s), Coalesced(B),
         NEW b \in B
  PROVE  /\ Released(B, b) \in SUBSET Block
         /\ Chain(Released(B, b), s)
         /\ Coalesced(Released(B, b))
         /\ \A c \in Block : c.active => (c \in Released(B, b) <=> c \in B \ {b})
         /\ (\E c \in B : c.off = 0) => \E c \in Released(B, b) : c.off = 0
<1> DEFINE f == [b EXCEPT !.active = FALSE]
           C == (B \ {b}) \cup {f}
<1>0. HeadSize \in Nat /\ HeadSize > 0
  BY SizesAssumption
<1>1. /\ \A c \in B : c \in Block /\ c.off \in Nat /\ c.size \in Nat /\ End(c) \in Nat
                      /\ c.off + HeadSize <= End(c) /\ End(c) <= s
      /\ \A c, d \in B : c # d => End(c) <= d.off \/ End(d) <= c.off
  BY <1>0 DEF Chain, Block, End
<1>2. f \in Block /\ f.off = b.off /\ End(f) = End(b) /\ ~f.active
  BY <1>1 DEF Block, End
<1>3. Released(B, b) = Merge(C, f)
  BY DEF Released
<1> HIDE DEF f
<1>4. C \in SUBSET Block /\ f \in C
  BY <1>2
<1>5. Chain(C, s)
  <2>1. \A c \in C : End(c) <= s
    BY <1>1, <1>2
  <2>2. \A c \in C : End(c) # s => \E d \in C : d.off = End(c)
    BY <1>0, <1>1, <1>2 DEF Chain, Following
  <2>3. \A c \in C : c.off # 0 => \E d \in C : End(d) = c.off
    BY <1>0, <1>1, <1>2 DEF Chain, Preceding
  <2>4. \A c, d \in C : c # d => End(c) <= d.off \/ End(d) <= c.off
    BY <1>0, <1>1, <1>2
  <2> QED BY <2>1, <2>2, <2>3, <2>4 DEF Chain, Following, Preceding
<1>6. \A c, d \in C : d.off = End(c) => c.active \/ d.active \/ c = f \/ d = f
  BY DEF Coalesced
<1>7. \A c \in Block : c.active => (c \in C <=> c \in B \ {b})
  BY <1>2
<1>8. (\E c \in B : c.off = 0) => \E c \in C : c.off = 0
  BY <1>2
<1> HIDE DEF C
<1>9. /\ Merge(C, f) \in SUBSET Block
      /\ Chain(Merge(C, f), s)
      /\ \A c \in Block : c.active => (c \in Merge(C, f) <=> c \in C)
      /\ (\E c \in C : c.off = 0) => \E c \in Merge(C, f) : c.off = 0
      /\ Coalesced(Merge(C, f))
  BY <1>2, <1>4, <1>5, <1>6, MergeKeepsChain
<1> QED BY <1>3, <1>7, <1>8, <1>9

-----------------------------------------------------------------------------
(* Sizes *)

\* C's rounding idiom: ((n + d - 1) / d) * d is never below n.
LEMMA CeilNotBelow ==
  ASSUME NEW n \in Nat, NEW d \in Nat \ {0}
  PROVE  /\ ((n + d - 1) \div d) * d \in Nat
         /\ ((n + d - 1) \div d) * d >= n
<1> DEFINE q == (n + d - 1) \div d
           r == (n + d - 1) % d
<1>1. q \in Nat /\ r \in Nat /\ r < d /\ n + d - 1 = d * q + r
  OBVIOUS
<1> HIDE DEF q, r
<1>2. d * q \in Nat /\ d * q = q * d
  BY <1>1
<1>3. d * q >= n
  BY <1>1, <1>2
<1> QED BY <1>2, <1>3 DEF q

\* No request comes within Align of the modulus of size_t.
NoWrap == \A n \in Requests : n + Align - 1 < SizeMod

\* As long as the addition does not wrap, the size malloc_internal searches for
\* is at least the size asked for.
LEMMA RoundUpNotBelow ==
  ASSUME NoWrap, NEW n \in Requests
  PROVE  RoundUp(n) \in Nat /\ RoundUp(n) >= n
<1>1. n \in Nat /\ Align \in Nat \ {0} /\ SizeMod \in Nat \ {0}
  BY SizesAssumption, InputsAssumption
<1>2. n + Align - 1 \in Nat /\ n + Align - 1 < SizeMod
  BY <1>1 DEF NoWrap
<1>3. (n + Align - 1) % SizeMod = n + Align - 1
  BY <1>1, <1>2
<1> QED BY <1>1, <1>3, CeilNotBelow DEF RoundUp

\* A page-rounded pool is no smaller than asked for.
LEMMA PageRoundNotBelow ==
  ASSUME NEW n \in Nat
  PROVE  PageRound(n) \in Nat /\ PageRound(n) >= n
  BY CeilNotBelow, SizesAssumption DEF PageRound

-----------------------------------------------------------------------------
(* Pools *)

GoodPool(p) == p \in Pool /\ Tiled(p) /\ Coalesced(p.blocks) /\ Wiped(p)

\* stats_update touches nothing but the two counters.
LEMMA StatsKeepPool ==
  ASSUME NEW r \in Pool, NEW k \in Nat
  PROVE  /\ StatsAdd(r, k) \in Pool /\ StatsSub(r, k) \in Pool
         /\ StatsAdd(r, k).blocks = r.blocks /\ StatsSub(r, k).blocks = r.blocks
         /\ StatsAdd(r, k).size = r.size /\ StatsSub(r, k).size = r.size
         /\ StatsAdd(r, k).okay = r.okay /\ StatsSub(r, k).okay = r.okay
         /\ StatsAdd(r, k).dirty = r.dirty /\ StatsSub(r, k).dirty = r.dirty
<1>1. r.cur_alloced + k \in Int /\ r.cur_blocks + 1 \in Int
      /\ r.cur_alloced - k \in Int /\ r.cur_blocks - 1 \in Int
  BY DEF Pool
<1>2. \A x, y \in Int : LET q == [r EXCEPT !.cur_alloced = x, !.cur_blocks = y]
                       IN  /\ q \in Pool /\ q.blocks = r.blocks
                           /\ q.size = r.size /\ q.okay = r.okay
                           /\ q.dirty = r.dirty
  BY DEF Pool
<1> QED BY <1>1, <1>2 DEF StatsAdd, StatsSub

\* Taking a block from a pool (mb_get_new and stats_update) keeps the pool good
\* and adds one active block, where no active block was, of sufficient size.
LEMMA TakeFromGood ==
  ASSUME NEW p, GoodPool(p), NEW n \in Nat, NEW b \in FirstFit(p, n)
  PROVE  LET q == TakeFrom(p, n, b)
             a == [off |-> b.off, size |-> Granted(b, n), active |-> TRUE]
         IN  /\ GoodPool(q)
             /\ q.okay = p.okay /\ q.dirty = p.dirty
             /\ a \in Block /\ a.off = b.off /\ n <= a.size /\ a.active
             /\ \A c \in Block : c.active => (c \in q.blocks <=> c \in p.blocks \cup {a})
             /\ \A c \in p.blocks : c.active => c.off # b.off
<1> DEFINE q == TakeFrom(p, n, b)
           a == [off |-> b.off, size |-> Granted(b, n), active |-> TRUE]
           B == p.blocks
<1>1. p \in Pool /\ B \in SUBSET Block /\ p.size \in Nat /\ Chain(B, p.size) /\ Coalesced(B)
  BY DEF GoodPool, Tiled, Pool
<1>2. b \in B /\ ~b.active /\ b.size >= n
  BY DEF FirstFit, Fits
<1>3. /\ Carve(B, b, n) \in SUBSET Block
      /\ Chain(Carve(B, b, n), p.size)
      /\ Coalesced(Carve(B, b, n))
      /\ a \in Block /\ n <= a.size
      /\ \A c \in Block : c.active => (c \in Carve(B, b, n) <=> c \in B \cup {a})
      /\ (\E c \in B : c.off = 0) => \E c \in Carve(B, b, n) : c.off = 0
  BY <1>1, <1>2, CarveKeepsChain
<1>4. /\ q \in Pool /\ q.blocks = Carve(B, b, n)
      /\ q.size = p.size /\ q.okay = p.okay /\ q.dirty = p.dirty
  <2> DEFINE C == Carve(B, b, n)
             r == [p EXCEPT !.blocks = C]
  <2>1. Granted(b, n) \in Nat
    BY <1>3 DEF Block
  <2>2. /\ r \in Pool /\ r.blocks = C /\ r.size = p.size /\ r.okay = p.okay
        /\ r.dirty = p.dirty
    BY <1>1, <1>3 DEF Pool
  <2>3. q = StatsAdd(r, Granted(b, n))
    BY DEF TakeFrom
  <2> HIDE DEF r, C, q
  <2>4. /\ q \in Pool /\ q.blocks = r.blocks /\ q.size = r.size
        /\ q.okay = r.okay /\ q.dirty = r.dirty
    BY <2>1, <2>2, <2>3, StatsKeepPool
  <2> QED BY <2>2, <2>4 DEF C
<1>5. Tiled(q)
  BY <1>2, <1>3, <1>4 DEF GoodPool, Tiled
<1>6. Wiped(q)
  BY <1>1, <1>3, <1>4 DEF GoodPool, Wiped
<1>7. \A c \in B : c.active => c.off # b.off
  BY <1>1, <1>2, SizesAssumption DEF Chain, End, Block
<1> QED BY <1>3, <1>4, <1>5, <1>6, <1>7 DEF GoodPool

\* Releasing a block keeps the pool good, removes that block alone from the
\* active ones and wipes its span.
LEMMA FreeBlockGood ==
  ASSUME NEW p, GoodPool(p), NEW b \in p.blocks
  PROVE  LET q == FreeBlock(p, b)
         IN  /\ GoodPool(q)
             /\ q.okay = p.okay /\ q.dirty = p.dirty \ Span(b)
             /\ \A c \in Block : c.active => (c \in q.blocks <=> c \in p.blocks \ {b})
<1> DEFINE q == FreeBlock(p, b)
           B == p.blocks
<1>1. p \in Pool /\ B \in SUBSET Block /\ p.size \in Nat /\ Chain(B, p.size) /\ Coalesced(B)
  BY DEF GoodPool, Tiled, Pool
<1>2. /\ Released(B, b) \in SUBSET Block
      /\ Chain(Released(B, b), p.size)
      /\ Coalesced(Released(B, b))
      /\ \A c \in Block : c.active => (c \in Released(B, b) <=> c \in B \ {b})
      /\ (\E c \in B : c.off = 0) => \E c \in Released(B, b) : c.off = 0
  BY <1>1, ReleaseKeepsChain
<1>3. /\ q \in Pool /\ q.blocks = Released(B, b) /\ q.dirty = p.dirty \ Span(b)
      /\ q.size = p.size /\ q.okay = p.okay
  <2> DEFINE C == Released(B, b)
             r == [p EXCEPT !.dirty = p.dirty \ Span(b), !.blocks = C]
  <2>1. b.size \in Nat
    BY <1>1 DEF Block
  <2>2. /\ r \in Pool /\ r.blocks = C /\ r.size = p.size /\ r.okay = p.okay
        /\ r.dirty = p.dirty \ Span(b)
    BY <1>1, <1>2 DEF Pool
  <2>3. q = StatsSub(r, b.size)
    BY DEF FreeBlock, Released
  <2> HIDE DEF r, C, q
  <2>4. /\ q \in Pool /\ q.blocks = r.blocks /\ q.size = r.size
        /\ q.okay = r.okay /\ q.dirty = r.dirty
    BY <2>1, <2>2, <2>3, StatsKeepPool
  <2> QED BY <2>2, <2>4 DEF C
<1>4. Tiled(q)
  BY <1>2, <1>3 DEF GoodPool, Tiled
<1>5. Wiped(q)
  BY <1>1, <1>2, <1>3 DEF GoodPool, Wiped
<1> QED BY <1>2, <1>3, <1>4, <1>5 DEF GoodPool

\* A pool whose memory was just formatted is good and holds nothing.
LEMMA FormatGood ==
  ASSUME NEW p \in Pool, NEW n \in Nat, n > HeadSize, NEW mm \in BOOLEAN
  PROVE  LET q == [Format(p, n) EXCEPT !.is_mmapped = mm]
         IN  /\ GoodPool(q) /\ GoodPool(Format(p, n))
             /\ q.dirty = {} /\ Format(p, n).dirty = {}
             /\ \A c \in q.blocks \cup Format(p, n).blocks : ~c.active
<1> DEFINE b == [off |-> 0, size |-> n - HeadSize, active |-> FALSE]
           f == Format(p, n)
           q == [f EXCEPT !.is_mmapped = mm]
<1>1. b \in Block /\ b.off = 0 /\ End(b) = n /\ ~b.active
  BY SizesAssumption DEF Block, End
<1>2. /\ f \in Pool /\ f.blocks = {b} /\ f.size = n /\ f.okay /\ f.dirty = {}
      /\ q \in Pool /\ q.blocks = {b} /\ q.size = n /\ q.okay /\ q.dirty = {}
  BY <1>1 DEF Format, Pool
<1> HIDE DEF b, f, q
<1>3. Chain({b}, n) /\ Coalesced({b})
  BY <1>1, SizesAssumption DEF Chain, Coalesced, Following, Preceding
<1>4. Tiled(f) /\ Tiled(q) /\ Wiped(f) /\ Wiped(q)
  BY <1>1, <1>2, <1>3 DEF Tiled, Wiped
<1> QED BY <1>1, <1>2, <1>3, <1>4 DEF GoodPool, f, q

-----------------------------------------------------------------------------
(* The outcomes of malloc_internal *)

Good(ps) == ps \in [PoolIds -> Pool] /\ \A i \in PoolIds : GoodPool(ps[i])

\* The same blocks are allocated in qs as in ps, with the same contents.
SameHeld(ps, qs) ==
  \A i \in PoolIds :
    /\ qs[i].dirty = ps[i].dirty
    /\ \A c \in Block : c.active => (c \in qs[i].blocks <=> c \in ps[i].blocks)

\* Exactly one more block is allocated in qs than in ps: at "at", for n units.
Grants(ps, qs, at, n) ==
  /\ at.pool \in PoolIds
  /\ \A c \in ps[at.pool].blocks : c.active => c.off # at.off
  /\ \A i \in PoolIds : qs[i].dirty = ps[i].dirty
  /\ \E a \in Block :
       /\ a.active /\ a.off = at.off /\ n <= a.size
       /\ \A i \in PoolIds : \A c \in Block : c.active =>
            (c \in qs[i].blocks <=> c \in ps[i].blocks \/ (i = at.pool /\ c = a))

\* A pool that is not set up holds no blocks and no data.
LEMMA EmptyPool ==
  ASSUME NEW p, GoodPool(p), ~p.okay
  PROVE  p.blocks = {} /\ p.dirty = {}
  BY DEF GoodPool, Tiled, Wiped

\* Allocating in pool i grants one block.
LEMMA PlaceGrants ==
  ASSUME NEW ps, Good(ps), NEW i \in PoolIds, NEW n \in Nat,
         NEW o \in Place(ps, i, n)
  PROVE  /\ Good(o.pools)
         /\ Grants(ps, o.pools, o.at, n)
         /\ o.at # Null
         /\ \A j \in PoolIds : o.pools[j].okay = ps[j].okay
<1>1. PICK b \in FirstFit(ps[i], n) :
        o = [pools |-> [ps EXCEPT ![i] = TakeFrom(ps[i], n, b)],
             at    |-> [pool |-> i, off |-> b.off]]
  BY DEF Place
<1> DEFINE p == ps[i]
           q == TakeFrom(p, n, b)
           a == [off |-> b.off, size |-> Granted(b, n), active |-> TRUE]
<1>2. GoodPool(p)
  BY DEF Good
<1>3. /\ GoodPool(q)
      /\ q.okay = p.okay /\ q.dirty = p.dirty
      /\ a \in Block /\ a.off = b.off /\ n <= a.size /\ a.active
      /\ \A c \in Block : c.active => (c \in q.blocks <=> c \in p.blocks \cup {a})
      /\ \A c \in p.blocks : c.active => c.off # b.off
  BY <1>2, TakeFromGood
<1>4. o.pools = [ps EXCEPT ![i] = q] /\ o.at.pool = i /\ o.at.off = b.off
  BY <1>1
<1> HIDE DEF q, a
<1>5. \A j \in PoolIds : o.pools[j] = IF j = i THEN q ELSE ps[j]
  BY <1>4 DEF Good
<1>6. Good(o.pools)
  BY <1>3, <1>4, <1>5 DEF Good, GoodPool
<1>7. Grants(ps, o.pools, o.at, n)
  BY <1>3, <1>4, <1>5 DEF Grants
<1>8. o.at # Null
  BY <1>4, InputsAssumption DEF Null, PoolIds
<1> QED BY <1>3, <1>5, <1>6, <1>7, <1>8

\* Formatting a pool that was not set up leaves what is held alone.
LEMMA AddPool ==
  ASSUME NEW ps, Good(ps), NEW i \in PoolIds, ~ps[i].okay, NEW q, GoodPool(q),
         q.dirty = {}, \A c \in q.blocks : ~c.active
  PROVE  Good([ps EXCEPT ![i] = q]) /\ SameHeld(ps, [ps EXCEPT ![i] = q])
<1>1. ps[i].blocks = {} /\ ps[i].dirty = {}
  BY EmptyPool DEF Good
<1>2. \A j \in PoolIds : [ps EXCEPT ![i] = q][j] = IF j = i THEN q ELSE ps[j]
  BY DEF Good
<1>3. Good([ps EXCEPT ![i] = q])
  BY <1>2 DEF Good, GoodPool
<1> QED BY <1>1, <1>2, <1>3 DEF SameHeld

\* What SetAutoExpand leaves in auto_expand: off, or a size fit for a pool.
ExpandSane == auto_expand = 0 \/ auto_expand >= StandardPoolSize

\* Every outcome of searching the pools either fails, with nothing allocated or
\* lost, or grants one block of at least the size searched for.
LEMMA SearchOutcome ==
  ASSUME NEW ps, Good(ps), NEW n \in Nat, NEW xhint \in BOOLEAN,
         NEW o \in Search(ps, n, xhint), auto_expand \in Nat, ExpandSane
  PROVE  /\ Good(o.pools)
         /\ \/ o.at = Null /\ SameHeld(ps, o.pools)
            \/ o.at # Null /\ Grants(ps, o.pools, o.at, n)
         /\ o.pools[0].okay = ps[0].okay
         /\ fips => \A j \in PoolIds : o.pools[j].okay = ps[j].okay
<1>0. 0 \in PoolIds
  BY InputsAssumption DEF PoolIds
<1>1. CASE o = Fail(ps)
  BY <1>1 DEF Fail, SameHeld
<1>2. CASE o \in Place(ps, 0, n)
  BY <1>0, <1>2, PlaceGrants
<1>3. ASSUME o \in Expand(ps, n), ~fips, o # Fail(ps)
      PROVE  /\ Good(o.pools)
             /\ \/ o.at = Null /\ SameHeld(ps, o.pools)
                \/ o.at # Null /\ Grants(ps, o.pools, o.at, n)
             /\ o.pools[0].okay = ps[0].okay
  <2> DEFINE room == {i \in Overflow(ps) : Fits(ps[i], n) # {}}
             chunk == IF auto_expand # 0 THEN auto_expand ELSE StandardPoolSize
             added(i) == [ps EXCEPT ![i] = Format(NoPool, chunk)]
  <2>1. CASE room # {}
    <3>1. PICK i \in room : o \in Place(ps, i, n)
      BY <1>3, <2>1 DEF Expand, Newest
    <3> QED BY <3>1, <1>0, PlaceGrants DEF Overflow
  <2>2. CASE room = {}
    <3>1. PICK i \in Vacant(ps) :
            o \in IF Fits(added(i)[i], n) # {}
                  THEN Place(added(i), i, n) ELSE {Fail(added(i))}
      BY <1>3, <2>2 DEF Expand
    <3>2. i \in PoolIds /\ i # 0 /\ ~ps[i].okay
      BY <3>1 DEF Vacant
    <3>3. chunk \in Nat /\ chunk > HeadSize
      BY SizesAssumption DEF ExpandSane
    <3> HIDE DEF chunk
    <3>4. NoPool \in Pool
      BY DEF NoPool, Pool
    <3> DEFINE f == Format(NoPool, chunk)
               qs == [ps EXCEPT ![i] = f]
    <3>5. GoodPool(f) /\ f.dirty = {} /\ \A c \in f.blocks : ~c.active
      BY <3>3, <3>4, FormatGood
    <3> HIDE DEF f
    <3>6. Good(qs) /\ SameHeld(ps, qs)
      BY <3>2, <3>5, AddPool
    <3>7. qs[0] = ps[0]
      BY <3>2, <1>0 DEF Good
    <3>8. added(i) = qs
      BY DEF f
    <3> HIDE DEF qs
    <3>9. CASE o \in Place(qs, i, n)
      <4>1. Good(o.pools) /\ Grants(qs, o.pools, o.at, n) /\ o.at # Null
            /\ \A j \in PoolIds : o.pools[j].okay = qs[j].okay
        BY <3>9, <3>6, <3>2, PlaceGrants
      <4>2. Grants(ps, o.pools, o.at, n)
        <5>1. \A j \in PoolIds : \A c \in ps[j].blocks : c \in Block
          BY DEF Good, GoodPool, Pool
        <5> QED BY <4>1, <3>6, <5>1 DEF Grants, SameHeld
      <4> QED BY <4>1, <4>2, <3>7, <1>0
    <3>10. CASE o = Fail(qs)
      BY <3>10, <3>6, <3>7 DEF Fail
    <3> QED BY <3>1, <3>8, <3>9, <3>10
  <2> QED BY <2>1, <2>2
<1>4. \/ o = Fail(ps) \/ o \in Place(ps, 0, n) \/ (o \in Expand(ps, n) /\ ~fips)
  BY DEF Search
<1> QED BY <1>1, <1>2, <1>3, <1>4

\* Overflow pools are only ever added behind a main pool that is set up.
MainFirst(ps) == \A i \in PoolIds : ps[i].okay => ps[0].okay

Booleans == {show_warning, not_locked, setuid_root} \subseteq BOOLEAN

\* Setting up the main pool, or finding it set up, changes nothing that is held;
\* and a pool that turns out not to be lockable leaves a warning to issue.
LEMMA InitOutcome ==
  ASSUME Good(pools), Booleans, NEW n \in Nat, NEW e \in InitInternal(n)
  PROVE  /\ Good(e.pools) /\ SameHeld(pools, e.pools)
         /\ {e.show_warning, e.not_locked, e.setuid_root, e.halted} \subseteq BOOLEAN
         /\ pools[0].okay => e = Now
         /\ ~e.halted => e.pools[0].okay
         /\ \A i \in PoolIds \ {0} : e.pools[i] = pools[i]
         /\ e.pools[0].okay \/ e.pools = pools
         /\ e.not_locked => not_locked \/ e.show_warning
<1>0. 0 \in PoolIds
  BY InputsAssumption DEF PoolIds
<1>1. CASE e = Now /\ pools[0].okay
  BY <1>1, <1>0 DEF Now, SameHeld, Booleans
<1>2. CASE e = [Now EXCEPT !.halted = TRUE] /\ ~pools[0].okay
  BY <1>2 DEF Now, SameHeld, Booleans
<1>3. CASE ~pools[0].okay /\ e # [Now EXCEPT !.halted = TRUE]
  <2> DEFINE k == IF n < MinimumPoolSize THEN MinimumPoolSize ELSE n
             N == PageRound(k)
  <2>1. PICK mm \in BOOLEAN, lk \in BOOLEAN :
          e = [pools |-> [pools EXCEPT ![0] = InitPool(pools[0], k, mm)],
               show_warning |-> show_warning \/ ~lk,
               not_locked   |-> not_locked \/ ~lk,
               setuid_root  |-> setuid_root /\ no_priv_drop,
               halted       |-> FALSE]
    BY <1>3 DEF InitInternal
  <2> DEFINE q == InitPool(pools[0], k, mm)
  <2>2. N \in Nat /\ N > HeadSize
    <3>1. k \in Nat /\ k > HeadSize
      BY SizesAssumption
    <3> QED BY <3>1, PageRoundNotBelow, SizesAssumption
  <2>3. pools[0] \in Pool /\ (mm \/ pools[0].is_mmapped) \in BOOLEAN
    BY <1>0 DEF Good, Pool
  <2>4. q = [Format(pools[0], N) EXCEPT !.is_mmapped = mm \/ pools[0].is_mmapped]
    BY DEF InitPool
  <2> HIDE DEF N, q
  <2>5. GoodPool(q) /\ q.dirty = {} /\ \A c \in q.blocks : ~c.active
    BY <2>2, <2>3, <2>4, FormatGood
  <2>6. e.pools = [pools EXCEPT ![0] = q]
    BY <2>1 DEF q
  <2>7. Good(e.pools) /\ SameHeld(pools, e.pools)
    BY <1>0, <1>3, <2>5, <2>6, AddPool
  <2>8. q.okay
    BY <2>3, <2>4 DEF Format, Pool
  <2>9. e.pools[0] = q /\ \A i \in PoolIds \ {0} : e.pools[i] = pools[i]
    BY <2>6, <1>0 DEF Good
  <2>10. /\ {e.show_warning, e.not_locked, e.setuid_root, e.halted} \subseteq BOOLEAN
         /\ e.not_locked => not_locked \/ e.show_warning
    BY <2>1
  <2> QED BY <1>3, <2>7, <2>8, <2>9, <2>10
<1>4. (e = Now /\ pools[0].okay) \/ ~pools[0].okay
  BY DEF InitInternal
<1> QED BY <1>1, <1>2, <1>3, <1>4

\* Every outcome of malloc_internal either fails, with nothing allocated or
\* lost, or grants one block that can hold the size asked for, not in FIPS mode
\* from unlocked memory, and not without the warning.
LEMMA MallocOutcome ==
  ASSUME NoWrap, Good(pools), Booleans, MainFirst(pools),
         auto_expand \in Nat, ExpandSane, suspend_warning \in BOOLEAN,
         fips => Overflow(pools) = {},
         NEW n \in Requests, NEW xhint \in BOOLEAN,
         NEW o \in MallocInternal(n, xhint)
  PROVE  /\ Good(o.pools) /\ MainFirst(o.pools)
         /\ {o.show_warning, o.not_locked, o.setuid_root, o.halted} \subseteq BOOLEAN
         /\ fips => Overflow(o.pools) = {}
         /\ \/ o.at = Null /\ SameHeld(pools, o.pools)
            \/ /\ o.at # Null /\ Grants(pools, o.pools, o.at, n)
               /\ fips => ~o.not_locked
               /\ o.show_warning => suspend_warning
         /\ pools[0].okay => /\ o.not_locked = not_locked
                             /\ o.show_warning => show_warning
<1>0. 0 \in PoolIds /\ StandardPoolSize \in Nat
  BY InputsAssumption, SizesAssumption DEF PoolIds
<1>1. PICK e \in InitInternal(StandardPoolSize) :
        \/ o = Outcome(e, Fail(e.pools))
        \/ /\ ~(e.halted \/ (e.not_locked /\ fips))
           /\ \E s \in Search(e.pools, RoundUp(n), xhint) :
                o = [Outcome(e, s) EXCEPT !.show_warning =
                       Outcome(e, s).show_warning /\ suspend_warning]
  BY DEF MallocInternal
<1>2. /\ Good(e.pools) /\ SameHeld(pools, e.pools)
      /\ {e.show_warning, e.not_locked, e.setuid_root, e.halted} \subseteq BOOLEAN
      /\ pools[0].okay => e = Now
      /\ ~e.halted => e.pools[0].okay
      /\ \A i \in PoolIds \ {0} : e.pools[i] = pools[i]
      /\ e.pools[0].okay \/ e.pools = pools
  BY <1>0, InitOutcome
<1>3. MainFirst(e.pools)
  BY <1>2 DEF MainFirst
<1>4. fips => \A j \in PoolIds \ {0} : ~e.pools[j].okay
  BY <1>2 DEF Overflow
<1>5. CASE o = Outcome(e, Fail(e.pools))
  <2>1. /\ o.pools = e.pools /\ o.at = Null /\ o.show_warning = e.show_warning
        /\ o.not_locked = e.not_locked /\ o.setuid_root = e.setuid_root
        /\ o.halted = e.halted
    BY <1>5 DEF Outcome, Fail
  <2> QED BY <2>1, <1>2, <1>3, <1>4 DEF Overflow, Now
<1>6. ASSUME ~(e.halted \/ (e.not_locked /\ fips)),
             NEW s \in Search(e.pools, RoundUp(n), xhint),
             o = [Outcome(e, s) EXCEPT !.show_warning =
                    Outcome(e, s).show_warning /\ suspend_warning]
      PROVE  /\ Good(o.pools) /\ MainFirst(o.pools)
             /\ {o.show_warning, o.not_locked, o.setuid_root, o.halted} \subseteq BOOLEAN
             /\ fips => Overflow(o.pools) = {}
             /\ \/ o.at = Null /\ SameHeld(pools, o.pools)
                \/ /\ o.at # Null /\ Grants(pools, o.pools, o.at, n)
                   /\ fips => ~o.not_locked
                   /\ o.show_warning => suspend_warning
             /\ pools[0].okay => /\ o.not_locked = not_locked
                                 /\ o.show_warning => show_warning
  <2>1. /\ o.pools = s.pools /\ o.at = s.at
        /\ o.show_warning = (e.show_warning /\ suspend_warning)
        /\ o.not_locked = e.not_locked /\ o.setuid_root = e.setuid_root
        /\ o.halted = e.halted
    BY <1>6 DEF Outcome
  <2>2. RoundUp(n) \in Nat /\ RoundUp(n) >= n /\ n \in Nat
    BY RoundUpNotBelow, InputsAssumption
  <2>3. /\ Good(s.pools)
        /\ \/ s.at = Null /\ SameHeld(e.pools, s.pools)
           \/ s.at # Null /\ Grants(e.pools, s.pools, s.at, RoundUp(n))
        /\ s.pools[0].okay = e.pools[0].okay
        /\ fips => \A j \in PoolIds : s.pools[j].okay = e.pools[j].okay
    BY <1>2, <2>2, <1>6, SearchOutcome
  <2>4. MainFirst(s.pools)
    BY <2>3, <1>2, <1>6 DEF MainFirst
  <2>5. fips => Overflow(s.pools) = {}
    BY <2>3, <1>4 DEF Overflow
  <2>6. s.at = Null => SameHeld(pools, s.pools)
    BY <2>3, <1>2 DEF SameHeld, Grants
  <2>7. ASSUME s.at # Null
        PROVE  Grants(pools, s.pools, s.at, n)
    <3>1. Grants(e.pools, s.pools, s.at, RoundUp(n))
      BY <2>3, <2>7
    <3>2. \A j \in PoolIds : \A c \in pools[j].blocks : c \in Block
      BY DEF Good, GoodPool, Pool
    <3>3. /\ s.at.pool \in PoolIds
          /\ \A c \in pools[s.at.pool].blocks : c.active => c.off # s.at.off
          /\ \A i \in PoolIds : s.pools[i].dirty = pools[i].dirty
      BY <3>1, <3>2, <1>2 DEF Grants, SameHeld
    <3>4. PICK a \in Block :
            /\ a.active /\ a.off = s.at.off /\ RoundUp(n) <= a.size
            /\ \A i \in PoolIds : \A c \in Block : c.active =>
                 (c \in s.pools[i].blocks <=>
                    c \in e.pools[i].blocks \/ (i = s.at.pool /\ c = a))
      BY <3>1 DEF Grants
    <3>5. n <= a.size
      BY <3>4, <2>2 DEF Block
    <3>6. \A i \in PoolIds : \A c \in Block : c.active =>
            (c \in s.pools[i].blocks <=>
               c \in pools[i].blocks \/ (i = s.at.pool /\ c = a))
      BY <3>4, <1>2 DEF SameHeld
    <3> QED BY <3>3, <3>4, <3>5, <3>6 DEF Grants
  <2>8. {o.show_warning, o.not_locked, o.setuid_root, o.halted} \subseteq BOOLEAN
    BY <2>1, <1>2
  <2>9. pools[0].okay => /\ o.not_locked = not_locked
                         /\ o.show_warning => show_warning
    BY <2>1, <1>2 DEF Now
  <2>10. (fips => ~o.not_locked) /\ (o.show_warning => suspend_warning)
    BY <2>1, <1>6
  <2> QED BY <2>1, <2>3, <2>4, <2>5, <2>6, <2>7, <2>8, <2>9, <2>10
<1> QED BY <1>1, <1>5, <1>6

-----------------------------------------------------------------------------
(* Pointers and blocks *)

\* The pointers L are one to one with the active blocks of the pools ps, and
\* each block can hold what its pointer was asked for.
Held(ps, L) ==
  /\ \A l \in L : \E b \in ps[l.pool].blocks :
       b.off = l.off /\ b.active /\ l.n <= b.size
  /\ \A l, m \in L : l.pool = m.pool /\ l.off = m.off => l = m
  /\ \A i \in PoolIds : \A b \in ps[i].blocks :
       b.active => \E l \in L : l.pool = i /\ l.off = b.off

\* The chain has at most one block at an offset.
LEMMA OneBlockAt ==
  ASSUME NEW ps, Good(ps), NEW i \in PoolIds,
         NEW b \in ps[i].blocks, NEW c \in ps[i].blocks, b.off = c.off
  PROVE  b = c
<1>1. Chain(ps[i].blocks, ps[i].size) /\ b \in Block /\ c \in Block
  BY DEF Good, GoodPool, Tiled, Pool
<1> QED BY <1>1, SizesAssumption DEF Chain, End, Block

\* Held is what the two invariants of SecMem say together.
LEMMA HeldIsLive ==
  ASSUME Good(pools), live \in SUBSET Pointer
  PROVE  Held(pools, live) <=> LiveBlocks /\ BlockHoldsSize
<1>1. \A l \in live : l.pool \in PoolIds
  BY DEF Pointer
<1>2. Held(pools, live) => BlockHoldsSize
  BY <1>1, OneBlockAt DEF Held, BlockHoldsSize
<1> QED BY <1>2 DEF Held, LiveBlocks, BlockHoldsSize

\* The holder of a granted block joins the holders.
LEMMA HeldGrant ==
  ASSUME NEW ps, Good(ps), NEW qs, Good(qs), NEW L \in SUBSET Pointer,
         Held(ps, L), NEW at, NEW n \in Requests, Grants(ps, qs, at, n),
         NEW k, k = [pool |-> at.pool, off |-> at.off, n |-> n],
         NEW M, M = L \cup {k}
  PROVE  /\ Held(qs, M)
         /\ M \in SUBSET Pointer
         /\ \A l \in L : l.pool # k.pool \/ l.off # k.off
<1>1. PICK a \in Block :
        /\ a.active /\ a.off = at.off /\ n <= a.size
        /\ \A i \in PoolIds : \A c \in Block : c.active =>
             (c \in qs[i].blocks <=> c \in ps[i].blocks \/ (i = at.pool /\ c = a))
  BY DEF Grants
<1>2. /\ \A i \in PoolIds : \A c \in ps[i].blocks : c \in Block
      /\ \A i \in PoolIds : \A c \in qs[i].blocks : c \in Block
  BY DEF Good, GoodPool, Pool
<1>3. at.pool \in PoolIds /\ \A c \in ps[at.pool].blocks : c.active => c.off # at.off
  BY DEF Grants
<1>4. k \in Pointer /\ k.pool = at.pool /\ k.off = at.off /\ k.n = n
  BY <1>1, <1>3 DEF Pointer, Block
<1>5. \A l \in L : l.pool \in PoolIds
  BY DEF Pointer
<1>6. \A l \in L : l.pool # k.pool \/ l.off # k.off
  BY <1>3, <1>4 DEF Held
<1>7. \A l \in L \cup {k} : \E b \in qs[l.pool].blocks :
         b.off = l.off /\ b.active /\ l.n <= b.size
  BY <1>1, <1>2, <1>3, <1>4, <1>5 DEF Held
<1>8. \A l, m \in L \cup {k} : l.pool = m.pool /\ l.off = m.off => l = m
  BY <1>6 DEF Held
<1>9. \A i \in PoolIds : \A b \in qs[i].blocks :
         b.active => \E l \in L \cup {k} : l.pool = i /\ l.off = b.off
  BY <1>1, <1>2, <1>4 DEF Held
<1> QED BY <1>4, <1>6, <1>7, <1>8, <1>9 DEF Held

\* Nothing changes for the holders when the same blocks are allocated.
LEMMA HeldSame ==
  ASSUME NEW ps, Good(ps), NEW qs, Good(qs), NEW L \in SUBSET Pointer,
         Held(ps, L), SameHeld(ps, qs)
  PROVE  Held(qs, L)
<1>1. /\ \A i \in PoolIds : \A c \in ps[i].blocks : c \in Block
      /\ \A i \in PoolIds : \A c \in qs[i].blocks : c \in Block
      /\ \A l \in L : l.pool \in PoolIds
  BY DEF Good, GoodPool, Pool, Pointer
<1> QED BY <1>1 DEF Held, SameHeld

\* The pools after a write of D, and after a free of block b, in pool i.
Dirtied(ps, i, D) == [ps EXCEPT ![i].dirty = ps[i].dirty \cup D]
Freed(ps, i, b)   == [ps EXCEPT ![i] = FreeBlock(ps[i], b)]

\* Freeing what l points to removes l from the holders.
LEMMA HeldFree ==
  ASSUME NEW ps, Good(ps), NEW L \in SUBSET Pointer, Held(ps, L), NEW l \in L,
         NEW b \in ps[l.pool].blocks, b.off = l.off,
         NEW qs, qs = Freed(ps, l.pool, b),
         NEW M, M = L \ {l}
  PROVE  /\ Good(qs) /\ Held(qs, M)
         /\ \A i \in PoolIds : qs[i].okay = ps[i].okay
<1> DEFINE p == ps[l.pool]
           q == FreeBlock(p, b)
<1>1. l.pool \in PoolIds /\ GoodPool(p)
  BY DEF Pointer, Good
<1>2. /\ GoodPool(q) /\ q.okay = p.okay
      /\ \A c \in Block : c.active => (c \in q.blocks <=> c \in p.blocks \ {b})
  BY <1>1, FreeBlockGood
<1>3. /\ \A i \in PoolIds : qs[i] = IF i = l.pool THEN q ELSE ps[i]
      /\ qs = [ps EXCEPT ![l.pool] = q]
  BY <1>1 DEF Good, Freed
<1> HIDE DEF q
<1>4. Good(qs)
  BY <1>1, <1>2, <1>3 DEF Good, GoodPool
<1>5. /\ \A i \in PoolIds : \A c \in ps[i].blocks : c \in Block
      /\ \A i \in PoolIds : \A c \in qs[i].blocks : c \in Block
      /\ \A m \in L : m.pool \in PoolIds
  BY <1>4 DEF Good, GoodPool, Pool, Pointer
<1>6. \A m \in L \ {l} : \E c \in qs[m.pool].blocks :
         c.off = m.off /\ c.active /\ m.n <= c.size
  <2> SUFFICES ASSUME NEW m \in L, m # l
               PROVE  \E c \in qs[m.pool].blocks :
                        c.off = m.off /\ c.active /\ m.n <= c.size
    OBVIOUS
  <2>1. PICK c \in ps[m.pool].blocks : c.off = m.off /\ c.active /\ m.n <= c.size
    BY DEF Held
  <2>2. m.pool = l.pool => c # b
    BY <2>1 DEF Held
  <2> QED BY <2>1, <2>2, <1>2, <1>3, <1>5
<1>7. \A i \in PoolIds : \A c \in qs[i].blocks :
         c.active => \E m \in L \ {l} : m.pool = i /\ m.off = c.off
  <2> SUFFICES ASSUME NEW i \in PoolIds, NEW c \in qs[i].blocks, c.active
               PROVE  \E m \in L \ {l} : m.pool = i /\ m.off = c.off
    OBVIOUS
  <2>1. c \in ps[i].blocks /\ (i = l.pool => c # b)
    BY <1>2, <1>3, <1>5
  <2>2. PICK m \in L : m.pool = i /\ m.off = c.off
    BY <2>1 DEF Held
  <2>3. m # l
    BY <2>1, <2>2, OneBlockAt
  <2> QED BY <2>2, <2>3
<1> QED BY <1>2, <1>3, <1>4, <1>6, <1>7 DEF Held

\* Writing inside an active block keeps the pools good and the holders.
LEMMA WriteGood ==
  ASSUME NEW ps, Good(ps), NEW i \in PoolIds, NEW D \in SUBSET Nat,
         NEW a \in ps[i].blocks, a.active, D \subseteq Span(a),
         NEW L, Held(ps, L), \A l \in L : l.pool \in PoolIds,
         NEW qs, qs = Dirtied(ps, i, D)
  PROVE  /\ Good(qs) /\ Held(qs, L)
         /\ \A j \in PoolIds : /\ qs[j].okay = ps[j].okay
                               /\ qs[j].blocks = ps[j].blocks
<1> DEFINE p == ps[i]
           q == [p EXCEPT !.dirty = p.dirty \cup D]
<1>1. p \in Pool /\ GoodPool(p)
  BY DEF Good
<1>2. /\ q \in Pool /\ q.blocks = p.blocks /\ q.size = p.size
      /\ q.okay = p.okay /\ q.dirty = p.dirty \cup D
  BY <1>1 DEF Pool
<1>3. \A j \in PoolIds : qs[j] = IF j = i THEN q ELSE ps[j]
  BY DEF Good, Dirtied
<1>4. qs \in [PoolIds -> Pool]
  BY <1>2 DEF Good, Dirtied
<1> HIDE DEF q
<1>5. GoodPool(q)
  BY <1>1, <1>2 DEF GoodPool, Tiled, Wiped
<1>6. Good(qs)
  BY <1>3, <1>4, <1>5 DEF Good
<1>7. \A j \in PoolIds : qs[j].okay = ps[j].okay /\ qs[j].blocks = ps[j].blocks
  BY <1>2, <1>3
<1>8. Held(qs, L)
  BY <1>7 DEF Held
<1> QED BY <1>6, <1>7, <1>8

-----------------------------------------------------------------------------
(* The invariant of the allocator *)

Inv ==
  /\ TypeOK
  /\ Good(pools)
  /\ MainFirst(pools)
  /\ ExpandSane
  /\ Held(pools, live)
  /\ FipsConfined
  /\ WarningIssued

\* A caller's pointer implies a main pool that is set up.
LEMMA LiveMeansMain ==
  ASSUME Inv, live # {}
  PROVE  pools[0].okay
<1>1. PICK l \in live : l.pool \in PoolIds /\ pools[l.pool].blocks # {}
  BY DEF Inv, Held, TypeOK, Pointer
<1> QED BY <1>1, EmptyPool DEF Inv, Good, MainFirst

\* The invariant holds before the pool exists.
LEMMA InitInv == Init => Inv
<1> SUFFICES ASSUME Init PROVE Inv
  OBVIOUS
<1>1. NoPool \in Pool /\ GoodPool(NoPool) /\ ~NoPool.okay /\ NoPool.blocks = {}
  BY DEF NoPool, Pool, GoodPool, Tiled, Chain, Coalesced, Wiped
<1>2. pools \in [PoolIds -> Pool] /\ \A i \in PoolIds : pools[i] = NoPool
  BY <1>1 DEF Init
<1>3. Good(pools) /\ MainFirst(pools) /\ Held(pools, live)
  BY <1>1, <1>2 DEF Good, MainFirst, Held, Init
<1>4. fips \in BOOLEAN /\ setuid_root \in BOOLEAN
  BY InputsAssumption DEF Init
<1>5. terms \in 0..MaxTerms
  BY InputsAssumption DEF Init
<1>6. TypeOK
  BY <1>2, <1>4, <1>5 DEF Init, TypeOK
<1> QED BY <1>1, <1>2, <1>3, <1>6
        DEF Init, Inv, ExpandSane, FipsConfined, WarningIssued, Overflow

\* Malloc preserves the invariant.
LEMMA MallocInv ==
  ASSUME NoWrap, Inv, NEW n \in Requests, NEW xhint \in BOOLEAN, Malloc(n, xhint)
  PROVE  Inv'
<1>1. PICK o \in MallocInternal(n, xhint) :
        /\ Commit(o)
        /\ pools' = o.pools
        /\ live' = IF o.at = Null THEN live
                   ELSE live \cup {[pool |-> o.at.pool, off |-> o.at.off, n |-> n]}
  BY DEF Malloc
<1>2. /\ Good(o.pools) /\ MainFirst(o.pools)
      /\ {o.show_warning, o.not_locked, o.setuid_root, o.halted} \subseteq BOOLEAN
      /\ fips => Overflow(o.pools) = {}
      /\ \/ o.at = Null /\ SameHeld(pools, o.pools)
         \/ /\ o.at # Null /\ Grants(pools, o.pools, o.at, n)
            /\ fips => ~o.not_locked
            /\ o.show_warning => suspend_warning
      /\ pools[0].okay => /\ o.not_locked = not_locked
                          /\ o.show_warning => show_warning
  BY MallocOutcome DEF Inv, TypeOK, Booleans, FipsConfined
<1>3. /\ show_warning' = o.show_warning /\ not_locked' = o.not_locked
      /\ setuid_root' = o.setuid_root /\ halted' = o.halted
      /\ UNCHANGED <<auto_expand, disable_secmem, suspend_warning, no_mlock,
                     no_priv_drop, fips, terms>>
  BY <1>1 DEF Malloc, Commit
<1>4. live \in SUBSET Pointer
  BY DEF Inv, TypeOK
<1>5. Held(o.pools, live') /\ live' \in SUBSET Pointer
  <2>1. CASE o.at = Null
    BY <2>1, <1>1, <1>2, <1>4, HeldSame DEF Inv, Grants
  <2>2. CASE o.at # Null
    <3> DEFINE k == [pool |-> o.at.pool, off |-> o.at.off, n |-> n]
    <3>1. live' = live \cup {k} /\ Good(pools) /\ Held(pools, live)
      BY <2>2, <1>1 DEF Inv
    <3>2. Grants(pools, o.pools, o.at, n)
      BY <2>2, <1>2
    <3>3. k = [pool |-> o.at.pool, off |-> o.at.off, n |-> n]
      OBVIOUS
    <3> HIDE DEF k
    <3> QED BY <3>1, <3>2, <3>3, <1>2, <1>4, HeldGrant
  <2> QED BY <2>1, <2>2
<1>6. live' # {} /\ o.at = Null => pools[0].okay
  BY <1>1, LiveMeansMain
<1>7. WarningIssued' /\ FipsConfined'
  <2>1. CASE o.at = Null
    BY <2>1, <1>1, <1>2, <1>3, <1>6 DEF Inv, WarningIssued, FipsConfined, Overflow
  <2>2. CASE o.at # Null
    BY <2>2, <1>1, <1>2, <1>3 DEF WarningIssued, FipsConfined, Overflow
  <2> QED BY <2>1, <2>2
<1>8. TypeOK'
  BY <1>1, <1>2, <1>3, <1>5 DEF Inv, TypeOK, Good
<1>9. Good(pools') /\ MainFirst(pools') /\ Held(pools', live')
  BY <1>1, <1>2, <1>5
<1> QED BY <1>3, <1>7, <1>8, <1>9 DEF Inv, ExpandSane, Good, MainFirst, Held

\* Realloc preserves the invariant: in place, moved, or failed.
LEMMA ReallocInv ==
  ASSUME NoWrap, Inv, NEW l \in live, NEW n \in Requests,
         NEW xhint \in BOOLEAN, Realloc(l, n, xhint)
  PROVE  Inv'
<1>1. PICK b \in pools[l.pool].blocks :
        /\ b.off = l.off
        /\ \/ /\ n < b.size
              /\ live' = (live \ {l}) \cup {[l EXCEPT !.n = n]}
              /\ UNCHANGED <<pools, show_warning, not_locked, setuid_root, halted>>
           \/ /\ n >= b.size
              /\ \E o \in MallocInternal(n, xhint) :
                   /\ Commit(o)
                   /\ IF o.at = Null THEN pools' = o.pools /\ live' = live
                      ELSE LET to == o.at
                               copied == [o.pools EXCEPT ![to.pool].dirty =
                                 o.pools[to.pool].dirty
                                   \cup Copied(o.pools[l.pool], b, to.off)]
                           IN  /\ pools' = [copied EXCEPT ![l.pool] =
                                              FreeBlock(copied[l.pool], b)]
                               /\ live' = (live \ {l}) \cup
                                    {[pool |-> to.pool, off |-> to.off, n |-> n]}
  BY DEF Realloc
<1>2. UNCHANGED <<auto_expand, disable_secmem, suspend_warning, no_mlock,
                  no_priv_drop, fips, terms>>
  BY DEF Realloc
<1>3. /\ live \in SUBSET Pointer /\ l \in Pointer /\ l.pool \in PoolIds
      /\ pools[0].okay /\ Good(pools) /\ Held(pools, live)
  BY LiveMeansMain DEF Inv, TypeOK, Pointer
<1>4. b \in Block /\ b.active /\ \A c \in pools[l.pool].blocks : c.off = l.off => c = b
  BY <1>1, <1>3, OneBlockAt DEF Held, Good, GoodPool, Pool
<1>5. CASE /\ n < b.size
           /\ live' = (live \ {l}) \cup {[l EXCEPT !.n = n]}
           /\ UNCHANGED <<pools, show_warning, not_locked, setuid_root, halted>>
  <2> DEFINE k == [l EXCEPT !.n = n]
  <2>1. k \in Pointer /\ k.pool = l.pool /\ k.off = l.off /\ k.n = n
    BY <1>3 DEF Pointer
  <2> HIDE DEF k
  <2>2. live' = (live \ {l}) \cup {k} /\ pools' = pools
    BY <1>5 DEF k
  <2>3. n <= b.size
    BY <1>5, <1>4, InputsAssumption DEF Block
  <2>4. Held(pools, (live \ {l}) \cup {k})
    <3>1. \A m \in (live \ {l}) \cup {k} : \E c \in pools[m.pool].blocks :
             c.off = m.off /\ c.active /\ m.n <= c.size
      BY <1>1, <1>3, <1>4, <2>1, <2>3 DEF Held
    <3>2. \A m, w \in (live \ {l}) \cup {k} : m.pool = w.pool /\ m.off = w.off => m = w
      BY <1>3, <2>1 DEF Held
    <3>3. \A i \in PoolIds : \A c \in pools[i].blocks : c.active =>
             \E m \in (live \ {l}) \cup {k} : m.pool = i /\ m.off = c.off
      BY <1>3, <2>1 DEF Held
    <3> QED BY <3>1, <3>2, <3>3 DEF Held
  <2>5. TypeOK'
    BY <1>2, <1>3, <1>5, <2>1, <2>2 DEF Inv, TypeOK
  <2>6. live # {}
    OBVIOUS
  <2>7. WarningIssued' /\ FipsConfined'
    BY <1>2, <1>5, <2>6 DEF Inv, WarningIssued, FipsConfined, Overflow
  <2> QED BY <1>2, <1>3, <2>2, <2>4, <2>5, <2>7
          DEF Inv, Good, MainFirst, ExpandSane, Held
<1>6. ASSUME n >= b.size, NEW o \in MallocInternal(n, xhint), Commit(o),
             IF o.at = Null THEN pools' = o.pools /\ live' = live
             ELSE LET to == o.at
                      copied == [o.pools EXCEPT ![to.pool].dirty =
                        o.pools[to.pool].dirty
                          \cup Copied(o.pools[l.pool], b, to.off)]
                  IN  /\ pools' = [copied EXCEPT ![l.pool] =
                                     FreeBlock(copied[l.pool], b)]
                      /\ live' = (live \ {l}) \cup
                           {[pool |-> to.pool, off |-> to.off, n |-> n]}
      PROVE  Inv'
  <2>1. /\ Good(o.pools) /\ MainFirst(o.pools)
        /\ {o.show_warning, o.not_locked, o.setuid_root, o.halted} \subseteq BOOLEAN
        /\ fips => Overflow(o.pools) = {}
        /\ \/ o.at = Null /\ SameHeld(pools, o.pools)
           \/ /\ o.at # Null /\ Grants(pools, o.pools, o.at, n)
              /\ fips => ~o.not_locked
              /\ o.show_warning => suspend_warning
        /\ o.not_locked = not_locked
        /\ o.show_warning => show_warning
    BY <1>3, MallocOutcome DEF Inv, TypeOK, Booleans, FipsConfined
  <2>2. /\ show_warning' = o.show_warning /\ not_locked' = o.not_locked
        /\ setuid_root' = o.setuid_root /\ halted' = o.halted
    BY <1>6 DEF Commit
  <2>3. CASE o.at = Null
    <3>1. pools' = o.pools /\ live' = live /\ SameHeld(pools, o.pools)
      BY <2>3, <1>6, <2>1
    <3>2. Held(pools', live')
      BY <3>1, <2>1, <1>3, HeldSame
    <3>3. TypeOK'
      BY <3>1, <2>1, <2>2, <1>2 DEF Inv, TypeOK, Good
    <3>4. WarningIssued' /\ FipsConfined'
      BY <3>1, <2>1, <2>2, <1>2 DEF Inv, WarningIssued, FipsConfined, Overflow
    <3> QED BY <3>1, <3>2, <3>3, <3>4, <2>1, <1>2
            DEF Inv, Good, MainFirst, ExpandSane, Held
  <2>4. CASE o.at # Null
    <3> DEFINE k == [pool |-> o.at.pool, off |-> o.at.off, n |-> n]
               D == Copied(o.pools[l.pool], b, o.at.off)
               cs == [o.pools EXCEPT ![o.at.pool].dirty =
                        o.pools[o.at.pool].dirty \cup D]
               fs == [cs EXCEPT ![l.pool] = FreeBlock(cs[l.pool], b)]
               L == live \cup {k}
    <3>1. pools' = fs /\ live' = (live \ {l}) \cup {k}
      BY <2>4, <1>6
    <3>2. Grants(pools, o.pools, o.at, n) /\ o.at.pool \in PoolIds
      BY <2>4, <2>1 DEF Grants
    <3>3. /\ Held(o.pools, L) /\ L \in SUBSET Pointer
          /\ \A m \in live : m.pool # k.pool \/ m.off # k.off
      <4>1. Good(pools) /\ Good(o.pools) /\ Held(pools, live) /\ live \in SUBSET Pointer
        BY <2>1, <1>3
      <4>2. Grants(pools, o.pools, o.at, n)
        BY <3>2
      <4>3. L = live \cup {k} /\ k = [pool |-> o.at.pool, off |-> o.at.off, n |-> n]
        OBVIOUS
      <4> HIDE DEF k, L
      <4> QED BY <4>1, <4>2, <4>3, HeldGrant
    <3>4. k.pool = o.at.pool /\ k.off = o.at.off /\ k.n = n /\ k # l
      BY <3>3
    <3>5. b \in o.pools[l.pool].blocks
      BY <3>2, <1>1, <1>3, <1>4 DEF Grants
    <3> HIDE DEF k
    <3>6. PICK a \in o.pools[o.at.pool].blocks :
            a.active /\ a.off = o.at.off /\ n <= a.size
      BY <3>3, <3>4 DEF Held
    <3>7. a \in Block /\ n \in Nat /\ HeadSize \in Nat
      BY <3>2, <2>1, InputsAssumption, SizesAssumption DEF Good, GoodPool, Pool
    <3>8. D \in SUBSET Nat /\ D \subseteq Span(a)
      <4>1. ASSUME NEW x \in Span(b)
            PROVE  o.at.off + (x - b.off) \in Span(a) \cap Nat
        BY <4>1, <3>6, <3>7, <1>4, <1>6 DEF Span, End, Block
      <4> QED BY <4>1 DEF Copied
    <3> HIDE DEF D
    <3>9. \A m \in L : m.pool \in PoolIds
      BY <3>3 DEF Pointer
    <3>10. /\ Good(cs) /\ Held(cs, L)
           /\ \A j \in PoolIds : /\ cs[j].okay = o.pools[j].okay
                                 /\ cs[j].blocks = o.pools[j].blocks
      <4>1. Good(o.pools) /\ Held(o.pools, L) /\ o.at.pool \in PoolIds
        BY <2>1, <3>2, <3>3
      <4>2. cs = Dirtied(o.pools, o.at.pool, D)
        BY DEF Dirtied
      <4> HIDE DEF L, cs
      <4> QED BY <4>1, <4>2, <3>6, <3>8, <3>9, WriteGood
    <3> HIDE DEF cs
    <3>11. l \in L /\ b \in cs[l.pool].blocks
      BY <3>5, <3>10, <1>3
    <3>12. /\ Good(fs) /\ Held(fs, L \ {l})
           /\ \A i \in PoolIds : fs[i].okay = cs[i].okay
      <4>1. Good(cs) /\ Held(cs, L) /\ L \in SUBSET Pointer /\ b.off = l.off
        BY <3>3, <3>10, <1>1
      <4>2. fs = Freed(cs, l.pool, b)
        BY DEF Freed
      <4> HIDE DEF L, fs
      <4> QED BY <4>1, <4>2, <3>11, HeldFree
    <3>13. L \ {l} = live'
      BY <3>1, <3>4
    <3> HIDE DEF fs, L
    <3>14. /\ MainFirst(fs) /\ (fips => Overflow(fs) = {})
      BY <3>10, <3>12, <2>1, InputsAssumption DEF MainFirst, Overflow, PoolIds
    <3>15. Good(pools') /\ Held(pools', live') /\ live' \in SUBSET Pointer
      BY <3>1, <3>3, <3>12, <3>13
    <3>16. TypeOK'
      BY <3>15, <2>1, <2>2, <1>2 DEF Inv, TypeOK, Good
    <3>17. WarningIssued' /\ FipsConfined'
      BY <3>1, <3>14, <2>1, <2>2, <2>4, <1>2 DEF Inv, WarningIssued, FipsConfined, Overflow
    <3> QED BY <3>1, <3>14, <3>15, <3>16, <3>17, <1>2
            DEF Inv, Good, MainFirst, ExpandSane, Held
  <2> QED BY <2>3, <2>4
<1> QED BY <1>1, <1>5, <1>6

\* Every step preserves the invariant.
LEMMA StepInv ==
  ASSUME NoWrap, Inv, [Next]_vars
  PROVE  Inv'
<1>0. /\ live \in SUBSET Pointer /\ Good(pools) /\ Held(pools, live)
      /\ 0 \in PoolIds
  BY InputsAssumption DEF Inv, TypeOK, PoolIds
<1>1. ASSUME NEW n \in InitSizes, InitSecmem(n)
      PROVE  Inv'
  <2>1. CASE n = 0
    BY <1>1, <2>1 DEF InitSecmem, Inv, TypeOK, Good, MainFirst, ExpandSane,
                      Held, FipsConfined, WarningIssued, Overflow
  <2>2. CASE n # 0
    <3>1. PICK e \in InitInternal(n) : Commit(e) /\ pools' = e.pools
      BY <1>1, <2>2 DEF InitSecmem
    <3>2. /\ Good(e.pools) /\ SameHeld(pools, e.pools)
          /\ {e.show_warning, e.not_locked, e.setuid_root, e.halted} \subseteq BOOLEAN
          /\ pools[0].okay => e = Now
          /\ \A i \in PoolIds \ {0} : e.pools[i] = pools[i]
          /\ e.pools[0].okay \/ e.pools = pools
      BY <1>0, InitOutcome, InputsAssumption DEF Inv, TypeOK, Booleans
    <3>3. /\ show_warning' = e.show_warning /\ not_locked' = e.not_locked
          /\ setuid_root' = e.setuid_root /\ halted' = e.halted
          /\ UNCHANGED <<auto_expand, disable_secmem, suspend_warning, no_mlock,
                         no_priv_drop, fips, live, terms>>
      BY <1>1, <2>2, <3>1 DEF InitSecmem, Commit
    <3>4. Held(pools', live')
      BY <1>0, <3>1, <3>2, <3>3, HeldSame
    <3>5. MainFirst(pools')
      BY <3>1, <3>2 DEF Inv, MainFirst
    <3>6. live # {} => not_locked' = not_locked /\ show_warning' = show_warning
      BY <3>2, <3>3, LiveMeansMain DEF Now
    <3>7. WarningIssued' /\ FipsConfined'
      BY <3>1, <3>2, <3>3, <3>6 DEF Inv, WarningIssued, FipsConfined, Overflow
    <3>8. TypeOK'
      BY <3>1, <3>2, <3>3 DEF Inv, TypeOK, Good
    <3> QED BY <3>1, <3>2, <3>3, <3>4, <3>5, <3>7, <3>8
            DEF Inv, Good, MainFirst, ExpandSane, Held
  <2> QED BY <2>1, <2>2
<1>2. ASSUME NEW n \in Requests, NEW xhint \in BOOLEAN, Malloc(n, xhint)
      PROVE  Inv'
  BY <1>2, MallocInv
<1>3. ASSUME NEW l \in live, Free(l)
      PROVE  Inv'
  <2>1. PICK b \in pools[l.pool].blocks :
          b.off = l.off /\ pools' = [pools EXCEPT ![l.pool] = FreeBlock(pools[l.pool], b)]
    BY <1>3 DEF Free
  <2>2. /\ live' = live \ {l}
        /\ UNCHANGED <<auto_expand, disable_secmem, show_warning, not_locked,
                       suspend_warning, no_mlock, no_priv_drop, setuid_root,
                       fips, halted, terms>>
    BY <1>3 DEF Free
  <2>3. pools' = Freed(pools, l.pool, b)
    BY <2>1 DEF Freed
  <2>4. /\ Good(pools') /\ Held(pools', live')
        /\ \A i \in PoolIds : pools'[i].okay = pools[i].okay
    <3>1. b.off = l.off /\ l \in live /\ live' = live \ {l}
      BY <2>1, <2>2, <1>3
    <3> QED BY <1>0, <3>1, <2>3, HeldFree
  <2>5. MainFirst(pools') /\ WarningIssued' /\ FipsConfined'
    BY <1>0, <2>2, <2>4 DEF Inv, MainFirst, WarningIssued, FipsConfined, Overflow
  <2>6. TypeOK'
    BY <2>2, <2>4 DEF Inv, TypeOK, Good
  <2> QED BY <2>2, <2>4, <2>5, <2>6 DEF Inv, Good, MainFirst, ExpandSane, Held
<1>4. ASSUME NEW l \in live, NEW n \in Requests, NEW xhint \in BOOLEAN,
             Realloc(l, n, xhint)
      PROVE  Inv'
  BY <1>4, ReallocInv
<1>5. ASSUME NEW l \in live, Write(l)
      PROVE  Inv'
  <2> DEFINE D == (l.off + HeadSize)..(l.off + HeadSize + l.n - 1)
  <2>1. pools' = Dirtied(pools, l.pool, D)
    BY <1>5 DEF Write, Dirtied
  <2>2. UNCHANGED <<auto_expand, disable_secmem, show_warning, not_locked,
                    suspend_warning, no_mlock, no_priv_drop, setuid_root, fips,
                    halted, live, terms>>
    BY <1>5 DEF Write
  <2>3. l.pool \in PoolIds /\ l.off \in Nat /\ l.n \in Nat /\ HeadSize \in Nat
        /\ \A m \in live : m.pool \in PoolIds
    BY <1>0, <1>5, InputsAssumption, SizesAssumption DEF Pointer
  <2>4. PICK a \in pools[l.pool].blocks : a.off = l.off /\ a.active /\ l.n <= a.size
    BY <1>0, <1>5 DEF Held
  <2>5. a \in Block
    BY <1>0, <2>3 DEF Good, GoodPool, Pool
  <2>6. D \in SUBSET Nat /\ D \subseteq Span(a)
    BY <2>3, <2>4, <2>5 DEF Span, End, Block
  <2> HIDE DEF D
  <2>7. /\ Good(pools') /\ Held(pools', live)
        /\ \A j \in PoolIds : pools'[j].okay = pools[j].okay
    BY <1>0, <2>1, <2>3, <2>4, <2>6, WriteGood
  <2>8. MainFirst(pools') /\ WarningIssued' /\ FipsConfined'
    BY <1>0, <2>2, <2>7 DEF Inv, MainFirst, WarningIssued, FipsConfined, Overflow
  <2>9. TypeOK'
    BY <2>2, <2>7 DEF Inv, TypeOK, Good
  <2> QED BY <2>2, <2>7, <2>8, <2>9 DEF Inv, Good, MainFirst, ExpandSane, Held
<1>6. ASSUME NEW f \in FlagSets, SetFlags(f)
      PROVE  Inv'
  <2>1. f.susp \in BOOLEAN /\ f.nolock \in BOOLEAN /\ f.nodrop \in BOOLEAN
    BY InputsAssumption
  <2>2. /\ suspend_warning' = f.susp /\ no_mlock' = f.nolock
        /\ no_priv_drop' = f.nodrop
        /\ show_warning' = (show_warning /\ ~(suspend_warning /\ ~f.susp))
        /\ UNCHANGED <<pools, auto_expand, disable_secmem, not_locked,
                       setuid_root, fips, halted, live, terms>>
    BY <1>6 DEF SetFlags
  <2>3. WarningIssued' /\ FipsConfined'
    BY <2>1, <2>2 DEF Inv, TypeOK, WarningIssued, FipsConfined, Overflow
  <2>4. TypeOK'
    BY <2>1, <2>2 DEF Inv, TypeOK
  <2> QED BY <2>2, <2>3, <2>4 DEF Inv, Good, MainFirst, ExpandSane, Held
<1>7. ASSUME NEW n \in ChunkSizes, SetAutoExpand(n)
      PROVE  Inv'
  <2>1. ChunkSize(n) \in Nat
    <3>1. /\ n \in Nat /\ StandardPoolSize \in Nat \ {0} /\ UIntMod \in Nat \ {0}
      BY InputsAssumption, SizesAssumption
    <3>2. (n + 2 * StandardPoolSize - 1) % UIntMod \in Nat
      BY <3>1
    <3>3. ((n + 2 * StandardPoolSize - 1) % UIntMod) \div StandardPoolSize \in Nat
      BY <3>1, <3>2
    <3> QED BY <3>1, <3>3 DEF ChunkSize
  <2>2. auto_expand' \in Nat /\ auto_expand' >= StandardPoolSize
    BY <1>7, <2>1, SizesAssumption DEF SetAutoExpand
  <2>3. UNCHANGED <<pools, disable_secmem, show_warning, not_locked,
                    suspend_warning, no_mlock, no_priv_drop, setuid_root, fips,
                    halted, live, terms>>
    BY <1>7 DEF SetAutoExpand
  <2> QED BY <2>2, <2>3 DEF Inv, TypeOK, Good, MainFirst, ExpandSane, Held,
                            FipsConfined, WarningIssued, Overflow
<1>8. ASSUME Term
      PROVE  Inv'
  <2> DEFINE z == [pools[0] EXCEPT !.okay = FALSE, !.size = 0,
                                   !.blocks = {}, !.dirty = {}]
  <2>1. \A i \in PoolIds : pools'[i] = IF i = 0 THEN z ELSE NoPool
    BY <1>8 DEF Term
  <2>2. z \in Pool /\ z.blocks = {} /\ z.dirty = {} /\ z.size = 0 /\ ~z.okay
    BY <1>0 DEF Good, Pool
  <2>3. NoPool \in Pool /\ NoPool.blocks = {} /\ NoPool.dirty = {}
        /\ NoPool.size = 0 /\ ~NoPool.okay
    BY DEF NoPool, Pool
  <2>4. pools' \in [PoolIds -> Pool]
    BY <1>8, <2>2, <2>3 DEF Term
  <2> HIDE DEF z
  <2>5. \A p \in {z, NoPool} : GoodPool(p)
    BY <2>2, <2>3 DEF GoodPool, Tiled, Chain, Coalesced, Wiped
  <2>6. Good(pools') /\ MainFirst(pools')
    BY <2>1, <2>2, <2>3, <2>4, <2>5 DEF Good, MainFirst
  <2>7. /\ live' = {} /\ not_locked' = FALSE /\ terms' \in 0..MaxTerms
        /\ UNCHANGED <<auto_expand, disable_secmem, show_warning,
                       suspend_warning, no_mlock, no_priv_drop, setuid_root,
                       fips, halted>>
    BY <1>8, InputsAssumption DEF Term, Inv, TypeOK
  <2>8. Held(pools', live')
    BY <2>1, <2>2, <2>3, <2>7 DEF Held
  <2>9. WarningIssued' /\ FipsConfined'
    BY <2>1, <2>2, <2>3, <2>7 DEF WarningIssued, FipsConfined, Overflow
  <2>10. TypeOK'
    BY <2>4, <2>7 DEF Inv, TypeOK
  <2> QED BY <2>6, <2>7, <2>8, <2>9, <2>10
          DEF Inv, Good, MainFirst, ExpandSane, Held
<1>9. CASE UNCHANGED vars
  BY <1>9 DEF vars, Inv, TypeOK, Good, MainFirst, ExpandSane, Held,
              FipsConfined, WarningIssued, Overflow
<1> QED
  BY <1>1, <1>2, <1>3, <1>4, <1>5, <1>6, <1>7, <1>8, <1>9 DEF Next

\* The inductive invariant implies the invariants the runs check.
LEMMA InvImplies ==
  ASSUME Inv
  PROVE  /\ TypeOK /\ PoolsTiled /\ NoFragments /\ LiveBlocks
         /\ BlockHoldsSize /\ WipedWhenFree /\ FipsConfined /\ WarningIssued
<1>1. LiveBlocks /\ BlockHoldsSize
  BY HeldIsLive DEF Inv, TypeOK
<1> QED BY <1>1 DEF Inv, Good, GoodPool, PoolsTiled, NoFragments, WipedWhenFree

\* The inductive invariant holds throughout, if no request can wrap size_t.
LEMMA AlwaysInv ==
  ASSUME NoWrap
  PROVE  Spec => []Inv
<1>1. Init => Inv
  BY InitInv
<1>2. Inv /\ [Next]_vars => Inv'
  BY StepInv
<1> QED BY <1>1, <1>2, PTL DEF Spec

\* Variables always have their types.
THEOREM SecMemType ==
  ASSUME NoWrap
  PROVE  Spec => []TypeOK
<1>1. Inv => TypeOK
  BY InvImplies
<1> QED BY <1>1, AlwaysInv, PTL

\* For all sizes and all sequences of operations the blocks of each pool tile
\* its memory and no two free blocks are neighbours (mb_get_new, mb_merge).
THEOREM SecMemTiled ==
  ASSUME NoWrap
  PROVE  Spec => []WellFormed
<1>1. Inv => WellFormed
  BY InvImplies DEF WellFormed
<1> QED BY <1>1, AlwaysInv, PTL

\* Pointers and allocated blocks correspond one to one, and every block is as
\* large as its holder asked for (malloc, realloc, free).
THEOREM SecMemLive ==
  ASSUME NoWrap
  PROVE  Spec => []BlocksServe
<1>1. Inv => BlocksServe
  BY InvImplies DEF BlocksServe
<1> QED BY <1>1, AlwaysInv, PTL

\* Data is only ever left in blocks that are allocated: whatever is released
\* has been wiped.
THEOREM SecMemWiped ==
  ASSUME NoWrap
  PROVE  Spec => []WipedWhenFree
<1>1. Inv => WipedWhenFree
  BY InvImplies
<1> QED BY <1>1, AlwaysInv, PTL

\* In FIPS mode no block comes from an overflow pool or from a main pool that
\* could not be locked.
THEOREM SecMemPolicy ==
  ASSUME NoWrap
  PROVE  Spec => []FipsConfined
<1>1. Inv => FipsConfined
  BY InvImplies
<1> QED BY <1>1, AlwaysInv, PTL

\* The warning about insecure memory is never lost: once a caller holds a block
\* of a pool that is not locked, it was issued or warnings are suspended.
THEOREM SecMemWarning ==
  ASSUME NoWrap
  PROVE  Spec => []WarningIssued
<1>1. Inv => WarningIssued
  BY InvImplies
<1> QED BY <1>1, AlwaysInv, PTL

-----------------------------------------------------------------------------
(* The heap of SecureHeap.  The refinement mapping, for any pools ps and any *)
(* pointers L into them                                                      *)

BlockOf(ps, l) == CHOOSE b \in ps[l.pool].blocks : b.off = l.off

RegionAt(ps, l) == RegionOf(l, BlockOf(ps, l))

RegionsIn(ps, L) == {RegionAt(ps, l) : l \in L}

SecretsOf(ps, i) == {<<i, x>> : x \in ps[i].dirty}

SecretsIn(ps) == UNION {SecretsOf(ps, i) : i \in PoolIds}

Sane(ps, L) == Good(ps) /\ L \in SUBSET Pointer /\ Held(ps, L)

\* A pointer leads to one block, which is allocated and large enough.
LEMMA BlockOfHeld ==
  ASSUME NEW ps, NEW L, Sane(ps, L), NEW l \in L
  PROVE  LET b == BlockOf(ps, l)
         IN  /\ b \in ps[l.pool].blocks /\ b \in Block
             /\ b.off = l.off /\ b.active /\ l.n <= b.size
             /\ l \in Pointer /\ l.pool \in PoolIds /\ l.off \in Nat /\ l.n \in Nat
             /\ \A c \in ps[l.pool].blocks : c.off = l.off => c = b
<1>1. l \in Pointer /\ l.pool \in PoolIds /\ l.off \in Nat /\ l.n \in Nat
  BY InputsAssumption DEF Sane, Pointer
<1>2. PICK a \in ps[l.pool].blocks : a.off = l.off /\ a.active /\ l.n <= a.size
  BY DEF Sane, Held
<1>3. \A c \in ps[l.pool].blocks : c.off = l.off => c = a
  BY <1>1, <1>2, OneBlockAt DEF Sane
<1>4. BlockOf(ps, l) = a
  BY <1>2, <1>3 DEF BlockOf
<1>5. a \in Block
  BY <1>1, <1>2 DEF Sane, Good, GoodPool, Pool
<1> QED BY <1>1, <1>2, <1>3, <1>4, <1>5

\* What the region of a pointer looks like, and that it shows the pointer.
LEMMA RegionShape ==
  ASSUME NEW ps, NEW L, Sane(ps, L), NEW l \in L
  PROVE  LET r == RegionAt(ps, l)
             b == BlockOf(ps, l)
         IN  /\ r = [pool |-> l.pool, from |-> l.off + HeadSize,
                     to |-> l.off + HeadSize + b.size - 1, n |-> l.n]
             /\ r.pool = l.pool /\ r.from = l.off + HeadSize
             /\ r.to = l.off + HeadSize + b.size - 1 /\ r.n = l.n
             /\ r.from..r.to = Span(b)
             /\ r.n <= r.to - r.from + 1
<1> DEFINE b == BlockOf(ps, l)
<1>1. b \in Block /\ b.off = l.off /\ l.n <= b.size /\ l.off \in Nat /\ l.n \in Nat
  BY BlockOfHeld
<1>2. HeadSize \in Nat /\ b.size \in Nat
  BY <1>1, SizesAssumption DEF Block
<1> HIDE DEF b
<1>3. RegionOf(l, b) = [pool |-> l.pool, from |-> l.off + HeadSize,
                        to |-> l.off + HeadSize + b.size - 1, n |-> l.n]
  BY <1>1, <1>2 DEF RegionOf, End
<1>4. (l.off + HeadSize)..(l.off + HeadSize + b.size - 1) = Span(b)
  BY <1>1, <1>2 DEF Span, End
<1>5. l.n <= (l.off + HeadSize + b.size - 1) - (l.off + HeadSize) + 1
  BY <1>1, <1>2
<1> QED BY <1>3, <1>4, <1>5 DEF RegionAt, b

\* A region tells which pointer it belongs to.
LEMMA RegionShows ==
  ASSUME NEW ps, NEW L, Sane(ps, L), NEW qs, NEW M, Sane(qs, M),
         NEW l \in L, NEW m \in M, RegionAt(ps, l) = RegionAt(qs, m)
  PROVE  l.pool = m.pool /\ l.off = m.off /\ l.n = m.n /\ l = m
<1>1. /\ l.pool = m.pool /\ l.n = m.n
      /\ l.off + HeadSize = m.off + HeadSize
  BY RegionShape
<1>2. l \in Pointer /\ m \in Pointer /\ l.off \in Nat /\ m.off \in Nat
  BY BlockOfHeld
<1>3. l.off = m.off
  BY <1>1, <1>2, SizesAssumption
<1> QED BY <1>1, <1>2, <1>3 DEF Pointer

\* Regions, as SecMem defines it, is the image of the pointers.
LEMMA RegionsAre ==
  ASSUME NEW ps, NEW L, Sane(ps, L)
  PROVE  {RegionOf(x[1], x[2]) :
            x \in {y \in L \X UNION {ps[i].blocks : i \in PoolIds} :
                     y[2] \in ps[y[1].pool].blocks /\ y[2].off = y[1].off}}
           = RegionsIn(ps, L)
<1> DEFINE X == {y \in L \X UNION {ps[i].blocks : i \in PoolIds} :
                   y[2] \in ps[y[1].pool].blocks /\ y[2].off = y[1].off}
<1>1. ASSUME NEW x \in X
      PROVE  x[1] \in L /\ RegionOf(x[1], x[2]) = RegionAt(ps, x[1])
  <2>1. x[1] \in L /\ x[2] \in ps[x[1].pool].blocks /\ x[2].off = x[1].off
    OBVIOUS
  <2>2. x[2] = BlockOf(ps, x[1])
    BY <2>1, BlockOfHeld
  <2> QED BY <2>1, <2>2 DEF RegionAt
<1>2. ASSUME NEW l \in L
      PROVE  \E x \in X : RegionOf(x[1], x[2]) = RegionAt(ps, l)
  <2> DEFINE x == <<l, BlockOf(ps, l)>>
  <2>1. /\ BlockOf(ps, l) \in ps[l.pool].blocks /\ BlockOf(ps, l).off = l.off
        /\ l.pool \in PoolIds
    BY BlockOfHeld
  <2>2. x \in L \X UNION {ps[i].blocks : i \in PoolIds}
    BY <2>1
  <2>3. x \in X
    BY <2>1, <2>2
  <2> QED BY <2>3 DEF RegionAt
<1> HIDE DEF X
<1>3. {RegionOf(x[1], x[2]) : x \in X} = RegionsIn(ps, L)
  BY <1>1, <1>2 DEF RegionsIn
<1> QED BY <1>3 DEF X

\* The secrets are the written places of all pools.
LEMMA SecretsMember ==
  ASSUME NEW ps, NEW z
  PROVE  z \in SecretsIn(ps) <=> \E i \in PoolIds : \E x \in ps[i].dirty : z = <<i, x>>
BY DEF SecretsIn, SecretsOf

\* A place is a secret if its pool has it as written.
LEMMA SecretsPair ==
  ASSUME NEW ps, NEW i, NEW x
  PROVE  <<i, x>> \in SecretsIn(ps) <=> i \in PoolIds /\ x \in ps[i].dirty
BY SecretsMember

\* Equal contents are equal secrets.
LEMMA SecretsSame ==
  ASSUME NEW ps, NEW qs, \A i \in PoolIds : qs[i].dirty = ps[i].dirty
  PROVE  SecretsIn(qs) = SecretsIn(ps)
BY DEF SecretsIn, SecretsOf

\* A pointer whose block is still allocated keeps its region.
LEMMA RegionKept ==
  ASSUME NEW ps, NEW L, Sane(ps, L), NEW qs, NEW M, Sane(qs, M),
         NEW l \in L, l \in M, BlockOf(ps, l) \in qs[l.pool].blocks
  PROVE  RegionAt(qs, l) = RegionAt(ps, l)
<1>1. BlockOf(qs, l) = BlockOf(ps, l)
  BY BlockOfHeld
<1> QED BY <1>1 DEF RegionAt

\* Pools with the same held blocks and contents show a caller the same heap.
LEMMA RegionsSame ==
  ASSUME NEW ps, NEW L, Sane(ps, L), NEW qs, Sane(qs, L), SameHeld(ps, qs)
  PROVE  RegionsIn(qs, L) = RegionsIn(ps, L) /\ SecretsIn(qs) = SecretsIn(ps)
<1>1. ASSUME NEW l \in L PROVE RegionAt(qs, l) = RegionAt(ps, l)
  <2>1. BlockOf(ps, l) \in qs[l.pool].blocks
    BY BlockOfHeld DEF SameHeld
  <2> QED BY <2>1, RegionKept
<1>2. RegionsIn(qs, L) = RegionsIn(ps, L)
  BY <1>1 DEF RegionsIn
<1>3. SecretsIn(qs) = SecretsIn(ps)
  BY SecretsSame DEF SameHeld
<1> QED BY <1>2, <1>3

-----------------------------------------------------------------------------
(* What each change of the pools is in the abstract heap *)

\* The places of a region are the span of its block.
LEMMA BytesAre ==
  ASSUME NEW ps, NEW L, Sane(ps, L), NEW l \in L, NEW z
  PROVE  z \in Heap!Bytes(RegionAt(ps, l)) <=>
           \E x \in Span(BlockOf(ps, l)) : z = <<l.pool, x>>
<1>1. /\ RegionAt(ps, l).pool = l.pool
      /\ RegionAt(ps, l).from..RegionAt(ps, l).to = Span(BlockOf(ps, l))
  BY RegionShape
<1> QED BY <1>1 DEF Heap!Bytes

\* Two blocks of a pool do not overlap.
LEMMA SpansApart ==
  ASSUME NEW ps, Good(ps), NEW i \in PoolIds,
         NEW b \in ps[i].blocks, NEW c \in ps[i].blocks, b # c
  PROVE  /\ End(b) <= c.off \/ End(c) <= b.off
         /\ Span(b) \cap Span(c) = {}
<1>1. Chain(ps[i].blocks, ps[i].size) /\ b \in Block /\ c \in Block
  BY DEF Good, GoodPool, Tiled, Pool
<1>2. End(b) <= c.off \/ End(c) <= b.off
  BY <1>1 DEF Chain
<1>3. Span(b) \cap Span(c) = {}
  BY <1>1, <1>2, SizesAssumption DEF Span, End, Block
<1> QED BY <1>2, <1>3

\* The regions of two pointers are apart, and share no place.
LEMMA RegionsApart ==
  ASSUME NEW ps, NEW L, Sane(ps, L), NEW l \in L, NEW m \in L, l # m
  PROVE  /\ Heap!Apart(RegionAt(ps, l), RegionAt(ps, m))
         /\ Heap!Bytes(RegionAt(ps, l)) \cap Heap!Bytes(RegionAt(ps, m)) = {}
<1> DEFINE b == BlockOf(ps, l)
           c == BlockOf(ps, m)
<1>1. /\ b \in ps[l.pool].blocks /\ b \in Block /\ b.off = l.off
      /\ c \in ps[m.pool].blocks /\ c \in Block /\ c.off = m.off
      /\ l.pool \in PoolIds /\ m.pool \in PoolIds
      /\ l.off \in Nat /\ m.off \in Nat
  BY BlockOfHeld
<1>2. l.pool = m.pool => l.off # m.off
  BY DEF Sane, Held
<1>3. l.pool = m.pool => /\ End(b) <= c.off \/ End(c) <= b.off
                         /\ Span(b) \cap Span(c) = {}
  BY <1>1, <1>2, SpansApart DEF Sane
<1>4. /\ RegionAt(ps, l).pool = l.pool /\ RegionAt(ps, m).pool = m.pool
      /\ RegionAt(ps, l).from = l.off + HeadSize
      /\ RegionAt(ps, m).from = m.off + HeadSize
      /\ RegionAt(ps, l).to = l.off + HeadSize + b.size - 1
      /\ RegionAt(ps, m).to = m.off + HeadSize + c.size - 1
  BY RegionShape
<1> HIDE DEF b, c
<1>5. l.pool = m.pool => \/ l.off + HeadSize + b.size - 1 < m.off + HeadSize
                         \/ m.off + HeadSize + c.size - 1 < l.off + HeadSize
  BY <1>1, <1>3, SizesAssumption DEF End, Block
<1>6. Heap!Apart(RegionAt(ps, l), RegionAt(ps, m))
  BY <1>4, <1>5 DEF Heap!Apart
<1>7. Heap!Bytes(RegionAt(ps, l)) \cap Heap!Bytes(RegionAt(ps, m)) = {}
  <2> SUFFICES ASSUME NEW z, z \in Heap!Bytes(RegionAt(ps, l)),
                      z \in Heap!Bytes(RegionAt(ps, m))
               PROVE  FALSE
    OBVIOUS
  <2>1. PICK x \in Span(b) : z = <<l.pool, x>>
    BY BytesAre DEF b
  <2>2. PICK y \in Span(c) : z = <<m.pool, y>>
    BY BytesAre DEF c
  <2> QED BY <2>1, <2>2, <1>3
<1> QED BY <1>6, <1>7

\* A block that is granted is a region that may be handed out.
LEMMA GrantStep ==
  ASSUME NEW ps, NEW L, Sane(ps, L), NEW qs, Good(qs), NEW at, NEW n \in Requests,
         Grants(ps, qs, at, n),
         NEW k, k = [pool |-> at.pool, off |-> at.off, n |-> n],
         NEW M, M = L \cup {k}
  PROVE  LET r == RegionAt(qs, k)
         IN  /\ Sane(qs, M)
             /\ \A l \in L : l # k /\ RegionAt(qs, l) = RegionAt(ps, l)
             /\ r \notin RegionsIn(ps, L)
             /\ RegionsIn(qs, M) = RegionsIn(ps, L) \cup {r}
             /\ SecretsIn(qs) = SecretsIn(ps)
             /\ r.n <= r.to - r.from + 1
             /\ \A s \in RegionsIn(ps, L) : Heap!Apart(r, s)
             /\ Heap!Bytes(r) \cap SecretsIn(ps) = {}
<1> DEFINE r == RegionAt(qs, k)
<1>1. /\ Sane(qs, M) /\ k \in M
      /\ \A l \in L : l.pool # k.pool \/ l.off # k.off
  BY HeldGrant DEF Sane
<1>2. PICK a \in Block :
        /\ a.active /\ a.off = at.off /\ n <= a.size
        /\ \A i \in PoolIds : \A c \in Block : c.active =>
             (c \in qs[i].blocks <=> c \in ps[i].blocks \/ (i = at.pool /\ c = a))
  BY DEF Grants
<1>3. /\ at.pool \in PoolIds /\ \A i \in PoolIds : qs[i].dirty = ps[i].dirty
      /\ \A c \in ps[at.pool].blocks : c.active => c.off # at.off
  BY DEF Grants
<1>4. \A l \in L : l # k /\ RegionAt(qs, l) = RegionAt(ps, l)
  <2> SUFFICES ASSUME NEW l \in L PROVE l # k /\ RegionAt(qs, l) = RegionAt(ps, l)
    OBVIOUS
  <2>1. BlockOf(ps, l) \in qs[l.pool].blocks
    BY <1>2, BlockOfHeld
  <2>2. l \in M
    OBVIOUS
  <2> QED BY <1>1, <2>1, <2>2, RegionKept
<1>5. RegionsIn(qs, M) = RegionsIn(ps, L) \cup {r}
  BY <1>4 DEF RegionsIn
<1>6. r \notin RegionsIn(ps, L)
  <2> SUFFICES ASSUME NEW l \in L, r = RegionAt(ps, l) PROVE FALSE
    BY DEF RegionsIn
  <2>1. l = k
    BY <1>1, RegionShows
  <2> QED BY <2>1, <1>4
<1>7. SecretsIn(qs) = SecretsIn(ps)
  BY <1>3, SecretsSame
<1>8. r.n <= r.to - r.from + 1
  BY <1>1, RegionShape
<1>9. \A s \in RegionsIn(ps, L) : Heap!Apart(r, s)
  <2> SUFFICES ASSUME NEW l \in L PROVE Heap!Apart(r, RegionAt(ps, l))
    BY DEF RegionsIn
  <2>1. l \in M /\ l # k /\ RegionAt(qs, l) = RegionAt(ps, l)
    BY <1>4
  <2>2. Heap!Apart(r, RegionAt(qs, l))
    BY <1>1, <2>1, RegionsApart
  <2> QED BY <2>1, <2>2
<1>10. Heap!Bytes(r) \cap SecretsIn(ps) = {}
  <2> SUFFICES ASSUME NEW z, z \in Heap!Bytes(r), z \in SecretsIn(ps) PROVE FALSE
    OBVIOUS
  <2>1. /\ k.pool = at.pool /\ k.off = at.off /\ BlockOf(qs, k) = a
    BY <1>1, <1>2, <1>3, BlockOfHeld
  <2>2. PICK x \in Span(a) : z = <<at.pool, x>>
    BY <1>1, <2>1, BytesAre
  <2>3. x \in ps[at.pool].dirty
    BY <2>2, SecretsPair
  <2>4. PICK c \in ps[at.pool].blocks : c.active /\ x \in Span(c)
    BY <1>3, <2>3 DEF Sane, Good, GoodPool, Wiped
  <2>5. c \in Block
    BY <1>3 DEF Sane, Good, GoodPool, Pool
  <2>6. a \in qs[at.pool].blocks /\ c \in qs[at.pool].blocks /\ a # c
    BY <1>2, <1>3, <2>4, <2>5
  <2>7. Span(a) \cap Span(c) = {}
    BY <1>3, <2>6, SpansApart
  <2> QED BY <2>2, <2>4, <2>7
<1> QED BY <1>1, <1>4, <1>5, <1>6, <1>7, <1>8, <1>9, <1>10

\* A block that is freed takes its region and what was in it along.
LEMMA FreeStep ==
  ASSUME NEW ps, NEW L, Sane(ps, L), NEW l \in L,
         NEW b \in ps[l.pool].blocks, b.off = l.off,
         NEW qs, qs = Freed(ps, l.pool, b), NEW M, M = L \ {l}
  PROVE  LET r == RegionAt(ps, l)
         IN  /\ Sane(qs, M)
             /\ r \in RegionsIn(ps, L)
             /\ RegionsIn(qs, M) = RegionsIn(ps, L) \ {r}
             /\ SecretsIn(qs) = SecretsIn(ps) \ Heap!Bytes(r)
<1> DEFINE r == RegionAt(ps, l)
           p == ps[l.pool]
           q == FreeBlock(p, b)
<1>1. Sane(qs, M)
  BY HeldFree DEF Sane
<1>2. /\ l.pool \in PoolIds /\ GoodPool(p) /\ p \in Pool /\ b \in Block
      /\ b = BlockOf(ps, l)
  BY BlockOfHeld DEF Sane, Good, GoodPool
<1>3. \A c \in Block : c.active => (c \in q.blocks <=> c \in p.blocks \ {b})
  BY <1>2, FreeBlockGood
<1>4. q.dirty = p.dirty \ Span(b)
  BY <1>2, FreeBlockGood
<1>5. \A i \in PoolIds : qs[i] = IF i = l.pool THEN q ELSE ps[i]
  BY <1>2 DEF Sane, Good, Freed
<1> HIDE DEF q
<1>6. \A m \in M : RegionAt(qs, m) = RegionAt(ps, m)
  <2> SUFFICES ASSUME NEW m \in M PROVE RegionAt(qs, m) = RegionAt(ps, m)
    OBVIOUS
  <2>1. m \in L /\ m # l
    OBVIOUS
  <2>2. LET c == BlockOf(ps, m)
        IN  /\ c \in ps[m.pool].blocks /\ c \in Block /\ c.active /\ c.off = m.off
            /\ m.pool \in PoolIds
    BY <2>1, BlockOfHeld
  <2>3. m.pool = l.pool => BlockOf(ps, m) # b
    BY <2>1, <2>2 DEF Sane, Held
  <2>4. BlockOf(ps, m) \in qs[m.pool].blocks
    BY <1>3, <1>5, <2>2, <2>3
  <2> QED BY <1>1, <2>1, <2>4, RegionKept
<1>7. \A m \in M : RegionAt(ps, m) # r
  <2> SUFFICES ASSUME NEW m \in M, RegionAt(ps, m) = r PROVE FALSE
    OBVIOUS
  <2>1. m \in L /\ m # l
    OBVIOUS
  <2> QED BY <2>1, RegionShows
<1>8. r \in RegionsIn(ps, L) /\ RegionsIn(qs, M) = RegionsIn(ps, L) \ {r}
  BY <1>6, <1>7 DEF RegionsIn
<1>9. SecretsIn(qs) = SecretsIn(ps) \ Heap!Bytes(r)
  <2>1. ASSUME NEW z PROVE z \in SecretsIn(qs) <=> z \in SecretsIn(ps) \ Heap!Bytes(r)
    <3>1. z \in SecretsIn(qs) <=> \E i \in PoolIds : \E x \in qs[i].dirty : z = <<i, x>>
      BY SecretsMember
    <3>2. z \in SecretsIn(ps) <=> \E i \in PoolIds : \E x \in ps[i].dirty : z = <<i, x>>
      BY SecretsMember
    <3>3. z \in Heap!Bytes(r) <=> \E x \in Span(b) : z = <<l.pool, x>>
      BY <1>2, BytesAre
    <3>4. \A i \in PoolIds : qs[i].dirty = IF i = l.pool THEN ps[i].dirty \ Span(b)
                                           ELSE ps[i].dirty
      BY <1>4, <1>5
    <3>5. z \in SecretsIn(qs) => z \in SecretsIn(ps) /\ z \notin Heap!Bytes(r)
      <4> SUFFICES ASSUME z \in SecretsIn(qs)
                   PROVE  z \in SecretsIn(ps) /\ z \notin Heap!Bytes(r)
        OBVIOUS
      <4>1. PICK i \in PoolIds : \E x \in qs[i].dirty : z = <<i, x>>
        BY <3>1
      <4>2. PICK x \in qs[i].dirty : z = <<i, x>>
        BY <4>1
      <4>3. x \in ps[i].dirty /\ (i = l.pool => x \notin Span(b))
        BY <4>2, <3>4
      <4>4. z \in SecretsIn(ps)
        BY <4>2, <4>3, <3>2
      <4>5. \A y \in Span(b) : z # <<l.pool, y>>
        BY <4>2, <4>3
      <4> QED BY <4>4, <4>5, <3>3
    <3>6. z \in SecretsIn(ps) /\ z \notin Heap!Bytes(r) => z \in SecretsIn(qs)
      <4> SUFFICES ASSUME z \in SecretsIn(ps), z \notin Heap!Bytes(r)
                   PROVE  z \in SecretsIn(qs)
        OBVIOUS
      <4>1. PICK i \in PoolIds : \E x \in ps[i].dirty : z = <<i, x>>
        BY <3>2
      <4>2. PICK x \in ps[i].dirty : z = <<i, x>>
        BY <4>1
      <4>3. x \in qs[i].dirty
        BY <4>2, <3>3, <3>4
      <4> QED BY <4>2, <4>3, <3>1
    <3> QED BY <3>5, <3>6
  <2> QED BY <2>1
<1> QED BY <1>1, <1>8, <1>9

\* What is written to an allocated block is added to the secrets.
LEMMA WriteStep ==
  ASSUME NEW ps, NEW L, Sane(ps, L), NEW i \in PoolIds, NEW D \in SUBSET Nat,
         NEW a \in ps[i].blocks, a.active, D \subseteq Span(a),
         NEW qs, qs = Dirtied(ps, i, D)
  PROVE  /\ Sane(qs, L)
         /\ \A m \in L : RegionAt(qs, m) = RegionAt(ps, m)
         /\ RegionsIn(qs, L) = RegionsIn(ps, L)
         /\ SecretsIn(qs) = SecretsIn(ps) \cup {<<i, x>> : x \in D}
<1>1. \A m \in L : m.pool \in PoolIds
  BY DEF Sane, Pointer
<1>2. /\ Sane(qs, L)
      /\ \A j \in PoolIds : qs[j].blocks = ps[j].blocks
  BY <1>1, WriteGood DEF Sane
<1>3. \A m \in L : RegionAt(qs, m) = RegionAt(ps, m)
  BY <1>1, <1>2 DEF RegionAt, BlockOf
<1>4. RegionsIn(qs, L) = RegionsIn(ps, L)
  BY <1>3 DEF RegionsIn
<1>5. \A j \in PoolIds : qs[j].dirty = IF j = i THEN ps[j].dirty \cup D ELSE ps[j].dirty
  <2>1. ps[i] \in Pool
    BY DEF Sane, Good
  <2> QED BY <2>1 DEF Sane, Good, Dirtied, Pool
<1>6. ASSUME NEW z
      PROVE  z \in SecretsIn(qs) <=> z \in SecretsIn(ps) \cup {<<i, x>> : x \in D}
  <2>1. z \in SecretsIn(qs) <=> \E j \in PoolIds : \E x \in qs[j].dirty : z = <<j, x>>
    BY SecretsMember
  <2>2. z \in SecretsIn(ps) <=> \E j \in PoolIds : \E x \in ps[j].dirty : z = <<j, x>>
    BY SecretsMember
  <2> QED BY <1>5, <2>1, <2>2
<1> QED BY <1>2, <1>3, <1>4, <1>6

\* The concrete and the abstract side of a realloc in place.
ReallocInPlace(ps, L, M, l, k, b, n) ==
  /\ Sane(ps, L) /\ l \in L /\ b \in ps[l.pool].blocks /\ b.off = l.off
  /\ n \in Requests /\ n < b.size
  /\ k = [l EXCEPT !.n = n] /\ M = (L \ {l}) \cup {k} /\ Sane(ps, M)

ResizesRegion(H, J, r, s) ==
  /\ r \in H /\ s \in J
  /\ s = [r EXCEPT !.n = s.n] /\ s.n <= r.to - r.from + 1
  /\ J = (H \ {r}) \cup {s}
  /\ s \in H => J = H

\* A realloc in place only changes how much of the region is asked for.
LEMMA ResizeStep ==
  ASSUME NEW ps, NEW L, NEW M, NEW l, NEW k, NEW b, NEW n,
         ReallocInPlace(ps, L, M, l, k, b, n)
  PROVE  ResizesRegion(RegionsIn(ps, L), RegionsIn(ps, M),
                       RegionAt(ps, l), RegionAt(ps, k))
<1> DEFINE r == RegionAt(ps, l)
           s == RegionAt(ps, k)
<1> USE DEF ReallocInPlace
<1>1. /\ b = BlockOf(ps, l) /\ b \in Block /\ l \in Pointer /\ l.off \in Nat
      /\ n \in Nat /\ HeadSize \in Nat
  BY BlockOfHeld, InputsAssumption, SizesAssumption
<1>2. k.pool = l.pool /\ k.off = l.off /\ k.n = n /\ k \in M
  BY <1>1 DEF Pointer
<1>3. BlockOf(ps, k) = b
  <2>1. \A c \in ps[k.pool].blocks : c.off = k.off => c = BlockOf(ps, k)
    <3>1. Sane(ps, M) /\ k \in M
      BY <1>2
    <3> QED BY ONLY <3>1, BlockOfHeld
  <2> QED BY <1>2, <2>1
<1>4. /\ r = [pool |-> l.pool, from |-> l.off + HeadSize,
              to |-> l.off + HeadSize + b.size - 1, n |-> l.n]
      /\ s = [pool |-> l.pool, from |-> l.off + HeadSize,
              to |-> l.off + HeadSize + b.size - 1, n |-> n]
  <2>1. Sane(ps, L) /\ l \in L /\ Sane(ps, M) /\ k \in M
    BY <1>2
  <2>2. /\ r = [pool |-> l.pool, from |-> l.off + HeadSize,
                to |-> l.off + HeadSize + BlockOf(ps, l).size - 1, n |-> l.n]
        /\ s = [pool |-> k.pool, from |-> k.off + HeadSize,
                to |-> k.off + HeadSize + BlockOf(ps, k).size - 1, n |-> k.n]
    BY ONLY <2>1, RegionShape
  <2> QED BY <1>1, <1>2, <1>3, <2>2
<1>5. n <= (l.off + HeadSize + b.size - 1) - (l.off + HeadSize) + 1
  BY <1>1 DEF Block
<1>6. s = [r EXCEPT !.n = s.n] /\ s.n <= r.to - r.from + 1
  BY <1>4, <1>5
<1>7. r \in RegionsIn(ps, L) /\ s \in RegionsIn(ps, M)
  BY <1>2 DEF RegionsIn
<1>8. \A m \in L : RegionAt(ps, m) = r => m = l
  BY RegionShows
<1> HIDE DEF r, s
<1>9. RegionsIn(ps, M) = (RegionsIn(ps, L) \ {r}) \cup {s}
  BY <1>8 DEF RegionsIn, r, s
<1>10. ASSUME s \in RegionsIn(ps, L)
       PROVE  RegionsIn(ps, M) = RegionsIn(ps, L)
  <2>1. PICK m \in L : RegionAt(ps, m) = RegionAt(ps, k)
    BY <1>10 DEF RegionsIn, s
  <2>2. m.pool = l.pool /\ m.off = l.off /\ m.n = n
    <3>1. Sane(ps, L) /\ Sane(ps, M) /\ m \in L /\ k \in M
      BY <1>2
    <3>2. m.pool = k.pool /\ m.off = k.off /\ m.n = k.n
      BY ONLY <3>1, <2>1, RegionShows
    <3> QED BY <1>2, <3>2
  <2>3. m = l
    BY <2>2 DEF Sane, Held
  <2>4. r = s
    BY <2>1, <2>3 DEF r, s
  <2> QED BY <1>7, <1>9, <2>4
<1> QED BY <1>6, <1>7, <1>9, <1>10 DEF r, s, ResizesRegion

\* The concrete and the abstract side of a realloc that moves: in qs the new
\* block is granted, in cs it has the content, in fs the old one is released.
ReallocMoved(ps, qs, cs, fs, L, M, l, k, b, at, n) ==
  /\ Sane(ps, L) /\ l \in L /\ b \in ps[l.pool].blocks /\ b.off = l.off
  /\ Good(qs) /\ n \in Requests /\ n >= b.size /\ Grants(ps, qs, at, n)
  /\ k = [pool |-> at.pool, off |-> at.off, n |-> n]
  /\ cs = Dirtied(qs, at.pool, Copied(qs[l.pool], b, at.off))
  /\ fs = Freed(cs, l.pool, b)
  /\ M = (L \ {l}) \cup {k}

MovesRegion(H, J, S, T, r, s) ==
  /\ r \in H /\ s \in J \ H
  /\ s.n <= s.to - s.from + 1
  /\ \A t \in H : Heap!Apart(s, t)
  /\ Heap!Bytes(s) \cap S = {}
  /\ J = (H \ {r}) \cup {s}
  /\ T = (S \ Heap!Bytes(r)) \cup
           {<<s.pool, s.from + (z[2] - r.from)>> : z \in S \cap Heap!Bytes(r)}

\* A realloc that moves: a region is granted, the content of the old one is
\* copied to it, and the old one is given back.
LEMMA MoveStep ==
  ASSUME NEW ps, NEW qs, NEW cs, NEW fs, NEW L, NEW M, NEW l, NEW k, NEW b,
         NEW at, NEW n, ReallocMoved(ps, qs, cs, fs, L, M, l, k, b, at, n)
  PROVE  MovesRegion(RegionsIn(ps, L), RegionsIn(fs, M), SecretsIn(ps),
                     SecretsIn(fs), RegionAt(ps, l), RegionAt(qs, k))
<1> USE DEF ReallocMoved
<1> DEFINE N == L \cup {k}
           r == RegionAt(ps, l)
           s == RegionAt(qs, k)
           D == Copied(qs[l.pool], b, at.off)
<1>0. N = L \cup {k} /\ k = [pool |-> at.pool, off |-> at.off, n |-> n]
  OBVIOUS
<1> HIDE DEF N, D
<1>1. /\ Sane(qs, N)
      /\ \A m \in L : m # k /\ RegionAt(qs, m) = RegionAt(ps, m)
      /\ s \notin RegionsIn(ps, L)
      /\ RegionsIn(qs, N) = RegionsIn(ps, L) \cup {s}
      /\ SecretsIn(qs) = SecretsIn(ps)
      /\ s.n <= s.to - s.from + 1
      /\ \A t \in RegionsIn(ps, L) : Heap!Apart(s, t)
      /\ Heap!Bytes(s) \cap SecretsIn(ps) = {}
  BY <1>0, GrantStep
<1> DEFINE a == BlockOf(qs, k)
<1>2. /\ k \in N /\ l \in N /\ l # k /\ k.pool = at.pool /\ k.off = at.off /\ k.n = n
      /\ at.pool \in PoolIds
  BY <1>0, <1>1 DEF Grants
<1>3. /\ a \in qs[at.pool].blocks /\ a \in Block /\ a.off = at.off /\ a.active
      /\ n <= a.size
  BY <1>1, <1>2, BlockOfHeld
<1>4. /\ b \in Block /\ b.active /\ b = BlockOf(ps, l) /\ l.pool \in PoolIds
      /\ l.off \in Nat /\ b \in qs[l.pool].blocks
  <2>1. b \in Block /\ b.active /\ b = BlockOf(ps, l) /\ l.pool \in PoolIds
        /\ l.off \in Nat
    BY BlockOfHeld
  <2> QED BY <2>1 DEF Grants
<1>5. n \in Nat /\ HeadSize \in Nat
  BY InputsAssumption, SizesAssumption
<1> HIDE DEF a, r, s
<1>6. D \in SUBSET Nat /\ D \subseteq Span(a)
  <2>1. ASSUME NEW x \in Span(b)
        PROVE  at.off + (x - b.off) \in Span(a) \cap Nat
    BY <2>1, <1>3, <1>4, <1>5 DEF Span, End, Block
  <2> QED BY <2>1 DEF Copied, D
<1>7. /\ Sane(cs, N)
      /\ \A m \in N : RegionAt(cs, m) = RegionAt(qs, m)
      /\ RegionsIn(cs, N) = RegionsIn(qs, N)
      /\ SecretsIn(cs) = SecretsIn(qs) \cup {<<at.pool, x>> : x \in D}
  <2>1. cs = Dirtied(qs, at.pool, D)
    BY DEF D
  <2> QED BY <2>1, <1>1, <1>2, <1>3, <1>6, WriteStep
<1>8. b \in cs[l.pool].blocks
  <2>1. BlockOf(cs, l) = b
    <3>1. BlockOf(qs, l) = b
      BY <1>1, <1>2, <1>4, BlockOfHeld
    <3>2. cs[l.pool].blocks = qs[l.pool].blocks
      BY <1>1, <1>2, <1>4 DEF Dirtied, Sane, Good, Pool
    <3> QED BY <3>1, <3>2 DEF BlockOf
  <2> QED BY <2>1, <1>2, <1>7, BlockOfHeld
<1>9. RegionAt(cs, l) = r
  BY <1>1, <1>2, <1>7 DEF r
<1>10. M = N \ {l}
  BY <1>0, <1>1, <1>2
<1>11. /\ RegionsIn(fs, M) = RegionsIn(cs, N) \ {r}
       /\ SecretsIn(fs) = SecretsIn(cs) \ Heap!Bytes(r)
  <2>1. /\ Sane(cs, N) /\ l \in N /\ b \in cs[l.pool].blocks /\ b.off = l.off
        /\ fs = Freed(cs, l.pool, b) /\ M = N \ {l}
    BY <1>2, <1>7, <1>8, <1>10
  <2>2. /\ RegionsIn(fs, M) = RegionsIn(cs, N) \ {RegionAt(cs, l)}
        /\ SecretsIn(fs) = SecretsIn(cs) \ Heap!Bytes(RegionAt(cs, l))
    BY ONLY <2>1, FreeStep, SMTT(60)
  <2> QED BY <1>9, <2>2
<1>12. r \in RegionsIn(ps, L)
  BY DEF RegionsIn, r
<1>13. /\ RegionsIn(fs, M) = (RegionsIn(ps, L) \ {r}) \cup {s}
       /\ s \in RegionsIn(fs, M)
  BY <1>1, <1>7, <1>11, <1>12
<1> DEFINE C == {<<at.pool, x>> : x \in D}
<1>14. C \cap Heap!Bytes(r) = {}
  <2>1. RegionAt(qs, l) = r
    BY <1>1 DEF r
  <2>2. Heap!Bytes(s) \cap Heap!Bytes(r) = {}
    BY <1>1, <1>2, <2>1, RegionsApart DEF s
  <2>3. C \subseteq Heap!Bytes(s)
    BY <1>1, <1>2, <1>6, BytesAre DEF s, a
  <2> QED BY <2>2, <2>3
<1>15. C = {<<s.pool, s.from + (z[2] - r.from)>> :
              z \in SecretsIn(ps) \cap Heap!Bytes(r)}
  <2>1. /\ s.pool = at.pool /\ s.from = at.off + HeadSize /\ r.from = l.off + HeadSize
    BY <1>1, <1>2, RegionShape DEF s, r
  <2>2. at.off \in Nat
    BY <1>3 DEF Block
  <2>3. \A x \in Span(b) :
          at.off + (x - b.off) = (at.off + HeadSize) + (x - (l.off + HeadSize))
    BY <2>2, <1>4, <1>5 DEF Span, End, Block
  <2>4. qs[l.pool].dirty = ps[l.pool].dirty
    BY <1>4 DEF Grants
  <2>5. C = {<<at.pool, at.off + (x - b.off)>> : x \in ps[l.pool].dirty \cap Span(b)}
    BY <2>4 DEF D, Copied
  <2>6. SecretsIn(ps) \cap Heap!Bytes(r) = {<<l.pool, x>> : x \in ps[l.pool].dirty \cap Span(b)}
    <3>1. ASSUME NEW z
          PROVE  z \in Heap!Bytes(r) <=> \E x \in Span(b) : z = <<l.pool, x>>
      BY <1>4, BytesAre DEF r
    <3> QED BY <3>1, <1>4, SecretsPair
  <2> DEFINE T == ps[l.pool].dirty \cap Span(b)
  <2>7. {<<s.pool, s.from + (z[2] - r.from)>> : z \in {<<l.pool, x>> : x \in T}}
          = {<<s.pool, s.from + (x - r.from)>> : x \in T}
    <3> DEFINE A == {<<s.pool, s.from + (z[2] - r.from)>> :
                       z \in {<<l.pool, x>> : x \in T}}
               B == {<<s.pool, s.from + (x - r.from)>> : x \in T}
    <3> HIDE DEF T
    <3>1. ASSUME NEW y \in A PROVE y \in B
      <4>1. PICK z \in {<<l.pool, x>> : x \in T} : y = <<s.pool, s.from + (z[2] - r.from)>>
        OBVIOUS
      <4>2. PICK x \in T : z = <<l.pool, x>>
        BY <4>1
      <4>3. z[2] = x
        BY <4>2
      <4> QED BY <4>1, <4>3
    <3>2. ASSUME NEW x \in T PROVE <<s.pool, s.from + (x - r.from)>> \in A
      <4> DEFINE z == <<l.pool, x>>
      <4>1. z[2] = x /\ z \in {<<l.pool, w>> : w \in T}
        OBVIOUS
      <4>2. <<s.pool, s.from + (z[2] - r.from)>> \in A
        BY <4>1
      <4> QED BY <4>1, <4>2
    <3> QED BY <3>1, <3>2
  <2>8. \A x \in T : <<s.pool, s.from + (x - r.from)>> = <<at.pool, at.off + (x - b.off)>>
    BY <2>1, <2>3
  <2>9. {<<s.pool, s.from + (x - r.from)>> : x \in T} = C
    BY <2>5, <2>8
  <2> QED BY <2>6, <2>7, <2>9
<1>16. SecretsIn(fs) = (SecretsIn(ps) \ Heap!Bytes(r)) \cup C
  BY <1>1, <1>7, <1>11, <1>14
<1> QED BY <1>1, <1>12, <1>13, <1>15, <1>16 DEF r, s, MovesRegion

-----------------------------------------------------------------------------
(* The refinement *)

\* Regions and Secrets are the mapping above, before and after a step.
LEMMA Mapped ==
  ASSUME Inv
  PROVE  /\ Sane(pools, live)
         /\ Regions = RegionsIn(pools, live) /\ Secrets = SecretsIn(pools)
<1>1. Sane(pools, live)
  BY DEF Inv, TypeOK, Sane
<1>2. Regions = RegionsIn(pools, live)
  BY <1>1, RegionsAre DEF Regions
<1>3. Secrets = SecretsIn(pools)
  BY DEF Secrets, SecretsIn, SecretsOf
<1> QED BY <1>1, <1>2, <1>3

\* The mapping, after a step.
LEMMA MappedNext ==
  ASSUME Inv'
  PROVE  /\ Sane(pools', live')
         /\ Regions' = RegionsIn(pools', live') /\ Secrets' = SecretsIn(pools')
<1>1. Sane(pools', live')
  BY DEF Inv, TypeOK, Sane, Good, Held
<1>2. Regions' = RegionsIn(pools', live')
  BY <1>1, RegionsAre DEF Regions
<1>3. Secrets' = SecretsIn(pools')
  BY DEF Secrets, SecretsIn, SecretsOf
<1> QED BY <1>1, <1>2, <1>3

\* A step that keeps the pointers, the allocated blocks and their contents is
\* no step of the heap.
LEMMA SameStutters ==
  ASSUME Inv, Inv', live' = live, SameHeld(pools, pools')
  PROVE  UNCHANGED Heap!vars
<1>1. Regions' = Regions /\ Secrets' = Secrets
  BY Mapped, MappedNext, RegionsSame
<1> QED BY <1>1 DEF Heap!vars

\* _gcry_secmem_malloc grants a region or changes nothing a caller sees.
LEMMA MallocHeap ==
  ASSUME NoWrap, Inv, Inv', NEW n \in Requests, NEW xhint \in BOOLEAN,
         Malloc(n, xhint)
  PROVE  [Heap!Next]_(Heap!vars)
<1>1. PICK o \in MallocInternal(n, xhint) :
        /\ pools' = o.pools
        /\ live' = IF o.at = Null THEN live
                   ELSE live \cup {[pool |-> o.at.pool, off |-> o.at.off, n |-> n]}
  BY DEF Malloc
<1>2. /\ Good(o.pools)
      /\ \/ o.at = Null /\ SameHeld(pools, o.pools)
         \/ o.at # Null /\ Grants(pools, o.pools, o.at, n)
  BY MallocOutcome DEF Inv, TypeOK, Booleans, FipsConfined
<1>3. CASE o.at = Null
  <2>1. live' = live /\ SameHeld(pools, pools')
    BY <1>1, <1>2, <1>3
  <2> QED BY <2>1, SameStutters
<1>4. CASE o.at # Null
  <2> DEFINE k == [pool |-> o.at.pool, off |-> o.at.off, n |-> n]
             r == RegionAt(pools', k)
  <2>1. k = [pool |-> o.at.pool, off |-> o.at.off, n |-> n] /\ live' = live \cup {k}
    BY <1>1, <1>4
  <2>2. Good(pools') /\ Grants(pools, pools', o.at, n)
    BY <1>1, <1>2, <1>4
  <2> HIDE DEF k, r
  <2>3. /\ r \notin RegionsIn(pools, live)
        /\ RegionsIn(pools', live') = RegionsIn(pools, live) \cup {r}
        /\ SecretsIn(pools') = SecretsIn(pools)
        /\ r.n <= r.to - r.from + 1
        /\ \A s \in RegionsIn(pools, live) : Heap!Apart(r, s)
        /\ Heap!Bytes(r) \cap SecretsIn(pools) = {}
    BY <2>1, <2>2, Mapped, GrantStep DEF r
  <2>4. /\ r \in Regions' \ Regions /\ Regions' = Regions \cup {r}
        /\ Secrets' = Secrets /\ r.n <= r.to - r.from + 1
        /\ \A s \in Regions : Heap!Apart(r, s)
        /\ Heap!Bytes(r) \cap Secrets = {}
    BY <2>3, Mapped, MappedNext
  <2>5. Heap!Grant(r)
    BY <2>4 DEF Heap!Grant, Heap!Fresh
  <2> QED BY <2>4, <2>5 DEF Heap!Next, Heap!New
<1> QED BY <1>3, <1>4

\* _gcry_secmem_free gives one region back, wiped.
LEMMA FreeHeap ==
  ASSUME Inv, Inv', NEW l \in live, Free(l)
  PROVE  Heap!Next
<1>1. PICK b \in pools[l.pool].blocks :
        b.off = l.off /\ pools' = [pools EXCEPT ![l.pool] = FreeBlock(pools[l.pool], b)]
  BY DEF Free
<1>2. live' = live \ {l} /\ pools' = Freed(pools, l.pool, b)
  BY <1>1 DEF Free, Freed
<1> DEFINE r == RegionAt(pools, l)
<1>3. /\ r \in RegionsIn(pools, live)
      /\ RegionsIn(pools', live') = RegionsIn(pools, live) \ {r}
      /\ SecretsIn(pools') = SecretsIn(pools) \ Heap!Bytes(r)
  <2>1. Sane(pools, live) /\ l \in live /\ b \in pools[l.pool].blocks /\ b.off = l.off
    BY <1>1, Mapped
  <2> QED BY ONLY <1>2, <2>1, FreeStep
<1> HIDE DEF r
<1>4. r \in Regions /\ Heap!Release(r)
  BY <1>3, Mapped, MappedNext DEF Heap!Release
<1> QED BY <1>4 DEF Heap!Next

\* A write by the holder stays within its region.
LEMMA WriteHeap ==
  ASSUME Inv, Inv', NEW l \in live, Write(l)
  PROVE  Heap!Next
<1> DEFINE D == (l.off + HeadSize)..(l.off + HeadSize + l.n - 1)
           a == BlockOf(pools, l)
           r == RegionAt(pools, l)
<1>1. pools' = Dirtied(pools, l.pool, D) /\ live' = live
  BY DEF Write, Dirtied
<1>2. Sane(pools, live)
  BY Mapped
<1>3. /\ a \in pools[l.pool].blocks /\ a \in Block /\ a.off = l.off /\ a.active
      /\ l.n <= a.size /\ l.pool \in PoolIds /\ l.off \in Nat /\ l.n \in Nat
  BY <1>2, BlockOfHeld
<1>4. HeadSize \in Nat
  BY SizesAssumption
<1> HIDE DEF a
<1>5. D \in SUBSET Nat /\ D \subseteq Span(a)
  BY <1>3, <1>4 DEF Span, End, Block
<1>6. r.pool = l.pool /\ r.from..(r.from + r.n - 1) = D
  BY <1>2, RegionShape
<1> HIDE DEF D, r
<1>7. /\ RegionsIn(pools', live) = RegionsIn(pools, live)
      /\ SecretsIn(pools') = SecretsIn(pools) \cup {<<l.pool, x>> : x \in D}
  BY <1>1, <1>2, <1>3, <1>5, WriteStep
<1>8. r \in Regions
  BY Mapped DEF RegionsIn, r
<1>9. Heap!Fill(r)
  <2>1. Regions' = Regions
    BY <1>1, <1>7, Mapped, MappedNext
  <2>2. Secrets' = Secrets \cup {<<r.pool, x>> : x \in r.from..(r.from + r.n - 1)}
    BY <1>6, <1>7, Mapped, MappedNext
  <2> QED BY <2>1, <2>2 DEF Heap!Fill
<1> QED BY <1>8, <1>9 DEF Heap!Next

\* _gcry_secmem_realloc resizes a region where it is, or moves it with its content.
LEMMA ReallocHeap ==
  ASSUME NoWrap, Inv, Inv', NEW l \in live, NEW n \in Requests,
         NEW xhint \in BOOLEAN, Realloc(l, n, xhint)
  PROVE  [Heap!Next]_(Heap!vars)
<1>1. PICK b \in pools[l.pool].blocks :
        /\ b.off = l.off
        /\ \/ /\ n < b.size
              /\ live' = (live \ {l}) \cup {[l EXCEPT !.n = n]}
              /\ pools' = pools
           \/ /\ n >= b.size
              /\ \E o \in MallocInternal(n, xhint) :
                   IF o.at = Null THEN pools' = o.pools /\ live' = live
                   ELSE LET to == o.at
                            copied == [o.pools EXCEPT ![to.pool].dirty =
                              o.pools[to.pool].dirty
                                \cup Copied(o.pools[l.pool], b, to.off)]
                        IN  /\ pools' = [copied EXCEPT ![l.pool] =
                                           FreeBlock(copied[l.pool], b)]
                            /\ live' = (live \ {l}) \cup
                                 {[pool |-> to.pool, off |-> to.off, n |-> n]}
  BY DEF Realloc
<1>2. Sane(pools, live) /\ Sane(pools', live')
  BY Mapped, MappedNext
<1>3. CASE /\ n < b.size
           /\ live' = (live \ {l}) \cup {[l EXCEPT !.n = n]}
           /\ pools' = pools
  <2> DEFINE k == [l EXCEPT !.n = n]
             r == RegionAt(pools, l)
             s == RegionAt(pools, k)
  <2>1. k = [l EXCEPT !.n = n] /\ live' = (live \ {l}) \cup {k} /\ Sane(pools, live')
    BY <1>2, <1>3
  <2> HIDE DEF k, r, s
  <2>2. /\ r \in RegionsIn(pools, live) /\ s \in RegionsIn(pools, live')
        /\ s = [r EXCEPT !.n = s.n] /\ s.n <= r.to - r.from + 1
        /\ RegionsIn(pools, live') = (RegionsIn(pools, live) \ {r}) \cup {s}
        /\ s \in RegionsIn(pools, live)
             => RegionsIn(pools, live') = RegionsIn(pools, live)
    <3>1. ReallocInPlace(pools, live, live', l, k, b, n)
      BY <1>1, <1>2, <1>3, <2>1 DEF ReallocInPlace
    <3>2. ResizesRegion(RegionsIn(pools, live), RegionsIn(pools, live'), r, s)
      BY <3>1, ResizeStep DEF r, s
    <3> QED BY <3>2 DEF ResizesRegion
  <2>3. /\ r \in Regions /\ s \in Regions'
        /\ Regions' = (Regions \ {r}) \cup {s} /\ Secrets' = Secrets
        /\ s \in Regions => Regions' = Regions
    BY <2>2, <1>3, Mapped, MappedNext
  <2>4. CASE s \in Regions
    BY <2>3, <2>4 DEF Heap!vars
  <2>5. CASE s \notin Regions
    <3>1. Heap!Resize(r, s)
      BY <2>2, <2>3 DEF Heap!Resize
    <3> QED BY <2>3, <2>5, <3>1 DEF Heap!Next, Heap!New
  <2> QED BY <2>4, <2>5
<1>4. ASSUME n >= b.size, NEW o \in MallocInternal(n, xhint),
             IF o.at = Null THEN pools' = o.pools /\ live' = live
             ELSE LET to == o.at
                      copied == [o.pools EXCEPT ![to.pool].dirty =
                        o.pools[to.pool].dirty
                          \cup Copied(o.pools[l.pool], b, to.off)]
                  IN  /\ pools' = [copied EXCEPT ![l.pool] =
                                     FreeBlock(copied[l.pool], b)]
                      /\ live' = (live \ {l}) \cup
                           {[pool |-> to.pool, off |-> to.off, n |-> n]}
      PROVE  [Heap!Next]_(Heap!vars)
  <2>1. /\ Good(o.pools)
        /\ \/ o.at = Null /\ SameHeld(pools, o.pools)
           \/ o.at # Null /\ Grants(pools, o.pools, o.at, n)
    BY <1>4, MallocOutcome DEF Inv, TypeOK, Booleans, FipsConfined
  <2>2. CASE o.at = Null
    <3>1. live' = live /\ SameHeld(pools, pools')
      BY <1>4, <2>1, <2>2
    <3> QED BY <3>1, SameStutters
  <2>3. CASE o.at # Null
    <3> DEFINE k == [pool |-> o.at.pool, off |-> o.at.off, n |-> n]
               cs == Dirtied(o.pools, o.at.pool, Copied(o.pools[l.pool], b, o.at.off))
               r == RegionAt(pools, l)
               s == RegionAt(o.pools, k)
    <3>1. /\ live' = (live \ {l}) \cup {k}
          /\ pools' = Freed(cs, l.pool, b)
      BY <1>4, <2>3 DEF Freed, Dirtied
    <3>2. /\ k = [pool |-> o.at.pool, off |-> o.at.off, n |-> n]
          /\ cs = Dirtied(o.pools, o.at.pool, Copied(o.pools[l.pool], b, o.at.off))
          /\ b.off = l.off /\ n >= b.size
          /\ Good(o.pools) /\ Grants(pools, o.pools, o.at, n)
      BY <1>1, <1>4, <2>1, <2>3
    <3> HIDE DEF k, cs, r, s
    <3>3. /\ r \in RegionsIn(pools, live)
          /\ s \in RegionsIn(pools', live') \ RegionsIn(pools, live)
          /\ s.n <= s.to - s.from + 1
          /\ \A t \in RegionsIn(pools, live) : Heap!Apart(s, t)
          /\ Heap!Bytes(s) \cap SecretsIn(pools) = {}
          /\ RegionsIn(pools', live') = (RegionsIn(pools, live) \ {r}) \cup {s}
          /\ SecretsIn(pools') = (SecretsIn(pools) \ Heap!Bytes(r)) \cup
               {<<s.pool, s.from + (z[2] - r.from)>> :
                  z \in SecretsIn(pools) \cap Heap!Bytes(r)}
      <4>1. ReallocMoved(pools, o.pools, cs, pools', live, live', l, k, b, o.at, n)
        BY <1>2, <3>1, <3>2 DEF ReallocMoved
      <4>2. MovesRegion(RegionsIn(pools, live), RegionsIn(pools', live'),
                        SecretsIn(pools), SecretsIn(pools'), r, s)
        BY <4>1, MoveStep DEF r, s
      <4> QED BY <4>2 DEF MovesRegion
    <3>4. /\ r \in Regions /\ s \in Regions' \ Regions
          /\ s.n <= s.to - s.from + 1
          /\ \A t \in Regions : Heap!Apart(s, t)
          /\ Heap!Bytes(s) \cap Secrets = {}
          /\ Regions' = (Regions \ {r}) \cup {s}
          /\ Secrets' = (Secrets \ Heap!Bytes(r)) \cup
               {<<s.pool, s.from + (z[2] - r.from)>> : z \in Secrets \cap Heap!Bytes(r)}
      BY <3>3, Mapped, MappedNext
    <3>5. Heap!Move(r, s)
      BY <3>4 DEF Heap!Move, Heap!Fresh
    <3> QED BY <3>4, <3>5 DEF Heap!Next, Heap!New
  <2> QED BY <2>2, <2>3
<1> QED BY <1>1, <1>3, <1>4

\* _gcry_secmem_term takes all regions away and leaves no secret.
LEMMA TermHeap ==
  ASSUME Inv, Inv', Term
  PROVE  Heap!Next
<1> DEFINE z == [pools[0] EXCEPT !.okay = FALSE, !.size = 0,
                                 !.blocks = {}, !.dirty = {}]
<1>1. 0 \in PoolIds /\ pools[0] \in Pool
  BY InputsAssumption DEF PoolIds, Inv, Good
<1>2. z.dirty = {} /\ NoPool.dirty = {}
  BY <1>1 DEF Pool, NoPool
<1>3. \A i \in PoolIds : pools'[i] = IF i = 0 THEN z ELSE NoPool
  BY DEF Term
<1> HIDE DEF z
<1>4. \A i \in PoolIds : pools'[i].dirty = {}
  BY <1>2, <1>3
<1>5. live' = {}
  BY DEF Term
<1>6. RegionsIn(pools', live') = {} /\ SecretsIn(pools') = {}
  BY <1>4, <1>5 DEF RegionsIn, SecretsIn, SecretsOf
<1>7. Heap!ReleaseAll
  BY <1>6, MappedNext DEF Heap!ReleaseAll
<1> QED BY <1>7 DEF Heap!Next

\* Every step of the allocator is a step of the heap, or none.
LEMMA StepHeap ==
  ASSUME NoWrap, Inv, Inv', [Next]_vars
  PROVE  [Heap!Next]_(Heap!vars)
<1>0. pools' = pools => SameHeld(pools, pools')
  BY DEF SameHeld
<1>1. ASSUME NEW n \in InitSizes, InitSecmem(n)
      PROVE  UNCHANGED Heap!vars
  <2>1. live' = live
    BY <1>1 DEF InitSecmem
  <2>2. CASE n = 0
    BY <1>0, <1>1, <2>1, <2>2, SameStutters DEF InitSecmem
  <2>3. CASE n # 0
    <3>1. PICK e \in InitInternal(n) : pools' = e.pools
      BY <1>1, <2>3 DEF InitSecmem
    <3>2. SameHeld(pools, e.pools)
      BY InitOutcome, InputsAssumption DEF Inv, TypeOK, Booleans
    <3> QED BY <3>1, <3>2, <2>1, SameStutters
  <2> QED BY <2>2, <2>3
<1>2. ASSUME NEW n \in Requests, NEW xhint \in BOOLEAN, Malloc(n, xhint)
      PROVE  [Heap!Next]_(Heap!vars)
  BY <1>2, MallocHeap
<1>3. ASSUME NEW l \in live, Free(l) PROVE Heap!Next
  BY <1>3, FreeHeap
<1>4. ASSUME NEW l \in live, NEW n \in Requests, NEW xhint \in BOOLEAN,
             Realloc(l, n, xhint)
      PROVE  [Heap!Next]_(Heap!vars)
  BY <1>4, ReallocHeap
<1>5. ASSUME NEW l \in live, Write(l) PROVE Heap!Next
  BY <1>5, WriteHeap
<1>6. ASSUME NEW f \in FlagSets, SetFlags(f) PROVE UNCHANGED Heap!vars
  BY <1>0, <1>6, SameStutters DEF SetFlags
<1>7. ASSUME NEW n \in ChunkSizes, SetAutoExpand(n) PROVE UNCHANGED Heap!vars
  BY <1>0, <1>7, SameStutters DEF SetAutoExpand
<1>8. CASE Term
  BY <1>8, TermHeap
<1>9. CASE UNCHANGED vars
  BY <1>0, <1>9, SameStutters DEF vars
<1> QED
  BY <1>1, <1>2, <1>3, <1>4, <1>5, <1>6, <1>7, <1>8, <1>9 DEF Next

\* The initial states map to those of the abstract heap.
LEMMA InitHeap == Init => Heap!Init
<1> SUFFICES ASSUME Init PROVE Heap!Init
  OBVIOUS
<1>1. live = {} /\ \A i \in PoolIds : pools[i].dirty = {}
  BY DEF Init, NoPool
<1>2. Regions = RegionsIn(pools, live) /\ Secrets = SecretsIn(pools)
  BY InitInv, Mapped
<1>3. Regions = {} /\ Secrets = {}
  BY <1>1, <1>2 DEF RegionsIn, SecretsIn, SecretsOf
<1> QED BY <1>3 DEF Heap!Init

\* The allocator implements the abstract heap, for all sizes, pools and numbers
\* of pointers: malloc and realloc give out clean memory of the size asked for
\* that nobody else holds, a realloc that moves takes exactly the old content
\* along, a failed one changes nothing, and free leaves no secret behind
\* (_gcry_secmem_malloc_internal, _gcry_secmem_realloc_internal,
\* _gcry_secmem_free_internal, _gcry_secmem_term).
THEOREM SecMemImplementsHeap ==
  ASSUME NoWrap
  PROVE  Spec => ImplementsHeap
<1>1. Init => Heap!Init
  BY InitHeap
<1>2. Inv /\ Inv' /\ [Next]_vars => [Heap!Next]_(Heap!vars)
  BY StepHeap
<1> QED BY <1>1, <1>2, AlwaysInv, PTL DEF Spec, ImplementsHeap, Heap!Spec

-----------------------------------------------------------------------------
(* Sums of sizes *)

\* A set of numbers has a least one.
LEMMA NatLeast ==
  ASSUME NEW T \in SUBSET Nat, T # {}
  PROVE  \E x \in T : \A y \in T : x <= y
<1> DEFINE R == {p \in Nat \X Nat : p[1] < p[2]}
<1>1. IsWellFoundedOn(R, Nat)
  <2>1. R = OpToRel(<, Nat)
    BY DEF OpToRel
  <2> QED BY <2>1, NatLessThanWellFounded
<1>2. \A x, y \in Nat : y < x => <<y, x>> \in R
  OBVIOUS
<1> HIDE DEF R
<1>3. PICK x \in T : \A y \in T : ~ (<<y, x>> \in R)
  BY <1>1, WFMin
<1>4. ASSUME NEW y \in T PROVE x <= y
  <2>1. ~(y < x)
    BY <1>2, <1>3
  <2> QED BY <2>1
<1> QED BY <1>4

\* Of a collection of finite sets one has none of the others within it.
LEMMA SetLeast ==
  ASSUME NEW S, IsFiniteSet(S), NEW T \in SUBSET (SUBSET S), T # {}
  PROVE  \E s \in T : \A t \in SUBSET s : t # s => t \notin T
<1> DEFINE C == {Cardinality(s) : s \in T}
<1>1. \A s \in T : IsFiniteSet(s) /\ Cardinality(s) \in Nat
  BY FS_Subset, FS_CardinalityType
<1>2. C \in SUBSET Nat /\ C # {}
  BY ONLY <1>1, T # {}
<1>3. PICK n \in C : \A k \in C : n <= k
  BY ONLY <1>2, NatLeast
<1>4. PICK s \in T : Cardinality(s) = n
  BY <1>3
<1>5. ASSUME NEW t \in SUBSET s, t # s, t \in T PROVE FALSE
  <2>1. Cardinality(t) <= Cardinality(s) /\ Cardinality(t) # Cardinality(s)
    BY <1>1, <1>5, FS_Subset
  <2>2. n <= Cardinality(t)
    BY <1>3, <1>5
  <2> QED BY <1>1, <1>4, <1>5, <2>1, <2>2
<1> QED BY <1>4, <1>5

\* The function over the subsets of S that MapThenSumSet takes the sum from.
PickOf(s) == CHOOSE x \in s : TRUE
SumStep(S, f) ==
  [s \in SUBSET S |-> IF s = {} THEN 0 ELSE PickOf(s).size + f[s \ {PickOf(s)}]]
SumFcn(S) == CHOOSE f : f = SumStep(S, f)
SizeSum(S) == MapThenSumSet(LAMBDA b : b.size, S)

\* The sum is its value for S.
LEMMA SumIs ==
  ASSUME NEW S
  PROVE  SizeSum(S) = SumFcn(S)[S]
BY DEF SizeSum, MapThenSumSet, MapThenFoldSet, SumFcn, SumStep, PickOf

\* CHOOSE takes an element.
LEMMA PickIn ==
  ASSUME NEW s, s # {}
  PROVE  PickOf(s) \in s
BY DEF PickOf

\* There is such a function.
LEMMA SumExists ==
  ASSUME NEW S, IsFiniteSet(S)
  PROVE  SumFcn(S) = SumStep(S, SumFcn(S))
<1> DEFINE D(n) == {s \in SUBSET S : Cardinality(s) <= n}
           At(g, s) == IF s = {} THEN 0 ELSE PickOf(s).size + g[s \ {PickOf(s)}]
           Part(n, g) == g = [s \in D(n) |-> At(g, s)]
           Bad == {n \in Nat : ~ \E g : Part(n, g)}
<1>1. \A s \in SUBSET S : IsFiniteSet(s) /\ Cardinality(s) \in Nat /\ Cardinality(s) <= Cardinality(S)
  BY FS_Subset, FS_CardinalityType
<1>2. \A s \in SUBSET S : Cardinality(s) = 0 => s = {}
  BY <1>1, FS_EmptySet
<1>3. \A s \in SUBSET S : s # {} => /\ s \ {PickOf(s)} \in SUBSET S
                                    /\ Cardinality(s \ {PickOf(s)}) = Cardinality(s) - 1
  BY <1>1, PickIn, FS_RemoveElement
<1>4. Part(0, [s \in D(0) |-> 0])
  <2>1. \A s \in D(0) : s = {}
    BY <1>1, <1>2
  <2>2. \A g : \A s \in D(0) : At(g, s) = 0
    BY ONLY <2>1
  <2> HIDE DEF At, D
  <2> QED BY ONLY <2>2
<1>5. ASSUME NEW n \in Nat, NEW g, Part(n, g) PROVE \E h : Part(n + 1, h)
  <2> DEFINE h == [s \in D(n + 1) |-> At(g, s)]
  <2>1. \A s \in D(n) : g[s] = At(g, s)
    <3> HIDE DEF At, D
    <3> QED BY ONLY <1>5
  <2>2. \A s \in D(n) : s \in D(n + 1)
    BY <1>1
  <2>3. \A s \in D(n) : h[s] = g[s]
    <3> HIDE DEF At, D
    <3> QED BY ONLY <2>1, <2>2
  <2>4. \A s \in D(n + 1) : s # {} => s \ {PickOf(s)} \in D(n)
    BY <1>1, <1>3
  <2>5. \A s \in D(n + 1) : At(g, s) = At(h, s)
    <3> HIDE DEF h, D
    <3> QED BY ONLY <2>3, <2>4
  <2>6. h = [s \in D(n + 1) |-> At(h, s)]
    <3>1. \A f : (\A s \in D(n + 1) : At(g, s) = At(f, s)) =>
                   [s \in D(n + 1) |-> At(g, s)] = [s \in D(n + 1) |-> At(f, s)]
      <4> HIDE DEF At, D
      <4> QED BY ONLY TRUE
    <3> HIDE DEF At, D
    <3> QED BY ONLY <2>5, <3>1
  <2> HIDE DEF h, At, D
  <2> QED BY ONLY <2>6
<1> HIDE DEF Part
<1>6. Bad = {}
  <2> SUFFICES ASSUME Bad # {} PROVE FALSE
    OBVIOUS
  <2>1. Bad \in SUBSET Nat
    OBVIOUS
  <2>2. PICK n \in Bad : \A k \in Bad : n <= k
    BY ONLY <2>1, Bad # {}, NatLeast
  <2>3. n \in Nat /\ ~ \E g : Part(n, g)
    BY ONLY <2>2
  <2>4. n # 0
    BY ONLY <2>3, <1>4
  <2>5. n - 1 \in Nat /\ n - 1 \notin Bad
    BY ONLY <2>2, <2>3, <2>4
  <2>6. PICK g : Part(n - 1, g)
    BY ONLY <2>5
  <2>7. \E h : Part((n - 1) + 1, h)
    BY ONLY <2>5, <2>6, <1>5
  <2>8. (n - 1) + 1 = n
    BY ONLY <2>3
  <2> QED BY ONLY <2>3, <2>7, <2>8
<1>7. PICK g : Part(Cardinality(S), g)
  <2>1. Cardinality(S) \in Nat
    BY FS_CardinalityType
  <2> QED BY ONLY <1>6, <2>1
<1>8. g = SumStep(S, g)
  <2>1. D(Cardinality(S)) = SUBSET S
    BY <1>1
  <2> HIDE DEF D
  <2> QED BY ONLY <1>7, <2>1 DEF Part, SumStep
<1> QED BY ONLY <1>8 DEF SumFcn

\* Such a function takes the elements in any order.
Sized(S) == \A x \in S : x.size \in Nat
AnyOrder(S, f) ==
  \A s \in SUBSET S : f[s] \in Nat /\ \A x \in s : f[s] = x.size + f[s \ {x}]

\* A sum of sizes does not depend on the order.
LEMMA SumAny ==
  ASSUME NEW S, IsFiniteSet(S), Sized(S), NEW f, f = SumStep(S, f)
  PROVE  AnyOrder(S, f)
<1> DEFINE Ok(s) == f[s] \in Nat /\ \A x \in s : f[s] = x.size + f[s \ {x}]
           Bad == {s \in SUBSET S : ~Ok(s)}
<1>1. f[{}] = 0
  <2>1. SumStep(S, f)[{}] = 0
    BY DEF SumStep
  <2> QED BY ONLY <2>1, f = SumStep(S, f)
<1>2. ASSUME NEW s \in SUBSET S, s # {}
      PROVE  f[s] = PickOf(s).size + f[s \ {PickOf(s)}]
  <2>1. SumStep(S, f)[s] = PickOf(s).size + f[s \ {PickOf(s)}]
    BY <1>2 DEF SumStep
  <2> QED BY ONLY <2>1, f = SumStep(S, f)
<1>3. Bad = {}
  <2> SUFFICES ASSUME Bad # {} PROVE FALSE
    OBVIOUS
  <2>1. Bad \in SUBSET (SUBSET S)
    OBVIOUS
  <2>2. PICK s \in Bad : \A t \in SUBSET s : t # s => t \notin Bad
    <3> HIDE DEF Bad
    <3> QED BY ONLY <2>1, IsFiniteSet(S), Bad # {}, SetLeast
  <2>3. s \in SUBSET S /\ ~Ok(s)
    BY ONLY <2>2
  <2>4. \A t \in SUBSET s : t # s => f[t] \in Nat /\ \A x \in t : f[t] = x.size + f[t \ {x}]
    BY ONLY <2>2, <2>3
  <2> DEFINE y == PickOf(s)
  <2>5. s # {}
    <3>1. f[{}] \in Nat /\ \A x \in {} : f[{}] = x.size + f[{} \ {x}]
      BY ONLY <1>1
    <3> QED BY ONLY <2>3, <3>1
  <2>6. y \in s
    BY ONLY <2>5, PickIn
  <2>7. f[s] = y.size + f[s \ {y}]
    BY ONLY <2>3, <2>5, <1>2
  <2> HIDE DEF y
  <2>8. \A x \in s : x.size \in Nat
    BY <2>3 DEF Sized
  <2>9. f[s] \in Nat
    <3>1. f[s \ {y}] \in Nat /\ y.size \in Nat
      BY ONLY <2>4, <2>6, <2>8
    <3> QED BY ONLY <3>1, <2>7
  <2>10. ASSUME NEW x \in s PROVE f[s] = x.size + f[s \ {x}]
    <3>1. CASE x = y
      BY ONLY <3>1, <2>7
    <3>2. CASE x # y
      <4> DEFINE t == (s \ {x}) \ {y}
                 a == s \ {x}
                 b == s \ {y}
      <4>1. a \in SUBSET s /\ a # s /\ y \in a /\ b \in SUBSET s /\ b # s /\ x \in b
            /\ t \in SUBSET s /\ t # s /\ a \ {y} = t /\ b \ {x} = t
        BY ONLY <3>2, <2>6, <2>10
      <4> HIDE DEF a, b, t
      <4>2. f[b] = x.size + f[t] /\ f[a] = y.size + f[t] /\ f[t] \in Nat
        BY ONLY <4>1, <2>4
      <4>3. x.size \in Nat /\ y.size \in Nat
        BY ONLY <2>6, <2>8, <2>10
      <4>4. f[s] = y.size + f[b]
        BY ONLY <2>7 DEF b
      <4>5. f[s] = x.size + f[a]
        BY ONLY <4>2, <4>3, <4>4
      <4> QED BY ONLY <4>5 DEF a
    <3> QED BY ONLY <3>1, <3>2
  <2> QED BY ONLY <2>3, <2>9, <2>10
<1> QED BY ONLY <1>3 DEF AnyOrder

\* The sum of a set is the same within a larger one.
LEMMA SumWithin ==
  ASSUME NEW S, IsFiniteSet(S), NEW T, S \in SUBSET T, NEW f, f = SumStep(S, f),
         NEW g, g = SumStep(T, g)
  PROVE  f[S] = g[S]
<1> DEFINE Bad == {s \in SUBSET S : f[s] # g[s]}
<1>1. ASSUME NEW s \in SUBSET S
      PROVE  /\ f[s] = IF s = {} THEN 0 ELSE PickOf(s).size + f[s \ {PickOf(s)}]
             /\ g[s] = IF s = {} THEN 0 ELSE PickOf(s).size + g[s \ {PickOf(s)}]
  <2>1. /\ SumStep(S, f)[s] = IF s = {} THEN 0 ELSE PickOf(s).size + f[s \ {PickOf(s)}]
        /\ SumStep(T, g)[s] = IF s = {} THEN 0 ELSE PickOf(s).size + g[s \ {PickOf(s)}]
    BY DEF SumStep
  <2> QED BY ONLY <2>1, f = SumStep(S, f), g = SumStep(T, g)
<1>2. Bad = {}
  <2> SUFFICES ASSUME Bad # {} PROVE FALSE
    OBVIOUS
  <2>1. Bad \in SUBSET (SUBSET S)
    OBVIOUS
  <2>2. PICK s \in Bad : \A t \in SUBSET s : t # s => t \notin Bad
    <3> HIDE DEF Bad
    <3> QED BY ONLY <2>1, IsFiniteSet(S), Bad # {}, SetLeast
  <2>3. s \in SUBSET S /\ f[s] # g[s]
    BY ONLY <2>2
  <2>4. s # {}
    BY ONLY <2>3, <1>1
  <2> DEFINE y == PickOf(s)
             t == s \ {y}
  <2>5. y \in s
    BY ONLY <2>4, PickIn
  <2>6. f[t] = g[t]
    BY ONLY <2>2, <2>3, <2>5
  <2>7. f[s] = y.size + f[t] /\ g[s] = y.size + g[t]
    BY ONLY <2>3, <2>4, <1>1
  <2> QED BY ONLY <2>3, <2>6, <2>7
<1> QED BY ONLY <1>2

\* The sum with one more element.
LEMMA SumAdds ==
  ASSUME NEW S, IsFiniteSet(S), Sized(S), NEW y, y \notin S, y.size \in Nat
  PROVE  SizeSum(S) \in Nat /\ SizeSum(S \cup {y}) = SizeSum(S) + y.size
<1> DEFINE T == S \cup {y}
           f == SumFcn(S)
           g == SumFcn(T)
<1>1. IsFiniteSet(T) /\ Sized(T) /\ S \in SUBSET T /\ y \in T /\ T \ {y} = S
      /\ T \in SUBSET T /\ S \in SUBSET S
  BY FS_AddElement DEF Sized
<1> HIDE DEF T
<1>2. f = SumStep(S, f) /\ g = SumStep(T, g)
  BY ONLY IsFiniteSet(S), <1>1, SumExists
<1>3. SizeSum(S) = f[S] /\ SizeSum(T) = g[T]
  BY ONLY SumIs
<1> HIDE DEF f, g
<1>4. f[S] \in Nat
  <2>1. AnyOrder(S, f)
    BY ONLY IsFiniteSet(S), Sized(S), <1>2, SumAny
  <2> QED BY ONLY <2>1, <1>1 DEF AnyOrder
<1>5. g[T] = y.size + g[T \ {y}]
  <2>1. AnyOrder(T, g)
    BY ONLY <1>1, <1>2, SumAny
  <2> QED BY ONLY <2>1, <1>1 DEF AnyOrder
<1>6. f[S] = g[S]
  BY ONLY IsFiniteSet(S), <1>1, <1>2, SumWithin
<1>7. SizeSum(T) = SizeSum(S) + y.size
  <2> DEFINE a == f[S]
             c == y.size
  <2>1. SizeSum(T) = c + a /\ SizeSum(S) = a
    BY ONLY <1>1, <1>3, <1>5, <1>6
  <2>2. a \in Nat /\ c \in Nat
    BY ONLY <1>4, y.size \in Nat
  <2> HIDE DEF a, c
  <2>3. c + a = a + c
    BY ONLY <2>2
  <2> QED BY ONLY <2>1, <2>3 DEF c
<1> QED BY ONLY <1>3, <1>4, <1>7 DEF T
-----------------------------------------------------------------------------
(* The statistics of the pools *)

\* Blocks and bytes are booked alike in p and q.
Booked(p, q) == BytesOff(q) = BytesOff(p) /\ BlocksOff(q) = BlocksOff(p)

\* The pools that are not in use are as calloc makes them.
Unused(ps) == \A i \in PoolIds \ {0} : ~ps[i].okay => ps[i] = NoPool

\* A tiled pool has finitely many blocks.
LEMMA ActiveFinite ==
  ASSUME NEW p, GoodPool(p)
  PROVE  IsFiniteSet(Active(p)) /\ Active(p) \in SUBSET Block
<1> DEFINE A == Active(p)
           f == [b \in A |-> b.off]
<1>1. p.blocks \in SUBSET Block /\ p.size \in Nat /\ Chain(p.blocks, p.size)
  BY DEF GoodPool, Tiled, Pool
<1>2. A \in SUBSET Block
  BY <1>1 DEF Active
<1>3. \A b \in A : b.off \in 0..p.size
  BY <1>1, <1>2, SizesAssumption DEF Chain, End, Block, Active
<1>4. \A b, c \in A : b.off = c.off => b = c
  BY <1>1, <1>2, SizesAssumption DEF Chain, End, Block, Active
<1>5. f \in Injection(A, 0..p.size)
  BY <1>3, <1>4 DEF Injection, IsInjective
<1>6. IsFiniteSet(0..p.size)
  BY <1>1, FS_Interval
<1> HIDE DEF f, A
<1>7. IsFiniteSet(A)
  BY ONLY <1>5, <1>6, FS_Injection
<1> QED BY <1>2, <1>7 DEF A

\* Pools with the same active blocks and counters.
LEMMA BookedSame ==
  ASSUME NEW p, NEW q, Active(q) = Active(p), q.cur_alloced = p.cur_alloced,
         q.cur_blocks = p.cur_blocks
  PROVE  Booked(p, q)
BY DEF Booked, BytesOff, BlocksOff

\* One more active block, which stats_update has booked.
LEMMA BookedMore ==
  ASSUME NEW p, GoodPool(p), NEW q \in Pool, NEW a \in Block, a \notin Active(p),
         Active(q) = Active(p) \cup {a},
         a.size = 0 => q.cur_alloced = p.cur_alloced /\ q.cur_blocks = p.cur_blocks,
         a.size # 0 => /\ q.cur_alloced = p.cur_alloced + a.size
                       /\ q.cur_blocks = p.cur_blocks + 1
  PROVE  Booked(p, q)
<1> DEFINE A == Active(p)
           B == Active(q)
           F == {b \in A : b.size > 0}
           G == {b \in B : b.size > 0}
<1>1. IsFiniteSet(A) /\ A \in SUBSET Block
  BY ActiveFinite
<1>2. /\ p.cur_alloced \in Int /\ p.cur_blocks \in Int
      /\ q.cur_alloced \in Int /\ q.cur_blocks \in Int /\ a.size \in Nat
  BY DEF GoodPool, Pool, Block
<1>3. Sized(A) /\ a \notin A /\ B = A \cup {a}
  BY <1>1 DEF Sized, Block
<1>4. IsFiniteSet(F) /\ F \in SUBSET Block /\ Cardinality(F) \in Nat
  BY <1>1, FS_Subset, FS_CardinalityType
<1>5. SizeSum(A) \in Nat /\ SizeSum(B) = SizeSum(A) + a.size
  <2> HIDE DEF A, B
  <2>1. SizeSum(A) \in Nat /\ SizeSum(A \cup {a}) = SizeSum(A) + a.size
    BY ONLY <1>1, <1>2, <1>3, SumAdds
  <2> QED BY ONLY <2>1, <1>3
<1>6. Cardinality(G) = IF a.size = 0 THEN Cardinality(F) ELSE Cardinality(F) + 1
  <2>1. CASE a.size = 0
    <3>1. G = F
      BY <2>1, <1>3
    <3> QED BY <3>1, <2>1
  <2>2. CASE a.size # 0
    <3>1. G = F \cup {a} /\ a \notin F
      BY <2>2, <1>2, <1>3
    <3> HIDE DEF F, G
    <3>2. Cardinality(F \cup {a}) = Cardinality(F) + 1
      BY ONLY <1>4, <3>1, FS_AddElement
    <3> QED BY ONLY <3>1, <3>2, <2>2
  <2> QED BY <2>1, <2>2
<1>7. BytesOff(p) = p.cur_alloced - SizeSum(A) /\ BytesOff(q) = q.cur_alloced - SizeSum(B)
  BY DEF BytesOff, SizeSum
<1>8. BlocksOff(p) = p.cur_blocks - Cardinality(F) /\ BlocksOff(q) = q.cur_blocks - Cardinality(G)
  BY DEF BlocksOff
<1> DEFINE s == SizeSum(A)
           t == SizeSum(B)
           m == Cardinality(F)
           n == Cardinality(G)
<1> HIDE DEF A, B, F, G, s, t, m, n
<1>9. s \in Nat /\ t = s + a.size /\ m \in Nat /\ n = IF a.size = 0 THEN m ELSE m + 1
  BY ONLY <1>4, <1>5, <1>6 DEF s, t, m, n
<1>10. q.cur_alloced - t = p.cur_alloced - s
  <2>1. CASE a.size = 0
    BY ONLY <2>1, <1>2, <1>9,
            a.size = 0 => q.cur_alloced = p.cur_alloced /\ q.cur_blocks = p.cur_blocks
  <2>2. CASE a.size # 0
    BY ONLY <2>2, <1>2, <1>9, a.size # 0 => /\ q.cur_alloced = p.cur_alloced + a.size
                                            /\ q.cur_blocks = p.cur_blocks + 1
  <2> QED BY ONLY <2>1, <2>2
<1>11. q.cur_blocks - n = p.cur_blocks - m
  <2>1. CASE a.size = 0
    BY ONLY <2>1, <1>2, <1>9,
            a.size = 0 => q.cur_alloced = p.cur_alloced /\ q.cur_blocks = p.cur_blocks
  <2>2. CASE a.size # 0
    <3> DEFINE x == q.cur_blocks
               y == p.cur_blocks
    <3>1. n = m + 1 /\ x = y + 1 /\ y \in Int /\ m \in Nat
      BY ONLY <2>2, <1>2, <1>9, a.size # 0 => /\ q.cur_alloced = p.cur_alloced + a.size
                                              /\ q.cur_blocks = p.cur_blocks + 1
    <3> HIDE DEF x, y
    <3>2. x - n = y - m
      BY ONLY <3>1
    <3> QED BY ONLY <3>2 DEF x, y
  <2> QED BY ONLY <2>1, <2>2
<1> QED BY ONLY <1>7, <1>8, <1>10, <1>11 DEF Booked, s, t, m, n

\* What stats_update does to the counters.
LEMMA StatsBook ==
  ASSUME NEW r \in Pool, NEW k \in Nat
  PROVE  /\ k = 0 => /\ StatsAdd(r, k).cur_alloced = r.cur_alloced
                     /\ StatsAdd(r, k).cur_blocks = r.cur_blocks
                     /\ StatsSub(r, k).cur_alloced = r.cur_alloced
                     /\ StatsSub(r, k).cur_blocks = r.cur_blocks
         /\ k # 0 => /\ StatsAdd(r, k).cur_alloced = r.cur_alloced + k
                     /\ StatsAdd(r, k).cur_blocks = r.cur_blocks + 1
                     /\ StatsSub(r, k).cur_alloced = r.cur_alloced - k
                     /\ StatsSub(r, k).cur_blocks = r.cur_blocks - 1
BY DEF StatsAdd, StatsSub, Pool

\* mb_get_new and stats_update book what they take.
LEMMA TakeBooks ==
  ASSUME NEW p, GoodPool(p), NEW n \in Nat, NEW b \in FirstFit(p, n)
  PROVE  Booked(p, TakeFrom(p, n, b))
<1> DEFINE q == TakeFrom(p, n, b)
           a == [off |-> b.off, size |-> Granted(b, n), active |-> TRUE]
           C == Carve(p.blocks, b, n)
           r == [p EXCEPT !.blocks = C]
<1>1. /\ GoodPool(q) /\ a \in Block /\ a.off = b.off /\ a.active
      /\ \A c \in Block : c.active => (c \in q.blocks <=> c \in p.blocks \cup {a})
      /\ \A c \in p.blocks : c.active => c.off # b.off
  BY TakeFromGood
<1>2. p.blocks \in SUBSET Block /\ q.blocks \in SUBSET Block /\ q \in Pool /\ p \in Pool
  BY <1>1 DEF GoodPool, Pool
<1>3. Active(q) = Active(p) \cup {a} /\ a \notin Active(p)
  <2> HIDE DEF q, a
  <2> QED BY <1>1, <1>2 DEF Active
<1>4. a.size = Granted(b, n) /\ Granted(b, n) \in Nat
  BY <1>1 DEF Block
<1>5. r \in Pool /\ r.cur_alloced = p.cur_alloced /\ r.cur_blocks = p.cur_blocks
  <2>1. C \in SUBSET Block
    <3>1. b \in p.blocks /\ ~b.active /\ b.size >= n
      BY DEF FirstFit, Fits
    <3>2. p.size \in Nat /\ Chain(p.blocks, p.size) /\ Coalesced(p.blocks)
      BY DEF GoodPool, Tiled, Pool
    <3> QED BY <3>1, <3>2, <1>2, CarveKeepsChain
  <2> HIDE DEF C
  <2> QED BY <1>2, <2>1 DEF Pool
<1>6. q = StatsAdd(r, Granted(b, n))
  BY DEF TakeFrom
<1> HIDE DEF q, r, a
<1>7. /\ a.size = 0 => q.cur_alloced = p.cur_alloced /\ q.cur_blocks = p.cur_blocks
      /\ a.size # 0 => /\ q.cur_alloced = p.cur_alloced + a.size
                       /\ q.cur_blocks = p.cur_blocks + 1
  BY ONLY <1>4, <1>5, <1>6, StatsBook
<1>8. Booked(p, q)
  BY ONLY <1>1, <1>2, <1>3, <1>7, GoodPool(p), BookedMore
<1> QED BY ONLY <1>8 DEF q

\* _gcry_secmem_free_internal books what it gives back.
LEMMA FreeBooks ==
  ASSUME NEW p, GoodPool(p), NEW b \in p.blocks, b.active
  PROVE  Booked(p, FreeBlock(p, b))
<1> DEFINE q == FreeBlock(p, b)
           C == Released(p.blocks, b)
           r == [p EXCEPT !.dirty = p.dirty \ Span(b), !.blocks = C]
<1>1. /\ GoodPool(q)
      /\ \A c \in Block : c.active => (c \in q.blocks <=> c \in p.blocks \ {b})
  BY FreeBlockGood
<1>2. p.blocks \in SUBSET Block /\ q.blocks \in SUBSET Block /\ q \in Pool /\ p \in Pool
      /\ b \in Block
  BY <1>1 DEF GoodPool, Pool
<1>3. Active(p) = Active(q) \cup {b} /\ b \notin Active(q)
  <2> HIDE DEF q
  <2> QED BY <1>1, <1>2 DEF Active
<1>4. b.size \in Nat
  BY <1>2 DEF Block
<1>5. r \in Pool /\ r.cur_alloced = p.cur_alloced /\ r.cur_blocks = p.cur_blocks
  <2>1. C \in SUBSET Block
    <3>1. p.size \in Nat /\ Chain(p.blocks, p.size) /\ Coalesced(p.blocks)
      BY DEF GoodPool, Tiled, Pool
    <3> QED BY <3>1, <1>2, ReleaseKeepsChain
  <2> HIDE DEF C
  <2> QED BY <1>2, <2>1 DEF Pool
<1>6. q = StatsSub(r, b.size)
  BY DEF FreeBlock, Released
<1> HIDE DEF q, r
<1>7. /\ p.cur_alloced \in Int /\ p.cur_blocks \in Int
      /\ q.cur_alloced \in Int /\ q.cur_blocks \in Int
  BY <1>2 DEF Pool
<1>8. /\ b.size = 0 => q.cur_alloced = p.cur_alloced /\ q.cur_blocks = p.cur_blocks
      /\ b.size # 0 => /\ q.cur_alloced = p.cur_alloced - b.size
                       /\ q.cur_blocks = p.cur_blocks - 1
  BY ONLY <1>4, <1>5, <1>6, StatsBook
<1>9. /\ b.size = 0 => p.cur_alloced = q.cur_alloced /\ p.cur_blocks = q.cur_blocks
      /\ b.size # 0 => /\ p.cur_alloced = q.cur_alloced + b.size
                       /\ p.cur_blocks = q.cur_blocks + 1
  BY ONLY <1>4, <1>7, <1>8
<1>10. Booked(q, p)
  BY ONLY <1>1, <1>2, <1>3, <1>9, BookedMore
<1> QED BY ONLY <1>10 DEF Booked, q
\* Everything is booked alike in the pools ps and qs, and the pools not in use
\* stay as they are made.
AllBooked(ps, qs) == \A i \in PoolIds : Booked(ps[i], qs[i])

\* One after the other.
LEMMA BookedTwice ==
  ASSUME NEW ps, NEW qs, NEW rs, AllBooked(ps, qs), AllBooked(qs, rs)
  PROVE  AllBooked(ps, rs)
BY DEF AllBooked, Booked

\* Allocating in pool i.
LEMMA PlaceBooks ==
  ASSUME NEW ps, Good(ps), Unused(ps), NEW i \in PoolIds, NEW n \in Nat,
         NEW o \in Place(ps, i, n)
  PROVE  AllBooked(ps, o.pools) /\ Unused(o.pools)
<1>1. PICK b \in FirstFit(ps[i], n) :
        o = [pools |-> [ps EXCEPT ![i] = TakeFrom(ps[i], n, b)],
             at    |-> [pool |-> i, off |-> b.off]]
  BY DEF Place
<1> DEFINE p == ps[i]
           q == TakeFrom(p, n, b)
<1>2. GoodPool(p)
  BY DEF Good
<1>3. Booked(p, q) /\ q.okay = p.okay
  BY <1>2, TakeBooks, TakeFromGood, ZenonT(60)
<1>4. p.okay
  <2>1. b \in p.blocks
    BY DEF FirstFit, Fits
  <2> QED BY <1>2, <2>1, EmptyPool
<1>5. o.pools = [ps EXCEPT ![i] = q]
  BY <1>1
<1> HIDE DEF q
<1>6. \A j \in PoolIds : o.pools[j] = IF j = i THEN q ELSE ps[j]
  BY <1>5 DEF Good
<1>7. \A j \in PoolIds : Booked(ps[j], ps[j])
  BY DEF Booked
<1> QED BY <1>3, <1>4, <1>6, <1>7 DEF AllBooked, Unused

\* A pool without active blocks whose counters are set to what they were.
LEMMA AddBooks ==
  ASSUME NEW ps, Good(ps), NEW i \in PoolIds, ~ps[i].okay, NEW q, q.okay,
         \A c \in q.blocks : ~c.active, q.cur_alloced = ps[i].cur_alloced,
         q.cur_blocks = ps[i].cur_blocks, Unused(ps), NEW qs, qs = [ps EXCEPT ![i] = q]
  PROVE  AllBooked(ps, qs) /\ Unused(qs)
<1>1. ps[i].blocks = {}
  BY EmptyPool DEF Good
<1>2. Active(ps[i]) = {} /\ Active(q) = {}
  BY <1>1 DEF Active
<1>3. Booked(ps[i], q)
  BY <1>2, BookedSame
<1>4. \A j \in PoolIds : qs[j] = IF j = i THEN q ELSE ps[j]
  BY DEF Good
<1>5. \A j \in PoolIds : Booked(ps[j], ps[j])
  BY DEF Booked
<1> QED BY <1>3, <1>4, <1>5 DEF AllBooked, Unused

\* The search, with a pool it may add.
LEMMA SearchBooks ==
  ASSUME NEW ps, Good(ps), Unused(ps), NEW n \in Nat, NEW xhint \in BOOLEAN,
         NEW o \in Search(ps, n, xhint), auto_expand \in Nat, ExpandSane
  PROVE  AllBooked(ps, o.pools) /\ Unused(o.pools)
<1>0. 0 \in PoolIds
  BY InputsAssumption DEF PoolIds
<1>1. CASE o = Fail(ps)
  BY <1>1 DEF Fail, AllBooked, Booked
<1>2. CASE o \in Place(ps, 0, n)
  BY <1>0, <1>2, PlaceBooks
<1>3. ASSUME o \in Expand(ps, n), o # Fail(ps)
      PROVE  AllBooked(ps, o.pools) /\ Unused(o.pools)
  <2> DEFINE room == {i \in Overflow(ps) : Fits(ps[i], n) # {}}
             chunk == IF auto_expand # 0 THEN auto_expand ELSE StandardPoolSize
             added(i) == [ps EXCEPT ![i] = Format(NoPool, chunk)]
  <2>1. CASE room # {}
    <3>1. PICK i \in room : o \in Place(ps, i, n)
      BY <1>3, <2>1 DEF Expand, Newest
    <3> QED BY <3>1, PlaceBooks DEF Overflow
  <2>2. CASE room = {}
    <3>1. PICK i \in Vacant(ps) :
            o \in IF Fits(added(i)[i], n) # {}
                  THEN Place(added(i), i, n) ELSE {Fail(added(i))}
      BY <1>3, <2>2 DEF Expand
    <3>2. i \in PoolIds /\ i # 0 /\ ~ps[i].okay
      BY <3>1 DEF Vacant
    <3>3. chunk \in Nat /\ chunk > HeadSize
      BY SizesAssumption DEF ExpandSane
    <3> HIDE DEF chunk
    <3>4. NoPool \in Pool
      BY DEF NoPool, Pool
    <3> DEFINE f == Format(NoPool, chunk)
               qs == [ps EXCEPT ![i] = f]
    <3>5. GoodPool(f) /\ f.dirty = {} /\ \A c \in f.blocks : ~c.active
      BY <3>3, <3>4, FormatGood
    <3>6. f.okay /\ f.cur_alloced = NoPool.cur_alloced /\ f.cur_blocks = NoPool.cur_blocks
      BY <3>4 DEF Format, Pool
    <3>7. ps[i] = NoPool
      BY <3>2 DEF Unused
    <3> HIDE DEF f
    <3>8. Good(qs)
      BY <3>2, <3>5, AddPool
    <3>9. AllBooked(ps, qs) /\ Unused(qs)
      <4> HIDE DEF qs
      <4> QED BY <3>2, <3>5, <3>6, <3>7, AddBooks DEF qs
    <3>10. added(i) = qs
      BY DEF f
    <3> HIDE DEF qs
    <3>11. CASE o \in Place(qs, i, n)
      <4>1. AllBooked(qs, o.pools) /\ Unused(o.pools)
        BY <3>11, <3>8, <3>9, <3>2, PlaceBooks
      <4> QED BY <4>1, <3>9, BookedTwice
    <3>12. CASE o = Fail(qs)
      BY <3>12, <3>9 DEF Fail
    <3> QED BY <3>1, <3>10, <3>11, <3>12
  <2> QED BY <2>1, <2>2
<1>4. \/ o = Fail(ps) \/ o \in Place(ps, 0, n) \/ o \in Expand(ps, n)
  BY DEF Search
<1> QED BY <1>1, <1>2, <1>3, <1>4

\* _gcry_secmem_init_internal: the counters of the main pool stay.
LEMMA InitBooks ==
  ASSUME Good(pools), Unused(pools), NEW n \in Nat, NEW e \in InitInternal(n)
  PROVE  AllBooked(pools, e.pools) /\ Unused(e.pools)
<1>0. 0 \in PoolIds
  BY InputsAssumption DEF PoolIds
<1>1. CASE e = Now
  BY <1>1 DEF Now, AllBooked, Booked
<1>2. CASE e = [Now EXCEPT !.halted = TRUE]
  BY <1>2 DEF Now, AllBooked, Booked
<1>3. CASE ~pools[0].okay /\ e # [Now EXCEPT !.halted = TRUE]
  <2> DEFINE k == IF n < MinimumPoolSize THEN MinimumPoolSize ELSE n
             N == PageRound(k)
  <2>1. PICK mm \in BOOLEAN, lk \in BOOLEAN :
          e = [pools |-> [pools EXCEPT ![0] = InitPool(pools[0], k, mm)],
               show_warning |-> show_warning \/ ~lk,
               not_locked   |-> not_locked \/ ~lk,
               setuid_root  |-> setuid_root /\ no_priv_drop,
               halted       |-> FALSE]
    BY <1>3 DEF InitInternal
  <2> DEFINE q == InitPool(pools[0], k, mm)
  <2>2. N \in Nat /\ N > HeadSize
    <3>1. k \in Nat /\ k > HeadSize
      BY SizesAssumption
    <3> QED BY <3>1, PageRoundNotBelow, SizesAssumption
  <2>3. pools[0] \in Pool /\ (mm \/ pools[0].is_mmapped) \in BOOLEAN
    BY <1>0 DEF Good, Pool
  <2>4. q = [Format(pools[0], N) EXCEPT !.is_mmapped = mm \/ pools[0].is_mmapped]
    BY DEF InitPool
  <2> HIDE DEF N, q
  <2>5. \A c \in q.blocks : ~c.active
    BY <2>2, <2>3, <2>4, FormatGood
  <2>6. q.okay /\ q.cur_alloced = pools[0].cur_alloced /\ q.cur_blocks = pools[0].cur_blocks
    BY <2>3, <2>4 DEF Format, Pool
  <2>7. e.pools = [pools EXCEPT ![0] = q]
    BY <2>1 DEF q
  <2> QED BY <1>0, <1>3, <2>5, <2>6, <2>7, AddBooks
<1>4. e = Now \/ ~pools[0].okay
  BY DEF InitInternal
<1> QED BY <1>1, <1>2, <1>3, <1>4

\* _gcry_secmem_malloc_internal
LEMMA MallocBooks ==
  ASSUME NoWrap, Inv, Unused(pools), NEW n \in Requests, NEW xhint \in BOOLEAN,
         NEW o \in MallocInternal(n, xhint)
  PROVE  AllBooked(pools, o.pools) /\ Unused(o.pools)
<1>0. StandardPoolSize \in Nat /\ Good(pools) /\ auto_expand \in Nat /\ ExpandSane /\ Booleans
  BY SizesAssumption DEF Inv, TypeOK, Booleans
<1>1. PICK e \in InitInternal(StandardPoolSize) :
        \/ o = Outcome(e, Fail(e.pools))
        \/ \E s \in Search(e.pools, RoundUp(n), xhint) :
             o = [Outcome(e, s) EXCEPT !.show_warning =
                    Outcome(e, s).show_warning /\ suspend_warning]
  BY DEF MallocInternal
<1>2. Good(e.pools) /\ AllBooked(pools, e.pools) /\ Unused(e.pools)
  BY <1>0, InitOutcome, InitBooks
<1>3. CASE o = Outcome(e, Fail(e.pools))
  <2>1. o.pools = e.pools
    BY <1>3 DEF Outcome, Fail
  <2> QED BY <2>1, <1>2
<1>4. ASSUME NEW s \in Search(e.pools, RoundUp(n), xhint),
             o = [Outcome(e, s) EXCEPT !.show_warning =
                    Outcome(e, s).show_warning /\ suspend_warning]
      PROVE  AllBooked(pools, o.pools) /\ Unused(o.pools)
  <2>1. o.pools = s.pools
    BY <1>4 DEF Outcome
  <2>2. RoundUp(n) \in Nat
    BY RoundUpNotBelow
  <2>3. AllBooked(e.pools, s.pools) /\ Unused(s.pools)
    BY <1>0, <1>2, <1>4, <2>2, SearchBooks
  <2> QED BY <1>2, <2>1, <2>3, BookedTwice
<1> QED BY <1>1, <1>3, <1>4

\* Freeing an active block of pool i.
LEMMA FreedBooks ==
  ASSUME NEW ps, Good(ps), Unused(ps), NEW i \in PoolIds, NEW b \in ps[i].blocks, b.active,
         NEW qs, qs = Freed(ps, i, b)
  PROVE  AllBooked(ps, qs) /\ Unused(qs)
<1> DEFINE p == ps[i]
           q == FreeBlock(p, b)
<1>1. GoodPool(p)
  BY DEF Good
<1>2. Booked(p, q) /\ q.okay = p.okay
  BY <1>1, FreeBooks, FreeBlockGood
<1>3. p.okay
  BY <1>1, EmptyPool
<1> HIDE DEF q
<1>4. \A j \in PoolIds : qs[j] = IF j = i THEN q ELSE ps[j]
  BY DEF Good, Freed, q
<1>5. \A j \in PoolIds : Booked(ps[j], ps[j])
  BY DEF Booked
<1> QED BY <1>2, <1>3, <1>4, <1>5 DEF AllBooked, Unused

\* Writing into a pool that has blocks.
LEMMA DirtiedBooks ==
  ASSUME NEW ps, Good(ps), Unused(ps), NEW i \in PoolIds, NEW D \in SUBSET Nat,
         ps[i].blocks # {}, NEW qs, qs = Dirtied(ps, i, D)
  PROVE  AllBooked(ps, qs) /\ Unused(qs)
<1> DEFINE p == ps[i]
           q == [p EXCEPT !.dirty = p.dirty \cup D]
<1>1. p \in Pool /\ GoodPool(p)
  BY DEF Good
<1>2. /\ q.blocks = p.blocks /\ q.okay = p.okay /\ q.cur_alloced = p.cur_alloced
      /\ q.cur_blocks = p.cur_blocks
  BY <1>1 DEF Pool
<1>3. p.okay
  BY <1>1, EmptyPool
<1>4. \A j \in PoolIds : qs[j] = IF j = i THEN q ELSE ps[j]
  BY DEF Good, Dirtied
<1> HIDE DEF q
<1>5. Booked(p, q)
  BY <1>2, BookedSame DEF Active
<1>6. \A j \in PoolIds : Booked(ps[j], ps[j])
  BY DEF Booked
<1> QED BY <1>2, <1>3, <1>4, <1>5, <1>6 DEF AllBooked, Unused
\* Realloc: what malloc books for the new block and free for the old one.
LEMMA ReallocBooks ==
  ASSUME NoWrap, Inv, Unused(pools), NEW l \in live, NEW n \in Requests,
         NEW xhint \in BOOLEAN, Realloc(l, n, xhint)
  PROVE  AllBooked(pools, pools') /\ Unused(pools')
<1>1. PICK b \in pools[l.pool].blocks :
        /\ b.off = l.off
        /\ \/ /\ n < b.size
              /\ live' = (live \ {l}) \cup {[l EXCEPT !.n = n]}
              /\ UNCHANGED <<pools, show_warning, not_locked, setuid_root, halted>>
           \/ /\ n >= b.size
              /\ \E o \in MallocInternal(n, xhint) :
                   /\ Commit(o)
                   /\ IF o.at = Null THEN pools' = o.pools /\ live' = live
                      ELSE LET to == o.at
                               copied == [o.pools EXCEPT ![to.pool].dirty =
                                 o.pools[to.pool].dirty
                                   \cup Copied(o.pools[l.pool], b, to.off)]
                           IN  /\ pools' = [copied EXCEPT ![l.pool] =
                                              FreeBlock(copied[l.pool], b)]
                               /\ live' = (live \ {l}) \cup
                                    {[pool |-> to.pool, off |-> to.off, n |-> n]}
  BY DEF Realloc
<1>2. /\ live \in SUBSET Pointer /\ l.pool \in PoolIds /\ Good(pools) /\ Held(pools, live)
      /\ pools[0].okay
  BY LiveMeansMain DEF Inv, TypeOK, Pointer
<1>3. b \in Block /\ b.active
  BY <1>1, <1>2, OneBlockAt DEF Held, Good, GoodPool, Pool
<1>4. CASE pools' = pools
  BY <1>4 DEF AllBooked, Booked, Unused
<1>5. ASSUME n >= b.size, NEW o \in MallocInternal(n, xhint),
             IF o.at = Null THEN pools' = o.pools /\ live' = live
             ELSE LET to == o.at
                      copied == [o.pools EXCEPT ![to.pool].dirty =
                        o.pools[to.pool].dirty
                          \cup Copied(o.pools[l.pool], b, to.off)]
                  IN  /\ pools' = [copied EXCEPT ![l.pool] =
                                     FreeBlock(copied[l.pool], b)]
                      /\ live' = (live \ {l}) \cup
                           {[pool |-> to.pool, off |-> to.off, n |-> n]}
      PROVE  AllBooked(pools, pools') /\ Unused(pools')
  <2>1. /\ Good(o.pools)
        /\ \/ o.at = Null
           \/ o.at # Null /\ Grants(pools, o.pools, o.at, n)
    BY <1>2, MallocOutcome DEF Inv, TypeOK, Booleans, FipsConfined
  <2>2. AllBooked(pools, o.pools) /\ Unused(o.pools)
    BY MallocBooks
  <2>3. CASE o.at = Null
    <3>1. pools' = o.pools
      BY <2>3, <1>5
    <3> QED BY <3>1, <2>2
  <2>4. CASE o.at # Null
    <3> DEFINE D == Copied(o.pools[l.pool], b, o.at.off)
               cs == Dirtied(o.pools, o.at.pool, D)
               fs == Freed(cs, l.pool, b)
               k == [pool |-> o.at.pool, off |-> o.at.off, n |-> n]
               L == live \cup {k}
    <3>1. pools' = fs
      BY <2>4, <1>5 DEF Dirtied, Freed
    <3>2. Grants(pools, o.pools, o.at, n) /\ o.at.pool \in PoolIds
      BY <2>4, <2>1 DEF Grants
    <3>3. b \in o.pools[l.pool].blocks
      BY <3>2, <1>2, <1>3 DEF Grants
    <3>4. PICK a \in Block :
            /\ a.active /\ a.off = o.at.off /\ n <= a.size /\ a \in o.pools[o.at.pool].blocks
      BY <3>2 DEF Grants
    <3>5. n \in Nat /\ HeadSize \in Nat
      BY InputsAssumption, SizesAssumption
    <3>6. D \in SUBSET Nat /\ D \subseteq Span(a)
      <4>1. ASSUME NEW x \in Span(b)
            PROVE  o.at.off + (x - b.off) \in Span(a) \cap Nat
        BY <4>1, <3>4, <3>5, <1>3, <1>5 DEF Span, End, Block
      <4> QED BY <4>1 DEF Copied
    <3>7. Held(o.pools, L) /\ L \in SUBSET Pointer
      <4>1. L = live \cup {k} /\ k = [pool |-> o.at.pool, off |-> o.at.off, n |-> n]
        OBVIOUS
      <4> HIDE DEF k, L
      <4> QED BY <4>1, <1>2, <2>1, <3>2, HeldGrant
    <3>8. \A m \in L : m.pool \in PoolIds
      BY <3>7 DEF Pointer
    <3> HIDE DEF D, L, k
    <3>9. Good(cs) /\ \A j \in PoolIds : cs[j].blocks = o.pools[j].blocks
      <4>1. cs = Dirtied(o.pools, o.at.pool, D)
        OBVIOUS
      <4> HIDE DEF cs
      <4> QED BY <4>1, <2>1, <3>2, <3>4, <3>6, <3>7, <3>8, WriteGood
    <3>10. AllBooked(o.pools, cs) /\ Unused(cs)
      <4>1. o.pools[o.at.pool].blocks # {}
        BY <3>4
      <4> QED BY <4>1, <2>1, <2>2, <3>2, <3>6, DirtiedBooks
    <3> HIDE DEF cs
    <3>11. AllBooked(cs, fs) /\ Unused(fs)
      <4>1. b \in cs[l.pool].blocks
        BY <3>3, <3>9, <1>2
      <4> QED BY <4>1, <1>2, <1>3, <3>9, <3>10, FreedBooks
    <3> HIDE DEF fs
    <3>12. AllBooked(pools, cs)
      BY <2>2, <3>10, BookedTwice
    <3>13. AllBooked(pools, fs)
      BY <3>11, <3>12, BookedTwice
    <3> QED BY <3>1, <3>11, <3>13
  <2> QED BY <2>3, <2>4
<1> QED BY <1>1, <1>4, <1>5

\* Every step but Term books what it takes and gives back.
LEMMA StepBooks ==
  ASSUME NoWrap, Inv, Unused(pools), [Next]_vars
  PROVE  Unused(pools') /\ (terms' = terms => AllBooked(pools, pools'))
<1>0. /\ live \in SUBSET Pointer /\ Good(pools) /\ Held(pools, live)
      /\ \A m \in live : m.pool \in PoolIds
  BY DEF Inv, TypeOK, Pointer
<1>1. CASE pools' = pools
  BY <1>1 DEF AllBooked, Booked
<1>2. ASSUME NEW n \in InitSizes, InitSecmem(n)
      PROVE  Unused(pools') /\ AllBooked(pools, pools')
  <2>1. CASE n = 0
    BY <1>1, <1>2, <2>1 DEF InitSecmem, AllBooked, Booked
  <2>2. CASE n # 0
    <3>1. PICK e \in InitInternal(n) : pools' = e.pools
      BY <1>2, <2>2 DEF InitSecmem
    <3>2. n \in Nat
      BY InputsAssumption
    <3> QED BY <1>0, <3>1, <3>2, InitBooks
  <2> QED BY <2>1, <2>2
<1>3. ASSUME NEW n \in Requests, NEW xhint \in BOOLEAN, Malloc(n, xhint)
      PROVE  Unused(pools') /\ AllBooked(pools, pools')
  <2>1. PICK o \in MallocInternal(n, xhint) : pools' = o.pools
    BY <1>3 DEF Malloc
  <2> QED BY <2>1, MallocBooks
<1>4. ASSUME NEW l \in live, Free(l)
      PROVE  Unused(pools') /\ AllBooked(pools, pools')
  <2>1. PICK b \in pools[l.pool].blocks : b.off = l.off /\ pools' = Freed(pools, l.pool, b)
    BY <1>4 DEF Free, Freed
  <2>2. b.active
    BY <1>0, <2>1, OneBlockAt DEF Held
  <2> QED BY <1>0, <2>1, <2>2, FreedBooks
<1>5. ASSUME NEW l \in live, NEW n \in Requests, NEW xhint \in BOOLEAN,
             Realloc(l, n, xhint)
      PROVE  Unused(pools') /\ AllBooked(pools, pools')
  BY <1>5, ReallocBooks
<1>6. ASSUME NEW l \in live, Write(l)
      PROVE  Unused(pools') /\ AllBooked(pools, pools')
  <2> DEFINE D == (l.off + HeadSize)..(l.off + HeadSize + l.n - 1)
  <2>1. pools' = Dirtied(pools, l.pool, D)
    BY <1>6 DEF Write, Dirtied
  <2>2. D \in SUBSET Nat
    BY <1>0, <1>6, InputsAssumption, SizesAssumption DEF Pointer
  <2>3. pools[l.pool].blocks # {}
    BY <1>0, <1>6 DEF Held
  <2> HIDE DEF D
  <2> QED BY <1>0, <2>1, <2>2, <2>3, DirtiedBooks
<1>7. ASSUME Term
      PROVE  Unused(pools') /\ terms' # terms
  <2>1. \A i \in PoolIds \ {0} : pools'[i] = NoPool
    BY <1>7 DEF Term
  <2>2. terms \in Nat /\ terms' = terms + 1
    BY <1>7, InputsAssumption DEF Term, Inv, TypeOK
  <2> QED BY <2>1, <2>2 DEF Unused
<1>8. ASSUME NEW f \in FlagSets, SetFlags(f) PROVE pools' = pools
  BY <1>8 DEF SetFlags
<1>9. ASSUME NEW n \in ChunkSizes, SetAutoExpand(n) PROVE pools' = pools
  BY <1>9 DEF SetAutoExpand
<1>10. CASE UNCHANGED vars
  BY <1>1, <1>10 DEF vars
<1> QED
  BY <1>1, <1>2, <1>3, <1>4, <1>5, <1>6, <1>7, <1>8, <1>9, <1>10 DEF Next

\* Whatever sequence of calls, and for every geometry of the pools: the counters
\* that stats_update keeps do not drift from the active blocks, the slack of
\* blocks that were not split and overflow pools included, if no request wraps
\* size_t.
THEOREM SecMemStats ==
  ASSUME NoWrap
  PROVE  Spec => StatsExact
<1> DEFINE Kept == terms' = terms => \A i \in PoolIds :
                     /\ BytesOff(pools'[i]) = BytesOff(pools[i])
                     /\ BlocksOff(pools'[i]) = BlocksOff(pools[i])
           SInv == Inv /\ Unused(pools)
<1>1. Init => SInv
  <2>1. Init => Unused(pools)
    BY DEF Init, Unused
  <2> QED BY <2>1, InitInv
<1>2. SInv /\ [Next]_vars => SInv'
  <2>1. Unused(pools)' <=> Unused(pools')
    BY DEF Unused
  <2> QED BY <2>1, StepInv, StepBooks
<1>3. SInv /\ [Next]_vars => [Kept]_vars
  BY StepBooks DEF AllBooked, Booked
<1> HIDE DEF Kept, SInv
<1>4. Spec => [][Kept]_vars
  BY <1>1, <1>2, <1>3, PTL DEF Spec
<1> QED BY <1>4 DEF StatsExact, Kept

-----------------------------------------------------------------------------
(* The list of pools, read without a lock *)

Parts   == {"base", "size", "okay"}
Holding == {"init", "search", "fill", "linked"}

(* SECMEM_LOCK is held exactly by the thread inside malloc. *)
LockHeld == \A t \in Threads : pc[t] \in Holding <=> lock = t

MainUp == desc[0].okay /\ desc[0].base /\ desc[0].size

(* The stores into descriptor i that are not pending are done. *)
Stored(i) ==
    /\ "base" \notin todo => desc[i].base
    /\ "size" \notin todo => desc[i].size
    /\ "okay" \notin todo => desc[i].okay

(* The stores of init_pool that are not pending are done, and nobody uses  *)
(* the main pool before all of them are.                                   *)
MainFilled ==
    /\ \A t \in Threads : pc[t] = "init" =>
          todo \subseteq Parts /\ Stored(0)
    /\ lock = Nobody /\ desc[0].okay => MainUp
    /\ \A t \in Threads : pc[t] \in {"search", "fill", "linked"} => MainUp
    /\ granted # {} => MainUp

(* Linked pools are complete, newest first. *)
ListChain ==
    /\ desc[0].next = made
    /\ \A k \in 1..made :
          /\ desc[k].okay /\ desc[k].base /\ desc[k].size
          /\ desc[k].next = k - 1

(* The descriptor that is being filled is the next one. *)
Filling ==
    \A t \in Threads : pc[t] = "fill" =>
        /\ made < MaxPools
        /\ Stored(made + 1)
        /\ "next" \notin todo => desc[made + 1].next = made

(* A walk has not gone past the pool it is looking for. *)
OnTheWay ==
    \A t \in Threads : pc[t] \in {"check", "advance"} =>
        /\ arg[t] \in granted \cup {Libc}
        /\ cur[t] \in 0..made
        /\ arg[t] # Libc =>
              /\ cur[t] # 0 => 1 <= arg[t] /\ arg[t] <= cur[t]
              /\ pc[t] = "advance" => arg[t] # cur[t]

ListInv ==
    /\ ListTypeOK
    /\ LockHeld /\ MainFilled /\ ListChain /\ Filling
    /\ granted \subseteq 0..made
    /\ OnTheWay /\ AnswerRight

----------------------------------------------------------------------------
(* Types and the counting of pools, in the form the steps below use. *)
LEMMA TypeFacts ==
    ASSUME ListTypeOK
    PROVE  /\ MaxPools \in Nat /\ made \in Nat /\ made <= MaxPools
           /\ \A k \in 0..MaxPools : desc[k].next \in 0..MaxPools
           /\ 0 \in Ids /\ (made < MaxPools => made + 1 \in Ids)
BY PoolListAssumption DEF ListTypeOK, Ids

(* A step of a walk leaves the pools alone. *)
LEMMA WalkKeeps ==
    ASSUME ListInv, NEW t \in Threads, NEW to,
           pc[t] \notin Holding, to \notin Holding,
           pc' = [pc EXCEPT ![t] = to],
           UNCHANGED <<desc, lock, todo, made, granted>>
    PROVE  (LockHeld /\ MainFilled /\ ListChain /\ Filling)'
<1>1. \A u \in Threads : pc'[u] \in Holding <=> pc[u] \in Holding
      BY DEF ListInv, ListTypeOK
<1>2. \A u \in Threads : pc'[u] \in Holding => pc'[u] = pc[u]
      BY DEF ListInv, ListTypeOK
<1>3. LockHeld'
      BY <1>1 DEF ListInv, LockHeld
<1>4. MainFilled'
      BY <1>2 DEF ListInv, MainFilled, MainUp, Stored, Holding
<1>5. (ListChain /\ Filling)'
      BY <1>2 DEF ListInv, ListChain, Filling, Stored, Holding
<1> QED BY <1>3, <1>4, <1>5

\* A step of a walk keeps the invariant.
LEMMA WalkInv ==
    ASSUME ListInv, NEW t \in Threads,
           Walk(t) \/ Dispatch(t) \/ \E home \in Homes : StartWalk(t, home)
    PROVE  ListInv'
<1> USE PoolListAssumption, TypeFacts DEF ListInv
<1>1. ASSUME NEW home \in Homes, StartWalk(t, home)
      PROVE  ListInv'
  <2>1. /\ pc[t] = "idle" /\ pc' = [pc EXCEPT ![t] = "check"]
        /\ arg' = [arg EXCEPT ![t] = home] /\ cur' = [cur EXCEPT ![t] = 0]
        /\ home \in granted \cup {Libc}
        /\ UNCHANGED <<desc, lock, todo, made, granted, answer>>
        BY <1>1 DEF StartWalk, Goto
  <2>2. (LockHeld /\ MainFilled /\ ListChain /\ Filling)'
        BY <2>1, WalkKeeps DEF Holding
  <2>3. ListTypeOK'
        BY <2>1 DEF ListTypeOK
  <2>4. (OnTheWay /\ AnswerRight)'
        BY <2>1 DEF OnTheWay, AnswerRight, ListTypeOK
  <2> QED BY <2>1, <2>2, <2>3, <2>4
<1>2. CASE Check(t)
  <2>1. UNCHANGED <<desc, lock, todo, made, granted, arg, cur>>
        BY <1>2 DEF Check
  <2>2. /\ pc[t] = "check"
        /\ \/ /\ Covers(cur[t], arg[t]) /\ pc' = [pc EXCEPT ![t] = "done"]
              /\ answer' = [answer EXCEPT ![t] = TRUE]
           \/ /\ ~Covers(cur[t], arg[t]) /\ pc' = [pc EXCEPT ![t] = "advance"]
              /\ answer' = answer
        BY <1>2 DEF Check, Goto
  <2>3. (LockHeld /\ MainFilled /\ ListChain /\ Filling)'
        BY <2>1, <2>2, WalkKeeps DEF Holding
  <2>4. ListTypeOK'
        BY <2>1, <2>2 DEF ListTypeOK
  <2>5. cur[t] \in 0..made /\ arg[t] \in granted \cup {Libc}
        BY <2>2 DEF OnTheWay
  <2>6. (arg[t] # Libc /\ arg[t] = cur[t]) => Covers(cur[t], arg[t])
    <3> HAVE arg[t] # Libc /\ arg[t] = cur[t]
    <3>1. CASE cur[t] = 0
          BY <2>5, <3>1 DEF MainFilled, MainUp, Covers
    <3>2. CASE cur[t] \in 1..made
          BY <3>2 DEF ListChain, Covers
    <3> QED BY <2>5, <3>1, <3>2
  <2>7. Covers(cur[t], arg[t]) => arg[t] # Libc
        BY <2>5 DEF Covers, Libc
  <2>8. OnTheWay'
        BY <2>1, <2>2, <2>6 DEF OnTheWay, ListTypeOK
  <2>9. AnswerRight'
        BY <2>1, <2>2, <2>7 DEF AnswerRight, ListTypeOK
  <2> QED BY <2>1, <2>3, <2>4, <2>8, <2>9
<1>3. CASE Advance(t)
  <2> DEFINE next == desc[cur[t]].next
  <2>1. UNCHANGED <<desc, lock, todo, made, granted, arg>>
        BY <1>3 DEF Advance
  <2>2. /\ pc[t] = "advance"
        /\ \/ /\ next = 0 /\ pc' = [pc EXCEPT ![t] = "done"]
              /\ answer' = [answer EXCEPT ![t] = FALSE] /\ cur' = cur
           \/ /\ next # 0 /\ pc' = [pc EXCEPT ![t] = "check"]
              /\ answer' = answer /\ cur' = [cur EXCEPT ![t] = next]
        BY <1>3 DEF Advance, Goto, NULL
  <2>3. (LockHeld /\ MainFilled /\ ListChain /\ Filling)'
        BY <2>1, <2>2, WalkKeeps DEF Holding
  <2>4. /\ cur[t] \in 0..made /\ arg[t] \in granted \cup {Libc}
        /\ arg[t] # Libc => arg[t] \in 0..made
        BY <2>2 DEF OnTheWay
  <2>5. next = IF cur[t] = 0 THEN made ELSE cur[t] - 1
        BY <2>4 DEF ListChain
  <2>6. next \in 0..made /\ next \in Ids
        BY <2>4, <2>5 DEF Ids
  <2>7. arg[t] # Libc => 1 <= arg[t] /\ arg[t] <= next
    <3> HAVE arg[t] # Libc
    <3>1. /\ arg[t] \in Nat /\ arg[t] <= made /\ arg[t] # cur[t]
          /\ cur[t] # 0 => 1 <= arg[t] /\ arg[t] <= cur[t]
          BY <2>2, <2>4 DEF OnTheWay
    <3> QED BY <2>4, <2>5, <3>1
  <2> HIDE DEF next
  <2>8. ListTypeOK'
        BY <2>1, <2>2, <2>6 DEF ListTypeOK
  <2>9. OnTheWay'
        BY <2>1, <2>2, <2>4, <2>6, <2>7 DEF OnTheWay, ListTypeOK
  <2>10. next = 0 => arg[t] = Libc
        BY <2>4, <2>7
  <2>11. AnswerRight'
        BY <2>1, <2>2, <2>10 DEF AnswerRight, ListTypeOK
  <2> QED BY <2>1, <2>3, <2>8, <2>9, <2>11
<1>4. CASE Dispatch(t)
  <2>1. /\ pc[t] = "done" /\ pc' = [pc EXCEPT ![t] = "idle"]
        /\ UNCHANGED <<desc, lock, todo, made, granted, arg, cur, answer>>
        BY <1>4 DEF Dispatch, Goto
  <2>2. (LockHeld /\ MainFilled /\ ListChain /\ Filling)'
        BY <2>1, WalkKeeps DEF Holding
  <2>3. ListTypeOK' /\ OnTheWay' /\ AnswerRight'
        BY <2>1 DEF ListTypeOK, OnTheWay, AnswerRight
  <2> QED BY <2>1, <2>2, <2>3
<1> QED BY <1>1, <1>2, <1>3, <1>4 DEF Walk

----------------------------------------------------------------------------
(* A step of malloc leaves the walks alone: pools and pointers into them   *)
(* are only ever added.                                                    *)
LEMMA MallocKeeps ==
    ASSUME ListInv, NEW t \in Threads, NEW to \in Holding \cup {"idle"},
           pc[t] \in Holding \cup {"idle"}, pc' = [pc EXCEPT ![t] = to],
           granted \subseteq granted', made' \in Nat, made <= made',
           UNCHANGED <<arg, cur, answer>>
    PROVE  (OnTheWay /\ AnswerRight)'
<1>1. \A u \in Threads : pc'[u] \in {"check", "advance", "done"}
                           => pc'[u] = pc[u]
      BY DEF ListInv, ListTypeOK, Holding
<1>2. 0..made \subseteq 0..made'
      BY TypeFacts DEF ListInv
<1>3. OnTheWay'
      BY <1>1, <1>2 DEF ListInv, OnTheWay
<1>4. AnswerRight'
      BY <1>1 DEF ListInv, AnswerRight
<1> QED BY <1>3, <1>4

(* Only the lock holder is inside malloc. *)
LEMMA OneHolder ==
    ASSUME ListInv, NEW t \in Threads, pc[t] \in Holding
    PROVE  /\ lock = t
           /\ \A u \in Threads \ {t} : pc[u] \notin Holding
BY DEF ListInv, LockHeld

\* Entering malloc keeps the invariant.
LEMMA EnterInv ==
    ASSUME ListInv, NEW t \in Threads, Enter(t)
    PROVE  ListInv'
<1> USE PoolListAssumption DEF ListInv
<1>1. /\ lock = Nobody /\ lock' = t /\ pc[t] = "idle"
      /\ \/ desc[0].okay /\ todo' = todo /\ pc' = [pc EXCEPT ![t] = "search"]
         \/ /\ ~desc[0].okay /\ todo' = Parts
            /\ pc' = [pc EXCEPT ![t] = "init"]
      /\ UNCHANGED <<desc, made, granted, arg, cur, answer>>
      BY DEF Enter, Goto, Parts
<1>2. \A u \in Threads : pc[u] \notin Holding /\ u # Nobody
      BY <1>1 DEF LockHeld
<1>3. ListTypeOK'
      BY <1>1 DEF ListTypeOK, Parts, Fields
<1>4. LockHeld'
      BY <1>1, <1>2 DEF LockHeld, Holding, ListTypeOK
<1>5. MainFilled'
      BY <1>1, <1>2 DEF MainFilled, MainUp, Stored, Parts, Holding, ListTypeOK
<1>6. (ListChain /\ Filling)'
      BY <1>1, <1>2 DEF ListChain, Filling, Stored, Holding, ListTypeOK
<1>7. (OnTheWay /\ AnswerRight)'
      BY <1>1, MallocKeeps, TypeFacts DEF Holding
<1> QED BY <1>1, <1>3, <1>4, <1>5, <1>6, <1>7

\* A store to the main pool becoming visible keeps the invariant.
LEMMA StoreMainInv ==
    ASSUME ListInv, NEW t \in Threads, StoreMain(t)
    PROVE  ListInv'
<1> USE PoolListAssumption DEF ListInv
<1>1. PICK f \in todo :
        /\ desc' = [desc EXCEPT ![0] = [@ EXCEPT ![f] = TRUE]]
        /\ todo' = todo \ {f}
      BY DEF StoreMain
<1>2. /\ pc[t] = "init"
      /\ UNCHANGED <<lock, pc, made, granted, arg, cur, answer>>
      BY DEF StoreMain
<1>3. f \in Parts /\ todo \subseteq Parts
      BY <1>2 DEF MainFilled
<1>4. lock = t /\ \A u \in Threads \ {t} : pc[u] \notin Holding
      BY <1>2, OneHolder DEF Holding
<1>5. /\ \A k \in Ids \ {0} : desc'[k] = desc[k]
      /\ desc'[0].next = desc[0].next
      /\ desc'[0] \in
           [base : BOOLEAN, size : BOOLEAN, okay : BOOLEAN, next : Ids]
      /\ desc'[0].base = (f = "base" \/ desc[0].base)
      /\ desc'[0].size = (f = "size" \/ desc[0].size)
      /\ desc'[0].okay = (f = "okay" \/ desc[0].okay)
  <2>1. /\ desc'[0] = [desc[0] EXCEPT ![f] = TRUE]
        /\ \A k \in Ids \ {0} : desc'[k] = desc[k]
        BY <1>1, TypeFacts DEF ListTypeOK
  <2>2. desc[0] \in [base : BOOLEAN, size : BOOLEAN, okay : BOOLEAN, next : Ids]
        BY TypeFacts DEF ListTypeOK
  <2>3. CASE f = "base"
        BY <2>1, <2>2, <2>3
  <2>4. CASE f = "size"
        BY <2>1, <2>2, <2>4
  <2>5. CASE f = "okay"
        BY <2>1, <2>2, <2>5
  <2> QED BY <1>3, <2>3, <2>4, <2>5 DEF Parts
<1>6. ListTypeOK'
  <2>1. desc' \in [Ids -> [base : BOOLEAN, size : BOOLEAN, okay : BOOLEAN, next : Ids]]
        BY <1>1, <1>5 DEF ListTypeOK
  <2> QED BY <1>1, <1>2, <2>1 DEF ListTypeOK
<1>7. LockHeld'
      BY <1>2 DEF LockHeld
<1>8. MainFilled'
  <2>1. granted = {} \/ MainUp'
        BY <1>5 DEF MainFilled, MainUp, Parts
  <2>2. t # Nobody
        OBVIOUS
  <2>3. todo' \subseteq Parts /\ Stored(0)'
        BY <1>1, <1>2, <1>3, <1>5 DEF MainFilled, Stored
  <2> QED BY <1>2, <1>4, <2>1, <2>2, <2>3 DEF MainFilled, Holding
<1>9. ListChain'
  <2>1. 1..made \subseteq Ids \ {0}
        BY TypeFacts DEF Ids
  <2> QED BY <1>2, <1>5, <2>1 DEF ListChain
<1>10. Filling'
      BY <1>2, <1>4 DEF Filling, Holding
<1>11. (OnTheWay /\ AnswerRight)'
      BY <1>2 DEF OnTheWay, AnswerRight
<1> QED BY <1>2, <1>6, <1>7, <1>8, <1>9, <1>10, <1>11

(* The steps that only move on, take a block or give up. *)
LEMMA QuietInv ==
    ASSUME ListInv, NEW t \in Threads,
           InitDone(t) \/ Found(t) \/ NotFound(t) \/ AllocPool(t) \/ Grant(t)
    PROVE  ListInv'
<1> USE PoolListAssumption DEF ListInv
<1>1. PICK to \in {"search", "idle", "fill"} :
        /\ pc[t] \in Holding /\ pc' = [pc EXCEPT ![t] = to]
        /\ UNCHANGED <<desc, made, arg, cur, answer>>
        /\ granted \subseteq granted' /\ granted' \subseteq granted \cup 0..made
        /\ to = "search" => lock' = lock /\ todo' = todo /\ pc[t] = "init"
                            /\ todo = {} /\ granted' = granted
        /\ to = "idle" => lock' = Nobody /\ todo' = todo
                          /\ pc[t] \in {"search", "linked"}
        /\ to = "fill" => lock' = lock /\ todo' = Fields /\ made < MaxPools
                          /\ pc[t] = "search" /\ granted' = granted
  <2> made \in 0..made
      BY TypeFacts
  <2>1. CASE InitDone(t)
        BY <2>1 DEF InitDone, Goto, Holding
  <2>2. CASE Found(t)
        BY <2>2 DEF Found, Goto, Holding
  <2>3. CASE NotFound(t)
        BY <2>3 DEF NotFound, Goto, Holding
  <2>4. CASE AllocPool(t)
        BY <2>4 DEF AllocPool, Goto, Holding
  <2>5. CASE Grant(t)
        BY <2>5 DEF Grant, Goto, Holding
  <2> QED BY <2>1, <2>2, <2>3, <2>4, <2>5
<1>2. lock = t /\ t # Nobody /\ \A u \in Threads \ {t} : pc[u] \notin Holding
      BY <1>1, OneHolder
<1>3. pc'[t] = to /\ \A u \in Threads \ {t} : pc'[u] = pc[u]
      BY <1>1 DEF ListTypeOK
<1>4. MainUp
      BY <1>1 DEF MainFilled, MainUp, Stored, Holding
<1>5. granted' \subseteq 0..made'
      BY <1>1
<1>6. ListTypeOK'
  <2>1. 0..made \subseteq Ids
        BY TypeFacts DEF Ids
  <2>2. granted' \subseteq Ids
        BY <1>1, <2>1
  <2>3. lock' \in Threads \cup {Nobody} /\ todo' \subseteq Fields
        BY <1>1 DEF ListTypeOK
  <2>4. pc' \in [Threads -> {"idle", "init", "search", "fill", "linked",
                             "check", "advance", "done"}]
        BY <1>1 DEF ListTypeOK
  <2> QED BY <1>1, <2>2, <2>3, <2>4 DEF ListTypeOK
<1>7. LockHeld'
      BY <1>1, <1>2, <1>3 DEF LockHeld, Holding
<1>8. MainFilled'
      BY <1>1, <1>2, <1>3, <1>4 DEF MainFilled, MainUp, Stored, Holding
<1>9. (ListChain /\ Filling)'
      BY <1>1, <1>2, <1>3 DEF ListChain, Filling, Stored, Holding, Fields
<1>10. (OnTheWay /\ AnswerRight)'
  <2>1. made' \in Nat /\ made <= made'
        BY <1>1, TypeFacts
  <2>2. to \in Holding \cup {"idle"} /\ pc[t] \in Holding \cup {"idle"}
        BY <1>1 DEF Holding
  <2> QED BY <1>1, <2>1, <2>2, MallocKeeps
<1> QED BY <1>5, <1>6, <1>7, <1>8, <1>9, <1>10

(* A store into the new descriptor: no walk and no linked pool knows it. *)
LEMMA StoreNewInv ==
    ASSUME ListInv, NEW t \in Threads, StoreNew(t)
    PROVE  ListInv'
<1> USE PoolListAssumption DEF ListInv
<1> DEFINE k == made + 1
           RecordType == [base : BOOLEAN, size : BOOLEAN, okay : BOOLEAN, next : Ids]
<1>1. PICK f \in todo :
        /\ desc' = [desc EXCEPT ![k] = [@ EXCEPT ![f] =
                       IF f = "next" THEN desc[0].next ELSE TRUE]]
        /\ todo' = todo \ {f}
      BY DEF StoreNew
<1>2. /\ pc[t] = "fill"
      /\ UNCHANGED <<lock, pc, made, granted, arg, cur, answer>>
      BY DEF StoreNew
<1>3. lock = t /\ \A u \in Threads \ {t} : pc[u] \notin Holding
      BY <1>2, OneHolder DEF Holding
<1>4. /\ k \in Ids /\ 0 \in Ids /\ k # 0 /\ k \notin 1..made
      /\ 1..made \subseteq Ids /\ made \in Ids
      BY <1>2, TypeFacts DEF Filling, Ids
<1>5. desc[0].next = made
      BY DEF ListChain
<1>6. /\ \A i \in Ids \ {k} : desc'[i] = desc[i]
      /\ desc'[k] \in RecordType
      /\ desc'[k].base = (f = "base" \/ desc[k].base)
      /\ desc'[k].size = (f = "size" \/ desc[k].size)
      /\ desc'[k].okay = (f = "okay" \/ desc[k].okay)
      /\ desc'[k].next = (IF f = "next" THEN made ELSE desc[k].next)
  <2>1. /\ desc'[k] = [desc[k] EXCEPT ![f] = IF f = "next" THEN made ELSE TRUE]
        /\ \A i \in Ids \ {k} : desc'[i] = desc[i]
        BY <1>1, <1>4, <1>5 DEF ListTypeOK
  <2>2. desc[k] \in RecordType
        BY <1>4 DEF ListTypeOK
  <2>3. f \in {"base", "size", "okay", "next"}
        BY DEF ListTypeOK, Fields
  <2> HIDE DEF k
  <2>4. CASE f = "base"
        BY <2>1, <2>2, <2>4
  <2>5. CASE f = "size"
        BY <2>1, <2>2, <2>5
  <2>6. CASE f = "okay"
        BY <2>1, <2>2, <2>6
  <2>7. CASE f = "next"
        BY <1>4, <2>1, <2>2, <2>7
  <2> QED BY <2>3, <2>4, <2>5, <2>6, <2>7
<1>7. ListTypeOK'
  <2>1. desc' \in [Ids -> RecordType]
        BY <1>1, <1>4, <1>6 DEF ListTypeOK
  <2> QED BY <1>1, <1>2, <2>1 DEF ListTypeOK
<1>8. LockHeld'
      BY <1>2 DEF LockHeld
<1>9. MainFilled'
  <2>1. desc'[0] = desc[0]
        BY <1>4, <1>6
  <2>2. MainUp'
        BY <1>2, <2>1 DEF MainFilled, MainUp
  <2> QED BY <1>2, <1>3, <2>2 DEF MainFilled, Holding
<1>10. ListChain'
      BY <1>2, <1>4, <1>6 DEF ListChain
<1>11. Filling'
  <2>1. Stored(made + 1)' /\ ("next" \notin todo' => desc'[k].next = made)
    <3>1. Stored(made + 1) /\ ("next" \notin todo => desc[k].next = made)
          BY <1>2 DEF Filling
    <3> HIDE DEF k
    <3>2. /\ "base" \notin todo' => desc'[k].base
          /\ "size" \notin todo' => desc'[k].size
          /\ "okay" \notin todo' => desc'[k].okay
          BY <1>1, <1>6, <3>1 DEF Stored, k
    <3>3. "next" \notin todo' => desc'[k].next = made
          BY <1>1, <1>6, <3>1
    <3> QED BY <1>2, <3>2, <3>3 DEF Stored, k
  <2> QED BY <1>2, <1>3, <2>1 DEF Filling, Holding
<1>12. (OnTheWay /\ AnswerRight)'
      BY <1>2 DEF OnTheWay, AnswerRight
<1> QED BY <1>2, <1>7, <1>8, <1>9, <1>10, <1>11, <1>12

(* The link: everything behind it is in place. *)
LEMMA PublishInv ==
    ASSUME ListInv, NEW t \in Threads, Publish(t)
    PROVE  ListInv'
<1> USE PoolListAssumption DEF ListInv
<1>1. /\ todo = {} /\ pc[t] = "fill" /\ pc' = [pc EXCEPT ![t] = "linked"]
      /\ desc' = [desc EXCEPT ![0].next = made + 1] /\ made' = made + 1
      /\ UNCHANGED <<lock, todo, granted, arg, cur, answer>>
      BY DEF Publish, Goto
<1>2. lock = t /\ \A u \in Threads \ {t} : pc[u] \notin Holding
      BY <1>1, OneHolder DEF Holding
<1>3. pc'[t] = "linked" /\ \A u \in Threads \ {t} : pc'[u] = pc[u]
      BY <1>1 DEF ListTypeOK
<1>4. /\ made \in Nat /\ made + 1 \in Ids /\ 0 \in Ids
      /\ \A k \in 1..(made + 1) : k \in Ids /\ k # 0 /\ k \in 1..made \cup {made + 1}
      BY <1>1, TypeFacts DEF Filling, Ids
<1>5. /\ \A i \in Ids \ {0} : desc'[i] = desc[i]
      /\ desc'[0].next = made + 1 /\ desc'[0].base = desc[0].base
      /\ desc'[0].size = desc[0].size /\ desc'[0].okay = desc[0].okay
      BY <1>1, <1>4 DEF ListTypeOK
<1>6. ListTypeOK'
      BY <1>1, <1>4 DEF ListTypeOK
<1>7. LockHeld'
      BY <1>1, <1>2, <1>3 DEF LockHeld, Holding
<1>8. MainFilled'
  <2>1. MainUp'
        BY <1>1, <1>5 DEF MainFilled, MainUp
  <2> QED BY <1>1, <1>2, <1>3, <2>1 DEF MainFilled, Holding
<1>9. ListChain'
  <2>1. /\ desc[made + 1].okay /\ desc[made + 1].base /\ desc[made + 1].size
        /\ desc[made + 1].next = (made + 1) - 1
        BY <1>1, <1>4 DEF Filling, Stored
  <2> QED BY <1>1, <1>4, <1>5, <2>1 DEF ListChain
<1>10. Filling'
      BY <1>2, <1>3 DEF Filling, Holding
<1>11. (OnTheWay /\ AnswerRight)'
  <2>1. made' \in Nat /\ made <= made'
        BY <1>1, <1>4
  <2>2. "linked" \in Holding /\ "fill" \in Holding
        BY DEF Holding
  <2> QED BY <1>1, <2>1, <2>2, MallocKeeps
<1>12. granted' \subseteq 0..made'
      BY <1>1, <1>4
<1> QED BY <1>6, <1>7, <1>8, <1>9, <1>10, <1>11, <1>12

----------------------------------------------------------------------------
\* The invariant holds always.
LEMMA ListAlways == ListSpec => []ListInv
<1>1. ListInit => ListInv
  <2> HAVE ListInit
  <2>1. ListTypeOK
        BY PoolListAssumption DEF ListInit, ListTypeOK, Zeroed, Ids, Homes, Libc, NULL, Fields
  <2>2. LockHeld /\ Filling /\ OnTheWay /\ AnswerRight
        BY PoolListAssumption
        DEF ListInit, LockHeld, Filling, OnTheWay, AnswerRight, Holding
  <2>3. MainFilled /\ ListChain
        BY PoolListAssumption
        DEF ListInit, MainFilled, ListChain, Zeroed, NULL, Ids
  <2> QED BY <2>1, <2>2, <2>3 DEF ListInv, ListInit
<1>2. ListInv /\ [ListNext]_listVars => ListInv'
  <2> SUFFICES ASSUME ListInv, [ListNext]_listVars PROVE ListInv'
      OBVIOUS
  <2>1. ASSUME NEW t \in Threads, LockedMalloc(t) PROVE ListInv'
        BY <2>1, EnterInv, StoreMainInv, QuietInv, StoreNewInv, PublishInv
        DEF LockedMalloc
  <2>2. CASE UNCHANGED listVars
        BY <2>2 DEF listVars, ListInv, ListTypeOK, LockHeld, MainFilled, MainUp, Stored,
           ListChain, Filling, OnTheWay, AnswerRight
  <2> QED BY <2>1, <2>2, WalkInv DEF ListNext
<1> QED BY <1>1, <1>2, PTL DEF ListSpec

(* ListTypeOK for any number of threads and pools. *)
THEOREM PoolListType == ListSpec => []ListTypeOK
<1>1. ListInv => ListTypeOK
      BY DEF ListInv
<1> QED BY <1>1, ListAlways, PTL

(* AnswerRight for any number of threads and pools: _gcry_private_is_secure *)
(* tells secure from other memory whatever is allocated meanwhile, so that *)
(* free and realloc reach the allocator the memory came from.              *)
THEOREM PoolListAnswer == ListSpec => []AnswerRight
<1>1. ListInv => AnswerRight
      BY DEF ListInv
<1> QED BY <1>1, ListAlways, PTL

(* NoHalfPool for any number of threads and pools: the barrier of          *)
(* _gcry_secmem_malloc_internal keeps walks off unfinished descriptors.    *)
THEOREM PoolListComplete == ListSpec => []NoHalfPool
<1>1. ListInv => NoHalfPool
  <2> SUFFICES ASSUME ListInv, NEW t \in Threads,
                      pc[t] \in {"check", "advance"}, cur[t] # 0
               PROVE  /\ desc[cur[t]].okay /\ desc[cur[t]].base
                      /\ desc[cur[t]].size
                      /\ desc[cur[t]].next = cur[t] - 1
      BY DEF NoHalfPool
  <2>1. cur[t] \in 1..made
        BY TypeFacts DEF ListInv, OnTheWay
  <2> QED BY <2>1 DEF ListInv, ListChain
<1> QED BY <1>1, ListAlways, PTL
=============================================================================
