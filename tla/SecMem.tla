------------------------------- MODULE SecMem -------------------------------
(***************************************************************************)
(* The secure memory allocator of src/src/secmem.c: one main pool that is  *)
(* locked into core and any number of overflow pools, each a row of blocks *)
(* with an in-band header.  Every public function holds SECMEM_LOCK for    *)
(* its whole body, so each is one action; _gcry_secmem_term takes no lock  *)
(* but is documented as cleanup code.                                      *)
(*                                                                         *)
(* Sizes and offsets are counted in one unit (on the usual ABIs: 8 bytes,  *)
(* with HeadSize = 1 and Align = 4).  An offset is relative to pool->mem.  *)
(***************************************************************************)
EXTENDS Integers, FiniteSets, FiniteSetsExt

CONSTANTS
  HeadSize,          \* BLOCK_HEAD_SIZE
  Align,             \* 32, the granularity of block sizes
  PageSize,          \* sysconf (_SC_PAGESIZE)
  MinimumPoolSize,   \* MINIMUM_POOL_SIZE
  StandardPoolSize,  \* STANDARD_POOL_SIZE
  SizeMod,           \* 2^64: the modulus of size_t
  UIntMod,           \* 2^32: the modulus of unsigned int
  InitSizes,         \* arguments of GCRYCTL_INIT_SECMEM
  Requests,          \* sizes asked of malloc and realloc
  ChunkSizes,        \* arguments of GCRYCTL_AUTO_EXPAND_SECMEM
  FlagSets,          \* arguments of _gcry_secmem_set_flags
  Starts,            \* how the process starts: [fips, setuid_root]
  MaxOverflow,       \* bound: overflow pools the process has memory for
  MaxTerms           \* bound: calls of _gcry_secmem_term

ASSUME SizesAssumption ==
  /\ HeadSize \in Nat \ {0}
  /\ Align \in Nat \ {0}
  /\ PageSize \in Nat \ {0}
  /\ MinimumPoolSize \in Nat /\ MinimumPoolSize > HeadSize
  /\ StandardPoolSize \in Nat /\ StandardPoolSize >= MinimumPoolSize
  /\ SizeMod \in Nat \ {0}
  /\ UIntMod \in Nat \ {0}

ASSUME InputsAssumption ==
  /\ InitSizes \subseteq Nat
  /\ Requests \subseteq Nat \ {0}     \* callers turn malloc(0) into EINVAL
  /\ ChunkSizes \subseteq Nat
  /\ FlagSets \subseteq [susp : BOOLEAN, nolock : BOOLEAN, nodrop : BOOLEAN]
  /\ Starts \subseteq [fips : BOOLEAN, setuid_root : BOOLEAN]
  /\ MaxOverflow \in Nat
  /\ MaxTerms \in Nat

VARIABLES
  pools,            \* pools[0] is mainpool, the others in order of creation
  auto_expand,
  disable_secmem,
  show_warning,
  not_locked,
  suspend_warning,
  no_mlock,
  no_priv_drop,
  setuid_root,      \* the process runs with uid # 0 and euid = 0
  fips,             \* fips_mode ()
  halted,           \* log_bug or log_fatal ended the process
  live,             \* the pointers the callers hold: [pool, off, n]
  terms             \* calls of _gcry_secmem_term so far

vars == <<pools, auto_expand, disable_secmem, show_warning, not_locked,
          suspend_warning, no_mlock, no_priv_drop, setuid_root, fips,
          halted, live, terms>>

PoolIds == 0..MaxOverflow

Block == [off : Nat, size : Nat, active : BOOLEAN]

\* dirty: the offsets that hold bytes a caller has written.
Pool == [okay : BOOLEAN, size : Nat, blocks : SUBSET Block,
         is_mmapped : BOOLEAN, cur_alloced : Int, cur_blocks : Int,
         dirty : SUBSET Nat]

Pointer == [pool : PoolIds, off : Nat, n : Requests]

NoPool == [okay |-> FALSE, size |-> 0, blocks |-> {}, is_mmapped |-> FALSE,
           cur_alloced |-> 0, cur_blocks |-> 0, dirty |-> {}]

-----------------------------------------------------------------------------
(* Blocks *)

\* Where the block after b starts, whether or not there is one.
End(b) == b.off + HeadSize + b.size

\* The offsets of b's user data.
Span(b) == (b.off + HeadSize)..(End(b) - 1)

\* mb_get_next, mb_get_prev: as the set of the one neighbour, or empty.
Following(blocks, b) == {c \in blocks : c.off = End(b)}
Preceding(blocks, b) == {c \in blocks : End(c) = b.off}

Idle(blocks) == {c \in blocks : ~c.active}

\* mb_merge: free block b swallows its free neighbours.
Merge(blocks, b) ==
  LET prev == Idle(Preceding(blocks, b))
      next == Idle(Following(blocks, b))
      lo   == IF prev = {} THEN b.off ELSE (CHOOSE c \in prev : TRUE).off
      hi   == IF next = {} THEN End(b) ELSE End(CHOOSE c \in next : TRUE)
  IN  (blocks \ ({b} \cup prev \cup next))
        \cup {[off |-> lo, size |-> hi - lo - HeadSize, active |-> FALSE]}

\* Mutant: MB_FLAG_ACTIVE is not tested.
Fits_Active(p, n) == {b \in p.blocks : b.size >= n}

\* The blocks mb_get_new would take, and the one it takes: the first.
Fits(p, n) == {b \in p.blocks : ~b.active /\ b.size >= n}

FirstFit(p, n) == {b \in Fits(p, n) : \A c \in Fits(p, n) : b.off <= c.off}

\* Mutant: mb->size is not cut down to n.
Carve_KeepSize(blocks, b, n) ==
  IF b.size - n > HeadSize
  THEN (blocks \ {b}) \cup {[b EXCEPT !.active = TRUE],
         [off |-> b.off + HeadSize + n, size |-> b.size - n - HeadSize,
          active |-> FALSE]}
  ELSE (blocks \ {b}) \cup {[b EXCEPT !.active = TRUE]}

\* mb_get_new on block b: split off the rest when it can hold a block.
Carve(blocks, b, n) ==
  IF b.size - n > HeadSize
  THEN LET rest == [off |-> b.off + HeadSize + n,
                    size |-> b.size - n - HeadSize, active |-> FALSE]
       IN  Merge((blocks \ {b})
                   \cup {[off |-> b.off, size |-> n, active |-> TRUE], rest},
                 rest)
  ELSE (blocks \ {b}) \cup {[b EXCEPT !.active = TRUE]}

\* Mutant: the requested size is booked, the slack forgotten.
Granted_Requested(b, n) == n

\* The size mb_get_new leaves b with.
Granted(b, n) == IF b.size - n > HeadSize THEN n ELSE b.size

-----------------------------------------------------------------------------
(* Pools *)

RoundUp(n) == (((n + Align - 1) % SizeMod) \div Align) * Align

PageRound(n) == ((n + PageSize - 1) \div PageSize) * PageSize

\* stats_update (pool, add, 0) and stats_update (pool, 0, sub).
StatsAdd(p, add) ==
  IF add = 0 THEN p ELSE [p EXCEPT !.cur_alloced = @ + add, !.cur_blocks = @ + 1]
StatsSub(p, sub) ==
  IF sub = 0 THEN p ELSE [p EXCEPT !.cur_alloced = @ - sub, !.cur_blocks = @ - 1]

\* A pool's memory with its single free block.
Format(p, n) ==
  [p EXCEPT !.okay = TRUE, !.size = n, !.dirty = {},
            !.blocks = {[off |-> 0, size |-> n - HeadSize, active |-> FALSE]}]

\* init_pool on the main pool; a failed mmap leaves is_mmapped as it was.
InitPool(p, n, mmap_ok) ==
  [Format(p, PageRound(n)) EXCEPT !.is_mmapped = mmap_ok \/ p.is_mmapped]

\* mb_get_new and stats_update in pool p, for every block it may pick.
TakeFrom(p, n, b) ==
  StatsAdd([p EXCEPT !.blocks = Carve(p.blocks, b, n)], Granted(b, n))

\* Mutant: the wipe is short by the size of a header.
FreeBlock_ShortWipe(p, b) ==
  LET freed == [b EXCEPT !.active = FALSE]
  IN  StatsSub([p EXCEPT
         !.dirty = @ \ ((b.off + HeadSize)..(End(b) - HeadSize - 1)),
         !.blocks = Merge((@ \ {b}) \cup {freed}, freed)], b.size)

\* _gcry_secmem_free_internal on block b of pool p.
FreeBlock(p, b) ==
  LET freed == [b EXCEPT !.active = FALSE]
  IN  StatsSub([p EXCEPT !.dirty = @ \ Span(b),
                         !.blocks = Merge((@ \ {b}) \cup {freed}, freed)],
               b.size)

-----------------------------------------------------------------------------
(* _gcry_secmem_malloc_internal, as the set of its possible outcomes *)

\* What it reads and changes besides the pools.
Now == [pools |-> pools, show_warning |-> show_warning,
        not_locked |-> not_locked, setuid_root |-> setuid_root,
        halted |-> FALSE]

\* _gcry_secmem_init_internal (n) with n # 0, and lock_pool_pages.
InitInternal(n) ==
  IF pools[0].okay THEN {Now}                  \* "already initialized"
  ELSE {[Now EXCEPT !.halted = TRUE]} \cup     \* no memory, or disabled
       {[pools |-> [pools EXCEPT ![0] =
                      InitPool(@, IF n < MinimumPoolSize
                                  THEN MinimumPoolSize ELSE n, mm)],
         show_warning |-> show_warning \/ ~lk,
         not_locked   |-> not_locked \/ ~lk,
         setuid_root  |-> setuid_root /\ no_priv_drop,
         halted       |-> FALSE]
        : mm \in {x \in BOOLEAN : ~disable_secmem},
          lk \in {x \in BOOLEAN : no_mlock => x}}

\* No pointer is returned.
Null == [pool |-> -1, off |-> 0]

Fail(ps) == [pools |-> ps, at |-> Null]

Place(ps, i, n) ==
  {[pools |-> [ps EXCEPT ![i] = TakeFrom(@, n, b)],
    at    |-> [pool |-> i, off |-> b.off]] : b \in FirstFit(ps[i], n)}

Overflow(ps) == {i \in PoolIds \ {0} : ps[i].okay}

\* The overflow pool with room that is met first: they are linked newest first.
Newest(S) == {i \in S : \A j \in S : j <= i}

\* The next pool descriptor calloc may provide.
Vacant(ps) == {i \in PoolIds \ {0} :
                 ~ps[i].okay /\ \A j \in 1..(i - 1) : ps[j].okay}

\* The overflow pools searched, then a new one, which stays even if it is too
\* small; or there is no memory for a new one.
Expand(ps, n) ==
  LET room == {i \in Overflow(ps) : Fits(ps[i], n) # {}}
      chunk == IF auto_expand # 0 THEN auto_expand ELSE StandardPoolSize
      added(i) == [ps EXCEPT ![i] = Format(NoPool, chunk)]
  IN  IF room # {}
      THEN UNION {Place(ps, i, n) : i \in Newest(room)}
      ELSE {Fail(ps)} \cup
           UNION {IF Fits(added(i)[i], n) # {}
                  THEN Place(added(i), i, n) ELSE {Fail(added(i))}
                  : i \in Vacant(ps)}

\* Mutant: fips_mode () is not asked before expanding.
Search_NoFips(ps, n, xhint) ==
  IF Fits(ps[0], n) # {} THEN Place(ps, 0, n)
  ELSE IF xhint \/ auto_expand # 0 THEN Expand(ps, n)
  ELSE {Fail(ps)}

\* The search proper, for the rounded size n.
Search(ps, n, xhint) ==
  IF Fits(ps[0], n) # {} THEN Place(ps, 0, n)
  ELSE IF (xhint \/ auto_expand # 0) /\ ~fips THEN Expand(ps, n)
  ELSE {Fail(ps)}

Outcome(e, o) ==
  [pools |-> o.pools, at |-> o.at, not_locked |-> e.not_locked,
   setuid_root |-> e.setuid_root, halted |-> e.halted,
   show_warning |-> e.show_warning]

MallocInternal(size, xhint) ==
  UNION {IF e.halted \/ (e.not_locked /\ fips)
         THEN {Outcome(e, Fail(e.pools))}
         ELSE {[Outcome(e, o) EXCEPT !.show_warning = @ /\ suspend_warning]
               : o \in Search(e.pools, RoundUp(size), xhint)}
         : e \in InitInternal(StandardPoolSize)}

-----------------------------------------------------------------------------
(* The operations *)

Init ==
  /\ pools = [i \in PoolIds |-> NoPool]
  /\ auto_expand = 0
  /\ disable_secmem = FALSE
  /\ show_warning = FALSE
  /\ not_locked = FALSE
  /\ suspend_warning = FALSE
  /\ no_mlock = FALSE
  /\ no_priv_drop = FALSE
  /\ \E s \in Starts : fips = s.fips /\ setuid_root = s.setuid_root
  /\ halted = FALSE
  /\ live = {}
  /\ terms = 0

\* The part of the state an init or a malloc replaces.
Commit(o) ==
  /\ show_warning' = o.show_warning
  /\ not_locked' = o.not_locked
  /\ setuid_root' = o.setuid_root
  /\ halted' = o.halted

\* GCRYCTL_INIT_SECMEM and GCRYCTL_DROP_PRIVS: _gcry_secmem_init (n).
InitSecmem(n) ==
  /\ ~halted
  /\ IF n = 0
     THEN /\ disable_secmem' = TRUE
          /\ setuid_root' = FALSE
          /\ UNCHANGED <<pools, show_warning, not_locked, halted>>
     ELSE /\ \E e \in InitInternal(n) : Commit(e) /\ pools' = e.pools
          /\ UNCHANGED disable_secmem
  /\ UNCHANGED <<auto_expand, suspend_warning, no_mlock, no_priv_drop, fips,
                 live, terms>>

\* _gcry_secmem_malloc
Malloc(n, xhint) ==
  /\ ~halted
  /\ \E o \in MallocInternal(n, xhint) :
       /\ Commit(o)
       /\ pools' = o.pools
       /\ live' = IF o.at = Null THEN live
                  ELSE live \cup {[pool |-> o.at.pool, off |-> o.at.off, n |-> n]}
  /\ UNCHANGED <<auto_expand, disable_secmem, suspend_warning, no_mlock,
                 no_priv_drop, fips, terms>>

\* _gcry_secmem_free
Free(l) ==
  /\ ~halted
  /\ \E b \in pools[l.pool].blocks :
       /\ b.off = l.off
       /\ pools' = [pools EXCEPT ![l.pool] = FreeBlock(@, b)]
  /\ live' = live \ {l}
  /\ UNCHANGED <<auto_expand, disable_secmem, show_warning, not_locked,
                 suspend_warning, no_mlock, no_priv_drop, setuid_root, fips,
                 halted, terms>>

\* Mutant: the copy starts at the header of the old block.
Copied_FromHead(p, b, off) ==
  {off + HeadSize + (x - b.off) : x \in p.dirty \cap Span(b)}

\* memcpy (a, p, size): what block b of pool p held, moved to offset off.
Copied(p, b, off) == {off + (x - b.off) : x \in p.dirty \cap Span(b)}

\* _gcry_secmem_realloc: a block is never shrunk, and never grown in place.
Realloc(l, n, xhint) ==
  /\ ~halted
  /\ \E b \in pools[l.pool].blocks :
       /\ b.off = l.off
       /\ \/ /\ n < b.size
             /\ live' = (live \ {l}) \cup {[l EXCEPT !.n = n]}
             /\ UNCHANGED <<pools, show_warning, not_locked, setuid_root, halted>>
          \/ /\ n >= b.size
             /\ \E o \in MallocInternal(n, xhint) :
                  /\ Commit(o)
                  /\ IF o.at = Null THEN pools' = o.pools /\ live' = live
                     ELSE LET to == o.at
                              copied == [o.pools EXCEPT ![to.pool].dirty =
                                @ \cup Copied(o.pools[l.pool], b, to.off)]
                          IN  /\ pools' = [copied EXCEPT ![l.pool] =
                                             FreeBlock(@, b)]
                              /\ live' = (live \ {l}) \cup
                                   {[pool |-> to.pool, off |-> to.off, n |-> n]}
  /\ UNCHANGED <<auto_expand, disable_secmem, suspend_warning, no_mlock,
                 no_priv_drop, fips, terms>>

\* The caller fills the n units it asked for.
Write(l) ==
  /\ ~halted
  /\ pools' = [pools EXCEPT ![l.pool].dirty =
                 @ \cup ((l.off + HeadSize)..(l.off + HeadSize + l.n - 1))]
  /\ UNCHANGED <<auto_expand, disable_secmem, show_warning, not_locked,
                 suspend_warning, no_mlock, no_priv_drop, setuid_root, fips,
                 halted, live, terms>>

\* Mutant: lifting the suspension does not issue the pending warning.
SetFlags_Silent(f) ==
  /\ ~halted
  /\ suspend_warning' = f.susp
  /\ no_mlock' = f.nolock
  /\ no_priv_drop' = f.nodrop
  /\ UNCHANGED <<pools, auto_expand, disable_secmem, show_warning, not_locked,
                 setuid_root, fips, halted, live, terms>>

\* _gcry_secmem_set_flags; NO_WARNING only silences the log.
SetFlags(f) ==
  /\ ~halted
  /\ suspend_warning' = f.susp
  /\ no_mlock' = f.nolock
  /\ no_priv_drop' = f.nodrop
  /\ show_warning' = (show_warning /\ ~(suspend_warning /\ ~f.susp))
  /\ UNCHANGED <<pools, auto_expand, disable_secmem, not_locked, setuid_root,
                 fips, halted, live, terms>>

\* _gcry_secmem_set_auto_expand
ChunkSize(n) ==
  (((n + 2 * StandardPoolSize - 1) % UIntMod) \div StandardPoolSize)
    * StandardPoolSize

SetAutoExpand(n) ==
  /\ ~halted
  /\ auto_expand' = IF ChunkSize(n) < StandardPoolSize
                    THEN StandardPoolSize ELSE ChunkSize(n)
  /\ UNCHANGED <<pools, disable_secmem, show_warning, not_locked,
                 suspend_warning, no_mlock, no_priv_drop, setuid_root, fips,
                 halted, live, terms>>

\* _gcry_secmem_term: the statistics and is_mmapped of mainpool survive it.
Term ==
  /\ ~halted
  /\ terms < MaxTerms
  /\ terms' = terms + 1
  /\ pools' = [i \in PoolIds |->
                 IF i = 0 THEN [pools[0] EXCEPT !.okay = FALSE, !.size = 0,
                                                !.blocks = {}, !.dirty = {}]
                 ELSE NoPool]
  /\ not_locked' = FALSE
  /\ live' = {}
  /\ UNCHANGED <<auto_expand, disable_secmem, show_warning, suspend_warning,
                 no_mlock, no_priv_drop, setuid_root, fips, halted>>

Next ==
  \/ \E n \in InitSizes : InitSecmem(n)
  \/ \E n \in Requests, xhint \in BOOLEAN : Malloc(n, xhint)
  \/ \E l \in live : Free(l)
  \/ \E l \in live, n \in Requests, xhint \in BOOLEAN : Realloc(l, n, xhint)
  \/ \E l \in live : Write(l)
  \/ \E f \in FlagSets : SetFlags(f)
  \/ \E n \in ChunkSizes : SetAutoExpand(n)
  \/ Term

Spec == Init /\ [][Next]_vars
-----------------------------------------------------------------------------
(* Correctness *)

TypeOK ==
  /\ pools \in [PoolIds -> Pool]
  /\ auto_expand \in Nat
  /\ {disable_secmem, show_warning, not_locked, suspend_warning, no_mlock,
      no_priv_drop, setuid_root, fips, halted} \subseteq BOOLEAN
  /\ live \subseteq Pointer
  /\ terms \in 0..MaxTerms

\* The headers form one chain through the pool's memory: mb_get_next leads from
\* each block to the next until the end of the pool, mb_get_prev finds the one
\* before, and no two blocks overlap.
Chain(blocks, size) ==
  /\ \A b \in blocks : End(b) <= size
  /\ \A b \in blocks : End(b) # size => Following(blocks, b) # {}
  /\ \A b \in blocks : b.off # 0 => Preceding(blocks, b) # {}
  /\ \A b, c \in blocks : b # c => End(b) <= c.off \/ End(c) <= b.off

Tiled(p) ==
  /\ ~p.okay => p.blocks = {} /\ p.size = 0
  /\ p.okay => \E b \in p.blocks : b.off = 0
  /\ Chain(p.blocks, p.size)

\* Splitting and merging (mb_get_new, mb_merge) keep every pool tiled.
PoolsTiled == \A i \in PoolIds : Tiled(pools[i])

Coalesced(blocks) ==
  \A b, c \in blocks : c.off = End(b) => b.active \/ c.active

\* Freed memory does not stay fragmented.
NoFragments == \A i \in PoolIds : Coalesced(pools[i].blocks)

\* However allocations, frees and reallocs of all sizes follow each other, the
\* blocks tile every pool without gap or overlap, and no two free ones lie next
\* to each other, although mb_merge only looks one block in each direction.
WellFormed == PoolsTiled /\ NoFragments

\* Every pointer a caller holds is the start of an active block of its own, and
\* no block is active that nobody holds.
LiveBlocks ==
  /\ \A l \in live : \E b \in pools[l.pool].blocks : b.off = l.off /\ b.active
  /\ \A l, m \in live : l.pool = m.pool /\ l.off = m.off => l = m
  /\ \A i \in PoolIds : \A b \in pools[i].blocks :
       b.active => \E l \in live : l.pool = i /\ l.off = b.off

\* "Return a new block, which can hold SIZE bytes": the block behind a pointer
\* is at least as large as the size its holder last asked for.
BlockHoldsSize ==
  \A l \in live : \A b \in pools[l.pool].blocks : b.off = l.off => l.n <= b.size

\* No allocation, realloc that fails or moves, or free loses a block, hands one
\* out twice or returns one that is too small (_gcry_secmem_malloc_internal,
\* _gcry_secmem_realloc_internal, _gcry_secmem_free_internal).
BlocksServe == LiveBlocks /\ BlockHoldsSize

Wiped(p) == \A x \in p.dirty : \E b \in p.blocks : b.active /\ x \in Span(b)

\* Secure memory is wiped when it is released: bytes a caller wrote are only
\* found inside blocks that are still allocated, also after a realloc that kept
\* the block for a smaller size or moved it to another pool.
WipedWhenFree == \A i \in PoolIds : Wiped(pools[i])

\* In FIPS mode nothing is allocated from overflow pools, nor from a main pool
\* that could not be locked.
FipsConfined ==
  fips => /\ Overflow(pools) = {}
          /\ live # {} => ~not_locked

\* "Warning: using insecure memory" has been issued before any caller holds a
\* block of a pool that is not locked, unless warnings are suspended; and
\* lifting the suspension issues it.
WarningIssued == not_locked /\ live # {} /\ ~suspend_warning => ~show_warning

Active(p) == {b \in p.blocks : b.active}

\* How far the statistics of a pool are off its blocks.
BytesOff(p)  == p.cur_alloced - MapThenSumSet(LAMBDA b : b.size, Active(p))
BlocksOff(p) == p.cur_blocks - Cardinality({b \in Active(p) : b.size > 0})

\* Every operation but _gcry_secmem_term books exactly what it takes and gives
\* back: the statistics of a pool never drift from the sum of its active
\* blocks, slack of unsplit blocks included.
StatsExact ==
  [][terms' = terms => \A i \in PoolIds :
       /\ BytesOff(pools'[i]) = BytesOff(pools[i])
       /\ BlocksOff(pools'[i]) = BlocksOff(pools[i])]_vars

-----------------------------------------------------------------------------
(* Refinement *)

\* The region a pointer stands for: the user data of its block.
RegionOf(l, b) == [pool |-> l.pool, from |-> l.off + HeadSize,
                   to |-> End(b) - 1, n |-> l.n]

Regions ==
  {RegionOf(x[1], x[2]) : x \in {y \in live \X UNION {pools[i].blocks : i \in PoolIds} :
      y[2] \in pools[y[1].pool].blocks /\ y[2].off = y[1].off}}

Secrets == UNION {{<<i, x>> : x \in pools[i].dirty} : i \in PoolIds}

Heap == INSTANCE SecureHeap WITH held <- Regions, secret <- Secrets

\* Whatever the block lists go through, callers see the heap of SecureHeap:
\* malloc and realloc give out clean memory of the size asked for that nobody
\* else holds, a realloc that moves takes exactly the old content along, a
\* failed one changes nothing, and free leaves no secret behind.
ImplementsHeap == Heap!Spec
=============================================================================
