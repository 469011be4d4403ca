---------------------------- MODULE RngPoolProofs ----------------------------
(***************************************************************************)
(* What the entropy pool promises for every pool size, request length,     *)
(* chunking of the gatherer and number of threads and forks.               *)
(***************************************************************************)
EXTENDS RngPool, TLAPS

\* The places of a thread that holds the pool lock, and those past Begin.
Past    == {"seed", "seeded", "extra", "extraDone", "balance", "balanceDone",
            "fill", "gather", "output", "check"}
Running == Past \cup {"begin"}

\* What thread t does next, once its gatherer is done.
At(t) == IF pc[t] = "gather" THEN job.then ELSE pc[t]

\* The bookkeeping never claims more than went into the pool.
Honest(p) ==
  /\ p.balance <= p.fresh
  /\ p.filled => p.seeded \/ p.reliable = POOLSIZE
  /\ ~p.filled => p.counter <= p.reliable

\* The holder of the lock is the one thread inside read_pool.
Holder(t) == pc[t] \in Running <=> lock = t

\* What is known of the pool at each place inside read_pool.
Phase(t) ==
  /\ halt = "no" /\ pc[t] \in Past => pool.there /\ myPid2 = myPid
  /\ halt = "no" /\ pc[t] \in Past \ {"check"} => length <= POOLSIZE
  /\ At(t) = "seeded" => pool.seeded
  /\ At(t) = "extraDone" => pool.balance = 0
  /\ At(t) = "balanceDone" => pool.balance < length
  /\ At(t) \in {"fill", "output"} /\ VeryStrong(t) => length <= pool.balance
  /\ pc[t] = "output" => pool.filled
  /\ pc[t] = "check" => pool.stamp = myPid

IInv ==
  /\ TypeOK
  /\ Honest(pool)
  /\ \A t \in Threads : Holder(t) /\ Phase(t)

-----------------------------------------------------------------------------
(* Lemmas about the operations on the pool *)

\* What adding bytes never touches, and that it keeps the pool honest.
Kept(p, q) ==
  /\ q \in Pools
  /\ Honest(q)
  /\ q.there = p.there
  /\ q.balance = p.balance
  /\ q.fresh = p.fresh
  /\ q.seeded = p.seeded
  /\ p.filled => q.filled

\* add_randomness keeps the write position inside the pool and counts no
\* more reliable bytes than it was given.
LEMMA AddKeeps ==
  ASSUME NEW p \in Pools, NEW n \in 0..POOLSIZE, NEW o \in 0..4, Honest(p)
  PROVE  /\ Kept(p, AddRandomness(p, n, o))
         /\ AddRandomness(p, n, o).stamp = p.stamp
<1> DEFINE q == AddRandomness(p, n, o)
<1>1. /\ p.writepos \in 0..(POOLSIZE - 1) /\ p.counter \in Nat
      /\ p.reliable \in 0..POOLSIZE /\ p.filled \in BOOLEAN
      /\ POOLSIZE \in Nat \ {0}
  BY RngPoolAssumption DEF Pools
<1>2. /\ q.writepos = IF Wraps(p, n) THEN p.writepos + n - POOLSIZE
                      ELSE p.writepos + n
      /\ q.counter = NewCounter(p, n, o)
      /\ q.filled = (p.filled \/ /\ Counts(p, n, o)
                                 /\ NewCounter(p, n, o) >= POOLSIZE)
      /\ q.reliable = IF o >= SLOWPOLL THEN Least(POOLSIZE, p.reliable + n)
                      ELSE p.reliable
      /\ q.there = p.there /\ q.balance = p.balance /\ q.fresh = p.fresh
      /\ q.seeded = p.seeded /\ q.stamp = p.stamp
  BY DEF Pools, AddRandomness
<1>3. q.writepos \in 0..(POOLSIZE - 1)
  BY <1>1, <1>2 DEF Wraps
<1>4. NewCounter(p, n, o) \in Nat
  BY <1>1 DEF NewCounter, Counted
<1>5. q.reliable \in 0..POOLSIZE
  BY <1>1, <1>2 DEF Least
<1>6. q \in Pools
  <2> DEFINE w == IF Wraps(p, n) THEN p.writepos + n - POOLSIZE
                  ELSE p.writepos + n
             c == NewCounter(p, n, o)
             f == p.filled \/ /\ Counts(p, n, o)
                              /\ NewCounter(p, n, o) >= POOLSIZE
             m == IF Wraps(p, n) THEN p.writepos + n = POOLSIZE ELSE p.mixed
             r == IF o >= SLOWPOLL THEN Least(POOLSIZE, p.reliable + n)
                  ELSE p.reliable
  <2>1. q = [p EXCEPT !.writepos = w, !.counter = c, !.filled = f,
                      !.mixed = m, !.reliable = r]
    BY Zenon DEF AddRandomness
  <2>2. f \in BOOLEAN
    BY Zenon
  <2>3. m \in BOOLEAN
    BY DEF Pools
  <2>4. w \in 0..(POOLSIZE - 1) /\ c \in Nat /\ r \in 0..POOLSIZE
    BY <1>2, <1>3, <1>4, <1>5
  <2> HIDE DEF w, c, f, m, r, q
  <2> QED BY <2>1, <2>2, <2>3, <2>4 DEF Pools
<1>7. Honest(q)
  <2>1. q.balance <= q.fresh
    BY <1>2 DEF Honest
  <2>2. Counts(p, n, o) =>
          /\ NewCounter(p, n, o) <= p.reliable + n
          /\ o >= SLOWPOLL /\ ~p.filled
    BY <1>1 DEF Honest, Counts, NewCounter, Counted, Wraps
  <2>3. p.reliable <= q.reliable
    BY <1>1, <1>2 DEF Least
  <2>4. q.filled => q.seeded \/ q.reliable = POOLSIZE
    <3>1. CASE p.filled
      BY <3>1, <1>1, <1>2, <1>5, <2>3 DEF Honest
    <3>2. CASE ~p.filled
      BY <3>2, <1>1, <1>2, <1>4, <2>2 DEF Least
    <3> QED BY <3>1, <3>2
  <2>5. ~q.filled => q.counter <= q.reliable
    <3>1. CASE Counts(p, n, o)
      <4>1. ~q.filled => ~(NewCounter(p, n, o) >= POOLSIZE)
        BY <3>1, <1>2, Zenon
      <4>2. ~q.filled => NewCounter(p, n, o) < POOLSIZE
        BY <4>1, <1>1, <1>4
      <4> QED BY <4>2, <3>1, <1>1, <1>2, <1>4, <2>2 DEF Least
    <3>2. CASE ~Counts(p, n, o)
      BY <3>2, <1>1, <1>2, <1>5, <2>3 DEF Honest, NewCounter
    <3> QED BY <3>1, <3>2
  <2> QED BY <2>1, <2>4, <2>5 DEF Honest
<1> QED BY <1>2, <1>6, <1>7 DEF Kept

\* The same for the bytes of a pid, which is then the last one added.
LEMMA PidKeeps ==
  ASSUME NEW p \in Pools, NEW x \in 0..MaxPid, Honest(p)
  PROVE  /\ Kept(p, AddPid(p, x))
         /\ AddPid(p, x).stamp = x
<1> DEFINE q == AddRandomness(p, WordBytes, INIT)
<1>1. Kept(p, q)
  BY AddKeeps, RngPoolAssumption DEF INIT
<1> HIDE DEF q
<1>2. [q EXCEPT !.stamp = x] \in Pools
  BY <1>1 DEF Kept, Pools
<1> DEFINE r == [q EXCEPT !.stamp = x]
<1>3. /\ r.there = q.there /\ r.balance = q.balance /\ r.fresh = q.fresh
      /\ r.seeded = q.seeded /\ r.filled = q.filled /\ r.stamp = x
      /\ r.counter = q.counter /\ r.reliable = q.reliable
  BY <1>1 DEF Kept, Pools
<1>4. AddPid(p, x) = r
  BY DEF AddPid, q
<1> HIDE DEF r
<1>5. Honest(r)
  BY <1>1, <1>3 DEF Kept, Honest
<1>6. r \in Pools
  BY <1>2 DEF r
<1> QED BY <1>1, <1>3, <1>4, <1>5, <1>6 DEF Kept

\* The same for a time or clock value.
LEMMA TickKeeps ==
  ASSUME NEW p \in Pools, NEW o \in 0..4, Honest(p)
  PROVE  Kept(p, Tick(p, o)) /\ Tick(p, o).stamp = p.stamp
BY AddKeeps, RngPoolAssumption DEF Tick

\* The same for a fast random poll.
LEMMA PollKeeps ==
  ASSUME NEW p \in Pools, Honest(p)
  PROVE  Kept(p, DoFastPoll(p))
<1> DEFINE q == Tick(p, FASTPOLL)
           r == Tick(q, FASTPOLL)
<1>0. FASTPOLL \in 0..4 BY DEF FASTPOLL
<1>1. Kept(p, q) BY <1>0, TickKeeps
<1>2. Kept(q, r)
  <2> HIDE DEF q
  <2> QED BY <1>0, <1>1, TickKeeps DEF Kept
<1>3. Kept(r, Tick(r, FASTPOLL))
  <2> HIDE DEF r
  <2> QED BY <1>0, <1>2, TickKeeps DEF Kept
<1> HIDE DEF q, r
<1> QED BY <1>1, <1>2, <1>3 DEF Kept, DoFastPoll, q, r

\* The bytes of a seed file make the pool a seeded one.
LEMMA SeedKeeps ==
  ASSUME NEW p \in Pools, Honest(p), pid \in 1..MaxPid
  PROVE  /\ SeedAdded(p) \in Pools
         /\ Honest(SeedAdded(p))
         /\ SeedAdded(p).there = p.there
         /\ SeedAdded(p).seeded
<1> DEFINE q == AddRandomness(p, POOLSIZE, INIT)
           r == AddPid(q, pid)
           u == Tick(r, INIT)
           v == Tick(u, INIT)
<1>0. INIT \in 0..4 /\ POOLSIZE \in 0..POOLSIZE /\ pid \in 0..MaxPid
  BY RngPoolAssumption DEF INIT
<1>1. Kept(p, q) BY <1>0, AddKeeps
<1>2. Kept(q, r)
  <2> HIDE DEF q
  <2> QED BY <1>0, <1>1, PidKeeps DEF Kept
<1>3. Kept(r, u)
  <2> HIDE DEF r
  <2> QED BY <1>0, <1>2, TickKeeps DEF Kept
<1>4. Kept(u, v)
  <2> HIDE DEF u
  <2> QED BY <1>0, <1>3, TickKeeps DEF Kept
<1>5. SeedAdded(p) = [v EXCEPT !.seeded = TRUE]
  BY DEF SeedAdded
<1> HIDE DEF q, r, u, v
<1> QED BY <1>1, <1>2, <1>3, <1>4, <1>5 DEF Kept, Honest, Pools

-----------------------------------------------------------------------------
(* The invariant is preserved *)

\* Setting the balance, and the flag of the extra seeding.
Rebalanced(p, b, e, f) == [p EXCEPT !.balance = b, !.extra = e, !.fresh = f]

\* It keeps the pool honest if the new balance is backed.
LEMMA SetBalance ==
  ASSUME NEW p \in Pools, NEW b \in 0..POOLSIZE, NEW f \in Nat, b <= f,
         NEW e \in BOOLEAN, Honest(p), NEW q, q = Rebalanced(p, b, e, f)
  PROVE  /\ q \in Pools /\ Honest(q)
         /\ q.balance = b /\ q.fresh = f /\ q.extra = e
         /\ q.there = p.there /\ q.filled = p.filled
         /\ q.seeded = p.seeded /\ q.stamp = p.stamp
<1>1. q \in Pools
  BY DEF Pools, Rebalanced
<1>2. /\ q.balance = b /\ q.fresh = f /\ q.extra = e
      /\ q.there = p.there /\ q.filled = p.filled
      /\ q.seeded = p.seeded /\ q.stamp = p.stamp
      /\ q.counter = p.counter /\ q.reliable = p.reliable
  BY DEF Pools, Rebalanced
<1>3. Honest(q)
  BY <1>2 DEF Honest
<1> QED BY <1>1, <1>2, <1>3

\* Setting just_mixed.
Marked(p, m) == [p EXCEPT !.mixed = m]

\* It touches nothing else.
LEMMA MarkKeeps ==
  ASSUME NEW p \in Pools, NEW m \in BOOLEAN, Honest(p),
         NEW q, q = Marked(p, m)
  PROVE  Kept(p, q) /\ q.stamp = p.stamp /\ q.filled = p.filled
<1>1. q \in Pools
  BY DEF Pools, Marked
<1>2. /\ q.balance = p.balance /\ q.fresh = p.fresh
      /\ q.there = p.there /\ q.filled = p.filled
      /\ q.seeded = p.seeded /\ q.stamp = p.stamp
      /\ q.counter = p.counter /\ q.reliable = p.reliable
  BY DEF Pools, Marked
<1>3. Honest(q)
  BY <1>2 DEF Honest
<1> QED BY <1>1, <1>2, <1>3 DEF Kept

\* A new pid, to be mixed in: just_mixed is cleared.
LEMMA NewPidKeeps ==
  ASSUME NEW p \in Pools, Honest(p), pid \in 1..MaxPid
  PROVE  Kept(p, [AddPid(p, pid) EXCEPT !.mixed = FALSE])
<1> DEFINE q == AddPid(p, pid)
<1>1. Kept(p, q)
  BY PidKeeps
<1> HIDE DEF q
<1>2. [q EXCEPT !.mixed = FALSE] = Marked(q, FALSE)
  BY DEF Marked
<1>3. Kept(q, [q EXCEPT !.mixed = FALSE])
  <2>1. PICK m \in BOOLEAN : [q EXCEPT !.mixed = FALSE] = Marked(q, m)
    BY <1>2, Zenon
  <2>2. q \in Pools /\ Honest(q)
    BY <1>1 DEF Kept
  <2> QED BY <2>1, <2>2, MarkKeeps
<1> QED BY <1>1, <1>3 DEF Kept, q

\* Handing out bytes lowers the claim and what backs it alike.
LEMMA SpendKeeps ==
  ASSUME NEW p \in Pools, NEW n \in Nat, Honest(p)
  PROVE  /\ Spend(p, n) \in Pools /\ Honest(Spend(p, n))
         /\ Spend(p, n).there = p.there /\ Spend(p, n).stamp = p.stamp
<1>1. /\ p.balance \in 0..POOLSIZE /\ p.fresh \in Nat /\ p.extra \in BOOLEAN
      /\ p.balance <= p.fresh
  BY DEF Pools, Honest
<1> DEFINE b == Most(0, p.balance - n)
           f == Most(0, p.fresh - n)
<1>2. b \in 0..POOLSIZE /\ f \in Nat /\ b <= f
  BY <1>1, RngPoolAssumption DEF Most
<1>3. Spend(p, n) = Rebalanced(p, b, p.extra, f)
  BY DEF Spend, Pools, Rebalanced
<1> HIDE DEF b, f
<1> QED BY <1>1, <1>2, <1>3, SetBalance

\* Nothing is claimed of a thread outside read_pool.
LEMMA Outside ==
  ASSUME NEW u \in Threads, pc'[u] \notin Running
  PROVE  Phase(u)'
BY DEF Phase, At, Running, Past

\* A step of the lock's holder says nothing new of the other threads.
LEMMA Others ==
  ASSUME IInv, NEW t \in Threads, pc[t] \in Running,
         pc' = [pc EXCEPT ![t] = pc'[t]], lock' \in {lock, Nobody}
  PROVE  \A u \in Threads \ {t} : Holder(u)' /\ Phase(u)'
<1> TAKE u \in Threads \ {t}
<1>1. lock = t /\ pc[u] \notin Running
  BY DEF IInv, Holder
<1>2. pc'[u] = pc[u]
  BY DEF IInv, TypeOK
<1>3. Holder(u)'
  BY <1>1, <1>2, RngPoolAssumption DEF Holder
<1> QED BY <1>1, <1>2, <1>3, Outside

\* A step taken while the lock is free and stays so.
LEMMA Quiet ==
  ASSUME lock' = Nobody, \A u \in Threads : pc'[u] \notin Running
  PROVE  \A u \in Threads : Holder(u)' /\ Phase(u)'
BY Outside, RngPoolAssumption DEF Holder

\* While the lock is free no thread is inside read_pool.
LEMMA Free ==
  ASSUME IInv, lock = Nobody
  PROVE  \A u \in Threads : pc[u] \notin Running
BY RngPoolAssumption DEF IInv, Holder

\* A step of the lock's holder keeps the invariant if it keeps the types and
\* the pool honest, and if what is known of the place it reaches holds.
LEMMA HolderStep ==
  ASSUME IInv, NEW t \in Threads, pc[t] \in Running,
         pc' = [pc EXCEPT ![t] = pc'[t]], lock' \in {lock, Nobody},
         TypeOK', Honest(pool'), Holder(t)', Phase(t)'
  PROVE  IInv'
BY Others DEF IInv, Honest

\* The fork check keeps the invariant; a null pool or a length beyond POOLSIZE
\* ends the process.
LEMMA BeginKeeps ==
  ASSUME IInv, halt = "no", NEW t \in Threads, Begin(t)
  PROVE  IInv'
<1>1. /\ pc[t] \in Running /\ lock = t
      /\ pc' = [pc EXCEPT ![t] = pc'[t]]
      /\ lock' \in {lock, Nobody}
  BY DEF IInv, TypeOK, Holder, Running, Past, Begin, Goto
<1>2. pool' \in Pools /\ Honest(pool')
  <2>1. CASE pool' = pool
    BY <2>1 DEF IInv, TypeOK
  <2>2. CASE pool' # pool
    BY <2>2, NewPidKeeps DEF IInv, TypeOK, Begin, ForkChecked, Kept
  <2> QED BY <2>1, <2>2
<1>3. TypeOK'
  BY <1>2, RngPoolAssumption DEF IInv, TypeOK, Phase, Begin, Goto, Past, Places, NewMyPid, SIZE_MAX
<1>0. pool'.there = pool.there
  <2>1. CASE pool' = pool
    BY <2>1
  <2>2. CASE pool' # pool
    BY <2>2, NewPidKeeps DEF IInv, TypeOK, Begin, ForkChecked, Kept
  <2> QED BY <2>1, <2>2
<1>4. Holder(t)' /\ Phase(t)'
  BY <1>0, <1>1, <1>2, <1>3, RngPoolAssumption DEF IInv, TypeOK, Holder, Phase, At,
     VeryStrong, Running, Past, Begin, Goto, NewMyPid, SIZE_MAX
<1> QED BY <1>1, <1>2, <1>3, <1>4, HolderStep

\* Reading the seed file, or failing to, keeps the invariant.
LEMMA ReadSeedKeeps ==
  ASSUME IInv, halt = "no", NEW t \in Threads, ReadSeed(t)
  PROVE  IInv'
<1>1. /\ pc[t] \in Running /\ lock = t
      /\ pc' = [pc EXCEPT ![t] = pc'[t]]
      /\ lock' \in {lock, Nobody}
  BY DEF IInv, TypeOK, Holder, Running, Past, ReadSeed, Goto, Gather
<1>2. pool' \in Pools /\ Honest(pool')
  BY SeedKeeps DEF IInv, TypeOK, ReadSeed
<1>3. TypeOK'
  BY <1>2, RngPoolAssumption DEF IInv, TypeOK, Phase, ReadSeed, Goto, Past, Places, Gather, INIT
<1>4. Holder(t)' /\ Phase(t)'
  BY <1>1, <1>2, <1>3, RngPoolAssumption, SeedKeeps DEF IInv, TypeOK, Holder, Phase, At,
     VeryStrong, Running, Past, ReadSeed, Goto, Gather, INIT
<1> QED BY <1>1, <1>2, <1>3, <1>4, HolderStep

\* Setting pool_filled after a seed file keeps the invariant.
LEMMA SeededKeeps ==
  ASSUME IInv, halt = "no", NEW t \in Threads, Seeded(t)
  PROVE  IInv'
<1>1. /\ pc[t] \in Running /\ lock = t
      /\ pc' = [pc EXCEPT ![t] = pc'[t]]
      /\ lock' \in {lock, Nobody}
  BY DEF IInv, TypeOK, Holder, Running, Past, Seeded, Goto
<1>2. pool' \in Pools /\ Honest(pool')
  <2>1. pool.seeded
    BY DEF IInv, Phase, At, Seeded, Goto
  <2>2. pool' \in Pools
    BY DEF IInv, TypeOK, Seeded, Pools
  <2>3. /\ pool'.filled /\ pool'.seeded = pool.seeded
        /\ pool'.balance = pool.balance /\ pool'.fresh = pool.fresh
    BY DEF IInv, TypeOK, Seeded, Pools
  <2> QED BY <2>1, <2>2, <2>3 DEF IInv, Honest
<1>3. TypeOK'
  BY <1>2, RngPoolAssumption DEF IInv, TypeOK, Phase, Seeded, Goto, Past, Places, Pools
<1>4. Holder(t)' /\ Phase(t)'
  BY <1>1, <1>2, <1>3, RngPoolAssumption DEF IInv, TypeOK, Holder, Phase, At,
     VeryStrong, Running, Past, Seeded, Goto, Pools
<1> QED BY <1>1, <1>2, <1>3, <1>4, HolderStep

\* A filled pool needs no seed file.
LEMMA NoSeedKeeps ==
  ASSUME IInv, halt = "no", NEW t \in Threads, NoSeed(t)
  PROVE  IInv'
<1>1. /\ pc[t] \in Running /\ lock = t
      /\ pc' = [pc EXCEPT ![t] = pc'[t]]
      /\ lock' \in {lock, Nobody}
  BY DEF IInv, TypeOK, Holder, Running, Past, NoSeed, Goto
<1>2. pool' \in Pools /\ Honest(pool')
  BY DEF IInv, TypeOK, NoSeed
<1>3. TypeOK'
  BY <1>2, RngPoolAssumption DEF IInv, TypeOK, Phase, NoSeed, Goto, Past, Places
<1>4. Holder(t)' /\ Phase(t)'
  BY <1>1, <1>2, <1>3, RngPoolAssumption DEF IInv, TypeOK, Holder, Phase, At,
     VeryStrong, Running, Past, NoSeed, Goto
<1> QED BY <1>1, <1>2, <1>3, <1>4, HolderStep

\* Starting the extra seeding keeps the invariant.
LEMMA ExtraKeeps ==
  ASSUME IInv, halt = "no", NEW t \in Threads, Extra(t)
  PROVE  IInv'
<1>1. /\ pc[t] \in Running /\ lock = t
      /\ pc' = [pc EXCEPT ![t] = pc'[t]]
      /\ lock' \in {lock, Nobody}
  BY DEF IInv, TypeOK, Holder, Running, Past, Extra, Goto, Gather
<1>2. pool' \in Pools /\ Honest(pool')
  <2>1. CASE pool' = pool
    BY <2>1 DEF IInv, TypeOK
  <2>2. CASE pool' # pool
    <3>1. /\ pool.extra \in BOOLEAN /\ pool.fresh \in Nat
          /\ pool' = Rebalanced(pool, 0, pool.extra, pool.fresh)
      BY <2>2 DEF IInv, TypeOK, Extra, Pools, Rebalanced
    <3>2. pool \in Pools /\ Honest(pool) /\ 0 \in 0..POOLSIZE /\ 0 <= pool.fresh
      BY <3>1, RngPoolAssumption DEF IInv, TypeOK
    <3> QED BY <3>1, <3>2, SetBalance
  <2> QED BY <2>1, <2>2
<1>0. Most(length, MinSeed) \in 0..POOLSIZE
  BY RngPoolAssumption DEF IInv, TypeOK, Phase, Extra, Goto, Gather, Past, Most, SIZE_MAX
<1>3. TypeOK'
  BY <1>0, <1>2 DEF IInv, TypeOK, Extra, Goto, Places, Gather, EXTRAPOLL
<1>4. Holder(t)' /\ Phase(t)'
  BY <1>1, <1>2, <1>3, RngPoolAssumption DEF IInv, TypeOK, Holder, Phase, At,
     VeryStrong, Running, Past, Extra, Goto, Gather, EXTRAPOLL, Most, Pools
<1> QED BY <1>1, <1>2, <1>3, <1>4, HolderStep

\* Entering the extra seeding into the balance keeps the invariant.
LEMMA ExtraDoneKeeps ==
  ASSUME IInv, halt = "no", NEW t \in Threads, ExtraDone(t)
  PROVE  IInv'
<1>1. /\ pc[t] \in Running /\ lock = t
      /\ pc' = [pc EXCEPT ![t] = pc'[t]]
      /\ lock' \in {lock, Nobody}
  BY DEF IInv, TypeOK, Holder, Running, Past, ExtraDone, Goto
<1>2. pool' \in Pools /\ Honest(pool')
  <2>1. /\ pool.balance = 0 /\ pool.fresh \in Nat
        /\ Most(length, MinSeed) \in 0..POOLSIZE
    BY RngPoolAssumption DEF IInv, TypeOK, Phase, At, ExtraDone, Goto, Past, Most,
       Pools, SIZE_MAX
  <2> DEFINE n == Most(length, MinSeed)
  <2>2. pool' = Rebalanced(pool, n, TRUE, pool.fresh + n)
    <3>1. pool' = [pool EXCEPT !.balance = pool.balance + n, !.extra = TRUE,
                               !.fresh = pool.fresh + n]
      BY DEF IInv, TypeOK, ExtraDone, Pools
    <3>2. pool.balance + n = n
      BY <2>1
    <3> QED BY <3>1, <3>2 DEF Rebalanced
  <2>3. /\ pool \in Pools /\ Honest(pool)
        /\ n \in 0..POOLSIZE /\ pool.fresh + n \in Nat /\ n <= pool.fresh + n
    BY <2>1 DEF IInv, TypeOK
  <2> HIDE DEF n
  <2>4. PICK e \in BOOLEAN : pool' = Rebalanced(pool, n, e, pool.fresh + n)
    BY <2>2, Zenon
  <2> QED BY <2>3, <2>4, SetBalance
<1>3. TypeOK'
  BY <1>2, RngPoolAssumption DEF IInv, TypeOK, Phase, ExtraDone, Goto, Past, Places, Pools
<1>4. Holder(t)' /\ Phase(t)'
  BY <1>1, <1>2, <1>3, RngPoolAssumption DEF IInv, TypeOK, Holder, Phase, At,
     VeryStrong, Running, Past, ExtraDone, Goto, Pools
<1> QED BY <1>1, <1>2, <1>3, <1>4, HolderStep

\* Asking for the entropy that is missing keeps the invariant.
LEMMA BalanceKeeps ==
  ASSUME IInv, halt = "no", NEW t \in Threads, Balance(t)
  PROVE  IInv'
<1>1. /\ pc[t] \in Running /\ lock = t
      /\ pc' = [pc EXCEPT ![t] = pc'[t]]
      /\ lock' \in {lock, Nobody}
  BY DEF IInv, TypeOK, Holder, Running, Past, Balance, Goto, Gather
<1>2. pool' \in Pools /\ Honest(pool')
  BY DEF IInv, TypeOK, Balance
<1>3. TypeOK'
  BY <1>2, RngPoolAssumption DEF IInv, TypeOK, Phase, Balance, Goto, Past, Places, Gather, EXTRAPOLL, Short, Pools
<1>4. Holder(t)' /\ Phase(t)'
  BY <1>1, <1>2, <1>3, RngPoolAssumption DEF IInv, TypeOK, Holder, Phase, At,
     VeryStrong, Running, Past, Balance, Goto, Gather, EXTRAPOLL, Short, Pools
<1> QED BY <1>1, <1>2, <1>3, <1>4, HolderStep

\* Entering the missing entropy into the balance keeps the invariant.
LEMMA BalanceDoneKeeps ==
  ASSUME IInv, halt = "no", NEW t \in Threads, BalanceDone(t)
  PROVE  IInv'
<1>1. /\ pc[t] \in Running /\ lock = t
      /\ pc' = [pc EXCEPT ![t] = pc'[t]]
      /\ lock' \in {lock, Nobody}
  BY DEF IInv, TypeOK, Holder, Running, Past, BalanceDone, Goto
<1>2. pool' \in Pools /\ Honest(pool')
  <2>1. /\ pool.balance \in 0..POOLSIZE /\ pool.fresh \in Nat
        /\ pool.balance <= pool.fresh /\ pool.balance < length
        /\ length \in 0..POOLSIZE /\ pool.extra \in BOOLEAN
    BY RngPoolAssumption DEF IInv, TypeOK, Phase, At, BalanceDone, Goto, Past, Honest,
       Pools, SIZE_MAX
  <2> DEFINE f == pool.fresh + (length - pool.balance)
  <2>2. f \in Nat /\ length <= f
    BY <2>1
  <2>3. pool' = Rebalanced(pool, length, pool.extra, f)
    BY <2>1 DEF IInv, TypeOK, BalanceDone, Pools, Rebalanced
  <2> HIDE DEF f
  <2> QED BY <2>1, <2>2, <2>3, SetBalance DEF IInv, TypeOK
<1>3. TypeOK'
  BY <1>2, RngPoolAssumption DEF IInv, TypeOK, Phase, BalanceDone, Goto, Past, Places, Pools
<1>4. Holder(t)' /\ Phase(t)'
  BY <1>1, <1>2, <1>3, RngPoolAssumption DEF IInv, TypeOK, Holder, Phase, At,
     VeryStrong, Running, Past, BalanceDone, Goto, Pools
<1> QED BY <1>1, <1>2, <1>3, <1>4, HolderStep

\* The loop that fills the pool keeps the invariant.
LEMMA FillKeeps ==
  ASSUME IInv, halt = "no", NEW t \in Threads, Fill(t)
  PROVE  IInv'
<1>1. /\ pc[t] \in Running /\ lock = t
      /\ pc' = [pc EXCEPT ![t] = pc'[t]]
      /\ lock' \in {lock, Nobody}
  BY DEF IInv, TypeOK, Holder, Running, Past, Fill, Goto, Gather
<1>2. pool' \in Pools /\ Honest(pool')
  BY DEF IInv, TypeOK, Fill
<1>3. TypeOK'
  BY <1>2, RngPoolAssumption DEF IInv, TypeOK, Phase, Fill, Goto, Past, Places, Gather, SLOWPOLL
<1>4. Holder(t)' /\ Phase(t)'
  BY <1>1, <1>2, <1>3, RngPoolAssumption DEF IInv, TypeOK, Holder, Phase, At,
     VeryStrong, Running, Past, Fill, Goto, Gather, SLOWPOLL
<1> QED BY <1>1, <1>2, <1>3, <1>4, HolderStep

\* Bytes of a gatherer keep the invariant.
LEMMA DeliverKeeps ==
  ASSUME IInv, halt = "no", NEW t \in Threads, Deliver(t)
  PROVE  IInv'
<1>0. Kept(pool, pool')
  <2> PICK n \in 1..Least(Chunk, job.left) : pool' = AddRandomness(pool, n, job.origin)
    BY DEF Deliver
  <2>1. n \in 0..POOLSIZE /\ job.origin \in 0..4
    BY RngPoolAssumption DEF IInv, TypeOK, Least
  <2> QED BY <2>1, AddKeeps DEF IInv, TypeOK
<1>1. /\ pc[t] \in Running /\ lock = t
      /\ pc' = [pc EXCEPT ![t] = pc'[t]]
      /\ lock' \in {lock, Nobody}
  BY DEF IInv, TypeOK, Holder, Running, Past, Deliver, Goto
<1>2. pool' \in Pools /\ Honest(pool')
  BY <1>0 DEF Kept
<1>3. TypeOK'
  BY <1>2, RngPoolAssumption DEF IInv, TypeOK, Phase, Deliver, Goto, Past, Places, Least
<1>4. Holder(t)' /\ Phase(t)'
  BY <1>1, <1>2, <1>3, RngPoolAssumption, <1>0 DEF IInv, TypeOK, Holder, Phase, At,
     VeryStrong, Running, Past, Deliver, Goto, Least, Kept
<1> QED BY <1>1, <1>2, <1>3, <1>4, HolderStep

\* The end of a gathering keeps the invariant.
LEMMA GatheredKeeps ==
  ASSUME IInv, halt = "no", NEW t \in Threads, Gathered(t)
  PROVE  IInv'
<1>1. /\ pc[t] \in Running /\ lock = t
      /\ pc' = [pc EXCEPT ![t] = pc'[t]]
      /\ lock' \in {lock, Nobody}
  BY DEF IInv, TypeOK, Holder, Running, Past, Gathered, Goto
<1>2. pool' \in Pools /\ Honest(pool')
  BY DEF IInv, TypeOK, Gathered
<1>3. TypeOK'
  BY <1>2, RngPoolAssumption DEF IInv, TypeOK, Phase, Gathered, Goto, Past, Places
<1>4. Holder(t)' /\ Phase(t)'
  BY <1>1, <1>2, <1>3, RngPoolAssumption DEF IInv, TypeOK, Holder, Phase, At,
     VeryStrong, Running, Past, Gathered, Goto
<1> QED BY <1>1, <1>2, <1>3, <1>4, HolderStep

\* Giving out bytes keeps the invariant.
LEMMA OutputKeeps ==
  ASSUME IInv, halt = "no", NEW t \in Threads, Output(t)
  PROVE  IInv'
<1>0. /\ pool' \in Pools /\ Honest(pool')
      /\ pool'.there = pool.there /\ pool'.stamp = myPid
  <2> DEFINE q == DoFastPoll(pool)
             r == AddPid(q, myPid)
  <2>0. pool \in Pools /\ Honest(pool) /\ myPid \in 0..MaxPid /\ length \in Nat
    BY RngPoolAssumption DEF IInv, TypeOK, SIZE_MAX
  <2>1. Kept(pool, q)
    BY <2>0, PollKeeps
  <2>2. Kept(q, r) /\ r.stamp = myPid
    <3> HIDE DEF q
    <3> QED BY <2>0, <2>1, PidKeeps DEF Kept
  <2>3. pool' = Spend(r, length)
    BY DEF Output
  <2> HIDE DEF q, r
  <2> QED BY <2>0, <2>1, <2>2, <2>3, SpendKeeps DEF Kept
<1>1. /\ pc[t] \in Running /\ lock = t
      /\ pc' = [pc EXCEPT ![t] = pc'[t]]
      /\ lock' \in {lock, Nobody}
  BY DEF IInv, TypeOK, Holder, Running, Past, Output, Goto
<1>2. pool' \in Pools /\ Honest(pool')
  BY <1>0
<1>3. TypeOK'
  BY <1>2, RngPoolAssumption DEF IInv, TypeOK, Phase, Output, Goto, Past, Places, SIZE_MAX
<1>4. Holder(t)' /\ Phase(t)'
  BY <1>1, <1>2, <1>3, RngPoolAssumption, <1>0 DEF IInv, TypeOK, Holder, Phase, At,
     VeryStrong, Running, Past, Output, Goto, SIZE_MAX
<1> QED BY <1>1, <1>2, <1>3, <1>4, HolderStep

\* The second fork check keeps the invariant.
LEMMA ReforkKeeps ==
  ASSUME IInv, halt = "no", NEW t \in Threads, Refork(t)
  PROVE  IInv'
<1>1. /\ pc[t] \in Running /\ lock = t
      /\ pc' = [pc EXCEPT ![t] = pc'[t]]
      /\ lock' \in {lock, Nobody}
  BY DEF IInv, TypeOK, Holder, Running, Past, Refork, Goto
<1>2. pool' \in Pools /\ Honest(pool')
  BY NewPidKeeps DEF IInv, TypeOK, Refork, Kept
<1>3. TypeOK'
  BY <1>2, RngPoolAssumption DEF IInv, TypeOK, Phase, Refork, Goto, Past, Places
<1>4. Holder(t)' /\ Phase(t)'
  BY <1>1, <1>2, <1>3, RngPoolAssumption DEF IInv, TypeOK, Holder, Phase, At,
     VeryStrong, Running, Past, Refork, Goto
<1> QED BY <1>1, <1>2, <1>3, <1>4, HolderStep

\* Going on with the next portion, or unlocking, keeps the invariant.
LEMMA LeaveKeeps ==
  ASSUME IInv, halt = "no", NEW t \in Threads, Leave(t)
  PROVE  IInv'
<1> DEFINE rest == req[t].left - Portion(req[t].left)
<1>0. rest \in Nat /\ Portion(rest) \in 0..POOLSIZE
  BY RngPoolAssumption DEF IInv, TypeOK, Portion, Least
<1> HIDE DEF Portion
<1>1. /\ pc[t] \in Running /\ lock = t
      /\ pc' = [pc EXCEPT ![t] = pc'[t]]
      /\ lock' \in {lock, Nobody}
  BY DEF IInv, TypeOK, Holder, Running, Past, Leave, Goto
<1>2. pool' \in Pools /\ Honest(pool')
  BY DEF IInv, TypeOK, Leave
<1>3. TypeOK'
  BY <1>2, RngPoolAssumption, <1>0 DEF IInv, TypeOK, Phase, Leave, Goto, Past, Places, SIZE_MAX
<1>4. Holder(t)' /\ Phase(t)'
  BY <1>1, <1>2, <1>3, RngPoolAssumption, <1>0 DEF IInv, TypeOK, Holder, Phase, At,
     VeryStrong, Running, Past, Leave, Goto, SIZE_MAX
<1> QED BY <1>1, <1>2, <1>3, <1>4, HolderStep

\* Allocating the pool for a request keeps the invariant.
LEMMA InitializeKeeps ==
  ASSUME IInv, halt = "no", NEW t \in Threads, Initialize(t)
  PROVE  IInv'
<1>1. \A u \in Threads : pc[u] \notin Running
  BY Free DEF Initialize, Locked
<1>2. pool' \in Pools /\ Honest(pool')
  <2>1. CASE pool' = pool
    BY <2>1 DEF IInv, TypeOK
  <2>2. CASE pool' # pool
    <3>1. pool' = [pool EXCEPT !.there = TRUE]
      BY <2>2 DEF Initialize, Allocated
    <3>2. pool' \in Pools
      BY <3>1 DEF IInv, TypeOK, Pools
    <3>3. /\ pool'.balance = pool.balance /\ pool'.fresh = pool.fresh
          /\ pool'.filled = pool.filled /\ pool'.seeded = pool.seeded
          /\ pool'.counter = pool.counter /\ pool'.reliable = pool.reliable
      BY <3>1 DEF IInv, TypeOK, Pools
    <3> QED BY <3>2, <3>3 DEF IInv, Honest
  <2> QED BY <2>1, <2>2
<1>3. TypeOK'
  BY <1>2, RngPoolAssumption DEF IInv, TypeOK, Locked, Goto, Places, Initialize
<1>4. lock' = Nobody /\ \A u \in Threads : pc'[u] \notin Running
  BY <1>1 DEF IInv, TypeOK, Running, Past, Initialize, Locked, Goto
<1>5. \A u \in Threads : Holder(u)' /\ Phase(u)'
  BY <1>4, Quiet
<1> QED BY <1>2, <1>3, <1>5 DEF IInv, Honest

\* Allocating the pool ahead of requests keeps the invariant.
LEMMA InitializeFullKeeps ==
  ASSUME IInv, halt = "no", NEW t \in Threads, InitializeFull(t)
  PROVE  IInv'
<1>1. \A u \in Threads : pc[u] \notin Running
  BY Free DEF InitializeFull, Locked
<1>2. pool' \in Pools /\ Honest(pool')
  <2>1. CASE pool' = pool
    BY <2>1 DEF IInv, TypeOK
  <2>2. CASE pool' # pool
    <3>1. pool' = [pool EXCEPT !.there = TRUE]
      BY <2>2 DEF InitializeFull, Allocated
    <3>2. pool' \in Pools
      BY <3>1 DEF IInv, TypeOK, Pools
    <3>3. /\ pool'.balance = pool.balance /\ pool'.fresh = pool.fresh
          /\ pool'.filled = pool.filled /\ pool'.seeded = pool.seeded
          /\ pool'.counter = pool.counter /\ pool'.reliable = pool.reliable
      BY <3>1 DEF IInv, TypeOK, Pools
    <3> QED BY <3>2, <3>3 DEF IInv, Honest
  <2> QED BY <2>1, <2>2
<1>3. TypeOK'
  BY <1>2, RngPoolAssumption DEF IInv, TypeOK, Locked, Goto, Places, InitializeFull
<1>4. lock' = Nobody /\ \A u \in Threads : pc'[u] \notin Running
  BY <1>1 DEF IInv, TypeOK, Running, Past, InitializeFull, Locked, Goto
<1>5. \A u \in Threads : Holder(u)' /\ Phase(u)'
  BY <1>4, Quiet
<1> QED BY <1>2, <1>3, <1>5 DEF IInv, Honest

\* A fast poll from outside keeps the invariant.
LEMMA FastPollKeeps ==
  ASSUME IInv, halt = "no", NEW t \in Threads, FastPoll(t)
  PROVE  IInv'
<1>1. \A u \in Threads : pc[u] \notin Running
  BY Free DEF FastPoll, Locked
<1>2. pool' \in Pools /\ Honest(pool')
  BY PollKeeps DEF IInv, TypeOK, FastPoll, Kept
<1>3. TypeOK'
  BY <1>2, RngPoolAssumption DEF IInv, TypeOK, Locked, Goto, Places, FastPoll
<1>4. lock' = Nobody /\ \A u \in Threads : pc'[u] \notin Running
  BY <1>1 DEF IInv, TypeOK, Running, Past, FastPoll, Locked, Goto
<1>5. \A u \in Threads : Holder(u)' /\ Phase(u)'
  BY <1>4, Quiet
<1> QED BY <1>2, <1>3, <1>5 DEF IInv, Honest

\* Bytes added by a caller keep the invariant.
LEMMA AddBytesKeeps ==
  ASSUME IInv, halt = "no", NEW t \in Threads, AddBytes(t)
  PROVE  IInv'
<1>1. \A u \in Threads : pc[u] \notin Running
  BY Free DEF AddBytes, Locked
<1>2. pool' \in Pools /\ Honest(pool')
  <2> PICK n \in 1..POOLSIZE : pool' = AddRandomness(pool, n, EXTERNAL)
    BY DEF AddBytes
  <2>1. n \in 0..POOLSIZE /\ EXTERNAL \in 0..4
    BY RngPoolAssumption DEF EXTERNAL
  <2> QED BY <2>1, AddKeeps DEF IInv, TypeOK, Kept
<1>3. TypeOK'
  BY <1>2, RngPoolAssumption DEF IInv, TypeOK, Locked, Goto, Places, AddBytes
<1>4. lock' = Nobody /\ \A u \in Threads : pc'[u] \notin Running
  BY <1>1 DEF IInv, TypeOK, Running, Past, AddBytes, Locked, Goto
<1>5. \A u \in Threads : Holder(u)' /\ Phase(u)'
  BY <1>4, Quiet
<1> QED BY <1>2, <1>3, <1>5 DEF IInv, Honest

\* Freeing the pool keeps the invariant.
LEMMA CloseFdsKeeps ==
  ASSUME IInv, halt = "no", NEW t \in Threads, CloseFds(t)
  PROVE  IInv'
<1>1. \A u \in Threads : pc[u] \notin Running
  BY Free DEF CloseFds, Locked
<1>2. pool' \in Pools /\ Honest(pool')
  BY RngPoolAssumption DEF CloseFds, Closed, NoPool, Pools, Honest
<1>3. TypeOK'
  BY <1>2, RngPoolAssumption DEF IInv, TypeOK, Locked, Goto, Places, CloseFds
<1>4. lock' = Nobody /\ \A u \in Threads : pc'[u] \notin Running
  BY <1>1 DEF IInv, TypeOK, Running, Past, CloseFds, Locked, Goto
<1>5. \A u \in Threads : Holder(u)' /\ Phase(u)'
  BY <1>4, Quiet
<1> QED BY <1>2, <1>3, <1>5 DEF IInv, Honest

\* A fork between calls keeps the invariant.
LEMMA ForkKeeps ==
  ASSUME IInv, halt = "no", NEW t \in Threads, Fork(t)
  PROVE  IInv'
<1>1. \A u \in Threads : pc[u] \notin Running
  BY Free DEF Fork, Locked
<1>2. pool' \in Pools /\ Honest(pool')
  BY DEF IInv, TypeOK, Fork
<1>3. TypeOK'
  BY <1>2, RngPoolAssumption DEF IInv, TypeOK, Locked, Goto, Places, Fork
<1>4. lock' = Nobody /\ \A u \in Threads : pc'[u] \notin Running
  BY <1>1 DEF IInv, TypeOK, Running, Past, Fork, Locked, Goto
<1>5. \A u \in Threads : Holder(u)' /\ Phase(u)'
  BY <1>4, Quiet
<1> QED BY <1>2, <1>3, <1>5 DEF IInv, Honest

\* Taking the lock keeps the invariant.
LEMMA EnterKeeps ==
  ASSUME IInv, halt = "no", NEW t \in Threads, Enter(t)
  PROVE  IInv'
<1>1. \A u \in Threads : pc[u] \notin Running
  BY Free DEF Enter
<1>2. \A u \in Threads \ {t} : pc'[u] = pc[u]
  BY DEF IInv, TypeOK, Enter, Goto
<1>3. TypeOK'
  BY RngPoolAssumption DEF IInv, TypeOK, Enter, Goto, Places, Portion, Least, SIZE_MAX
<1>4. \A u \in Threads \ {t} : Holder(u)' /\ Phase(u)'
  BY <1>1, <1>2, Outside, RngPoolAssumption DEF Holder, Enter
<1>5. Holder(t)' /\ Phase(t)'
  BY RngPoolAssumption DEF IInv, TypeOK, Enter, Goto, Holder, Phase, At, Running, Past
<1> QED BY <1>3, <1>4, <1>5 DEF IInv, Honest, Enter

\* A new request keeps the invariant.
LEMMA RandomizeKeeps ==
  ASSUME IInv, halt = "no", NEW t \in Threads, Randomize(t)
  PROVE  IInv'
<1>1. TypeOK'
  BY RngPoolAssumption DEF IInv, TypeOK, Randomize, Goto, Places, STRONG
<1>2. ASSUME NEW u \in Threads PROVE Holder(u)' /\ Phase(u)'
  <2>1. CASE u = t
    BY <2>1, RngPoolAssumption DEF IInv, TypeOK, Randomize, Goto, Holder, Phase, At,
       Running, Past
  <2>2. CASE u # t
    BY <2>2 DEF IInv, TypeOK, Randomize, Goto, Holder, Phase, At, VeryStrong
  <2> QED BY <2>1, <2>2
<1> QED BY <1>1, <1>2 DEF IInv, Honest, Randomize

\* A fork below read_pool keeps the invariant.
LEMMA PthForkKeeps ==
  ASSUME IInv, halt = "no", PthFork
  PROVE  IInv'
<1>1. TypeOK'
  BY RngPoolAssumption DEF IInv, TypeOK, PthFork
<1>2. \A u \in Threads : Holder(u)' /\ Phase(u)'
  BY DEF IInv, PthFork, Holder, Phase, At, VeryStrong
<1> QED BY <1>1, <1>2 DEF IInv, Honest, PthFork

-----------------------------------------------------------------------------
(* The theorems *)

\* The invariant holds before the first call.
LEMMA InitInv == Init => IInv
<1> SUFFICES ASSUME Init PROVE IInv
  OBVIOUS
<1>1. pool \in Pools /\ Honest(pool)
  BY RngPoolAssumption DEF Init, NoPool, Pools, Honest
<1>2. TypeOK
  BY <1>1, RngPoolAssumption DEF Init, TypeOK, Places, INIT, STRONG, SIZE_MAX
<1>3. \A t \in Threads : Holder(t) /\ Phase(t)
  BY RngPoolAssumption DEF Init, Holder, Phase, At, Running, Past
<1> QED BY <1>1, <1>2, <1>3 DEF IInv

\* Every step keeps the invariant.
LEMMA NextInv == IInv /\ [Next]_vars => IInv'
<1> SUFFICES ASSUME IInv, [Next]_vars PROVE IInv'
  OBVIOUS
<1>1. CASE UNCHANGED vars
  BY <1>1 DEF IInv, TypeOK, Honest, Holder, Phase, At, VeryStrong, vars
<1>2. ASSUME NEW t \in Threads, Step(t) PROVE IInv'
  <2>0. halt = "no"
    BY <1>2 DEF Step
  <2>1. CASE Initialize(t)
    BY <2>0, <2>1, InitializeKeeps
  <2>2. CASE Enter(t)
    BY <2>0, <2>2, EnterKeeps
  <2>3. CASE Begin(t)
    BY <2>0, <2>3, BeginKeeps
  <2>4. CASE ReadSeed(t)
    BY <2>0, <2>4, ReadSeedKeeps
  <2>5. CASE Seeded(t)
    BY <2>0, <2>5, SeededKeeps
  <2>6. CASE NoSeed(t)
    BY <2>0, <2>6, NoSeedKeeps
  <2>7. CASE Extra(t)
    BY <2>0, <2>7, ExtraKeeps
  <2>8. CASE ExtraDone(t)
    BY <2>0, <2>8, ExtraDoneKeeps
  <2>9. CASE Balance(t)
    BY <2>0, <2>9, BalanceKeeps
  <2>10. CASE BalanceDone(t)
    BY <2>0, <2>10, BalanceDoneKeeps
  <2>11. CASE Fill(t)
    BY <2>0, <2>11, FillKeeps
  <2>12. CASE Deliver(t)
    BY <2>0, <2>12, DeliverKeeps
  <2>13. CASE Gathered(t)
    BY <2>0, <2>13, GatheredKeeps
  <2>14. CASE Output(t)
    BY <2>0, <2>14, OutputKeeps
  <2>15. CASE Refork(t)
    BY <2>0, <2>15, ReforkKeeps
  <2>16. CASE Leave(t)
    BY <2>0, <2>16, LeaveKeeps
  <2> QED BY <1>2, <2>1, <2>2, <2>3, <2>4, <2>5, <2>6, <2>7, <2>8, <2>9, <2>10, <2>11, <2>12, <2>13, <2>14, <2>15, <2>16 DEF Step
<1>3. ASSUME NEW t \in Threads, Call(t) PROVE IInv'
  <2>0. halt = "no"
    BY <1>3 DEF Call
  <2>1. CASE Randomize(t)
    BY <2>0, <2>1, RandomizeKeeps
  <2>2. CASE InitializeFull(t)
    BY <2>0, <2>2, InitializeFullKeeps
  <2>3. CASE FastPoll(t)
    BY <2>0, <2>3, FastPollKeeps
  <2>4. CASE AddBytes(t)
    BY <2>0, <2>4, AddBytesKeeps
  <2>5. CASE CloseFds(t)
    BY <2>0, <2>5, CloseFdsKeeps
  <2>6. CASE Fork(t)
    BY <2>0, <2>6, ForkKeeps
  <2> QED BY <1>3, <2>1, <2>2, <2>3, <2>4, <2>5, <2>6 DEF Call
<1>4. CASE halt = "no" /\ PthFork
  BY <1>4, PthForkKeeps
<1> QED BY <1>1, <1>2, <1>3, <1>4 DEF Next, Halted

\* The inductive invariant of the pool.
LEMMA AlwaysInv == Spec => []IInv
BY InitInv, NextInv, PTL DEF Spec

(* The write position stays inside the pool, pool_balance within POOLSIZE  *)
(* and every gathering asks for at most POOLSIZE bytes, so that no BUG ()  *)
(* of read_pool and no index outside of rndpool is met.                    *)
THEOREM RngPoolType == Spec => []TypeOK
<1>1. IInv => TypeOK
  BY DEF IInv
<1> QED BY <1>1, AlwaysInv, PTL

(* No byte is given out by a pool that was not seeded since it was         *)
(* allocated.                                                              *)
THEOREM RngPoolSeeded == Spec => OutputSeeded
<1>1. IInv /\ IInv' /\ [Next]_vars =>
        [\A t \in Threads : Serves(t) =>
           /\ pool.there
           /\ pool.seeded \/ pool.reliable = POOLSIZE]_vars
  <2> SUFFICES ASSUME IInv, [Next]_vars, NEW t \in Threads, Serves(t)
               PROVE  pool.there /\ (pool.seeded \/ pool.reliable = POOLSIZE)
    BY DEF vars
  <2>1. halt = "no" \/ UNCHANGED vars
    BY DEF Next, Step, Call, Halted
  <2>2. pc'[t] # pc[t]
    BY DEF Serves
  <2>3. halt = "no"
    BY <2>1, <2>2 DEF vars
  <2>4. pool.filled /\ pool.there
    BY <2>3 DEF IInv, Phase, Serves, Past
  <2> QED BY <2>4 DEF IInv, Honest
<1> QED BY <1>1, AlwaysInv, PTL DEF Spec, OutputSeeded

(* Every very strong byte is backed by a very strong byte gathered for it. *)
THEOREM RngPoolBacked == Spec => OutputBacked
<1>1. IInv /\ IInv' /\ [Next]_vars =>
        [\A t \in Threads :
           Serves(t) /\ VeryStrong(t) => pool.fresh >= length]_vars
  <2> SUFFICES ASSUME IInv, NEW t \in Threads, Serves(t), VeryStrong(t)
               PROVE  pool.fresh >= length
    BY DEF vars
  <2>1. length <= pool.balance /\ pool.balance <= pool.fresh
    BY DEF IInv, Phase, At, Serves, Honest
  <2>2. length \in Int /\ pool.balance \in Int /\ pool.fresh \in Int
    BY RngPoolAssumption DEF IInv, TypeOK, Pools, SIZE_MAX
  <2> QED BY <2>1, <2>2
<1> QED BY <1>1, AlwaysInv, PTL DEF Spec, OutputBacked

(* What read_pool returns was made with the pid of this very process.      *)
THEOREM RngPoolStamped == Spec => OutputStamped
<1>1. IInv /\ IInv' /\ [Next]_vars =>
        [\A t \in Threads :
           pc[t] = "check" /\ req'[t] # req[t] => pool.stamp = pid]_vars
  <2> SUFFICES ASSUME IInv, Next, NEW t \in Threads,
                      pc[t] = "check", req'[t] # req[t]
               PROVE  pool.stamp = pid
    BY DEF vars
  <2>1. pool.stamp = myPid
    BY DEF IInv, Phase
  <2>2. halt = "no"
    BY DEF Next, Step, Call, Halted, vars
  <2>3. myPid2 = myPid
    BY <2>2 DEF IInv, Phase, Past
  <2>4. ASSUME NEW u \in Threads, Step(u) PROVE pid = myPid2
    <3>1. Leave(u)
      BY <2>4 DEF Step, Initialize, Enter, Begin, ReadSeed, Seeded, NoSeed, Extra,
         ExtraDone, Balance, BalanceDone, Fill, Deliver, Gathered, Output, Refork
    <3> QED BY <3>1 DEF Leave
  <2>5. ASSUME NEW u \in Threads, Call(u) PROVE FALSE
    <3>1. Randomize(u)
      BY <2>5 DEF Call, InitializeFull, FastPoll, AddBytes, CloseFds, Fork
    <3> QED BY <3>1 DEF Randomize, Goto, IInv, TypeOK
  <2>6. ~PthFork /\ ~Halted
    BY <2>2 DEF PthFork, Halted
  <2> QED BY <2>1, <2>3, <2>4, <2>5, <2>6 DEF Next
<1> QED BY <1>1, AlwaysInv, PTL DEF Spec, OutputStamped

=============================================================================
