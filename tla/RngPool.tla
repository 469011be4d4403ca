------------------------------- MODULE RngPool -------------------------------
(***************************************************************************)
(* The entropy pool of the standard random number generator                *)
(* (src/random/random-csprng.c).                                           *)
(*                                                                         *)
(* Bytes are counted, not kept: what matters is how many came from which   *)
(* origin, where the write position stands, and what the bookkeeping       *)
(* (pool_filled, pool_balance, just_mixed, my_pid) claims about them.  The *)
(* pool lock serialises the threads; steps inside it are separate because  *)
(* a gatherer blocks there, and because a fork may happen meanwhile under  *)
(* a thread library like GNU Pth.                                          *)
(***************************************************************************)
EXTENDS Integers

CONSTANTS
  Threads,
  POOLSIZE,
  MinSeed,    \* the 16 bytes that extra seeding gathers at least
  SeedBytes,  \* what read_seed_file gathers on top of the file: 32 or 128
  WordBytes,  \* the size of a pid_t, a time_t, a clock_t, scaled
  Chunk,      \* the buffer of a gatherer: the most it adds at once
  Lens,       \* the lengths callers ask for
  Levels,     \* the levels they ask for, masked by "level &= 3"
  QuickTest,  \* GCRYCTL_ENABLE_QUICK_RANDOM was used
  Closing,    \* GCRYCTL_CLOSE_RANDOM_DEVICE is used while threads run
  Pth,        \* the thread library may fork inside read_pool
  MaxPid      \* bound: number of processes, parent to child

\* enum random_origins
INIT == 0
EXTERNAL == 1
FASTPOLL == 2
SLOWPOLL == 3
EXTRAPOLL == 4

\* enum gcry_random_level
STRONG == 1
VERYSTRONG == 2

\* "while (length--)" leaves length at SIZE_MAX, scaled.
SIZE_MAX == 2 * POOLSIZE

Nobody == "nobody"

ASSUME RngPoolAssumption ==
  /\ POOLSIZE \in Nat \ {0}
  /\ MinSeed \in 1..POOLSIZE
  /\ SeedBytes \in 1..POOLSIZE
  /\ WordBytes \in 1..POOLSIZE
  /\ Chunk \in 1..POOLSIZE
  /\ Lens \subseteq Nat
  /\ Levels \subseteq 0..3
  /\ QuickTest \in BOOLEAN /\ Closing \in BOOLEAN /\ Pth \in BOOLEAN
  /\ MaxPid \in Nat \ {0}
  /\ Nobody \notin Threads

VARIABLES
  pool,     \* rndpool, its bookkeeping, and what really went into it
  pid,      \* getpid ()
  myPid,    \* the static my_pid; 0 for (pid_t)(-1)
  myPid2,   \* my_pid2 of the read_pool that is running
  lock,     \* the holder of pool_lock
  pc,       \* of each thread
  req,      \* of each thread: the bytes it still wants, and their level
  length,   \* LENGTH of the read_pool that is running
  job,      \* what the running read_random_source still has to deliver
  halt      \* "no", or how the process ended

vars == <<pool, pid, myPid, myPid2, lock, pc, req, length, job, halt>>

(* The first fields are the variables of the code.  The last four are      *)
(* history: bytes from reliable origins (up to POOLSIZE), whether a seed   *)
(* file was read, very strong bytes gathered and not yet handed out, and   *)
(* the last pid that went into it.                                         *)
NoPool ==
  [there |-> FALSE, writepos |-> 0, filled |-> FALSE, counter |-> 0,
   extra |-> FALSE, balance |-> 0, mixed |-> FALSE,
   reliable |-> 0, seeded |-> FALSE, fresh |-> 0, stamp |-> 0]

Least(a, b) == IF a < b THEN a ELSE b
Most(a, b)  == IF a > b THEN a ELSE b

-----------------------------------------------------------------------------
(* add_randomness, for n <= POOLSIZE: the write position wraps at most once.*)

Wraps(p, n) == p.writepos + n >= POOLSIZE

\* COUNT at the wrap: the bytes of this call up to it, and of no other call.
Counted(p, n) == POOLSIZE - p.writepos

\* Mutant: only an extra poll counts.
Counts_ExtraOnly(p, n, origin) == Wraps(p, n) /\ origin > SLOWPOLL /\ ~p.filled

Counts(p, n, origin) == Wraps(p, n) /\ origin >= SLOWPOLL /\ ~p.filled

NewCounter(p, n, origin) ==
  IF Counts(p, n, origin) THEN p.counter + Counted(p, n) ELSE p.counter

AddRandomness(p, n, origin) ==
  [p EXCEPT
     !.writepos = IF Wraps(p, n) THEN @ + n - POOLSIZE ELSE @ + n,
     !.counter  = NewCounter(p, n, origin),
     !.filled   = @ \/ /\ Counts(p, n, origin)
                       /\ NewCounter(p, n, origin) >= POOLSIZE,
     !.mixed    = IF Wraps(p, n) THEN p.writepos + n = POOLSIZE ELSE @,
     !.reliable = IF origin >= SLOWPOLL THEN Least(POOLSIZE, @ + n) ELSE @]

AddPid(p, x) == [AddRandomness(p, WordBytes, INIT) EXCEPT !.stamp = x]

\* The time or the clock, as read_seed_file and the fast poll add them.
Tick(p, origin) == AddRandomness(p, WordBytes, origin)

\* do_fast_random_poll: the time, the resource usage and the clock.
DoFastPoll(p) == Tick(Tick(Tick(p, FASTPOLL), FASTPOLL), FASTPOLL)

-----------------------------------------------------------------------------
Init ==
  /\ pool = NoPool
  /\ pid = 1
  /\ myPid = 0
  /\ myPid2 = 0
  /\ lock = Nobody
  /\ pc = [t \in Threads |-> "idle"]
  /\ req = [t \in Threads |-> [left |-> 0, level |-> STRONG]]
  /\ length = 0
  /\ job = [left |-> 0, origin |-> INIT, then |-> "fill"]
  /\ halt = "no"

Goto(t, from, to) == pc[t] = from /\ pc' = [pc EXCEPT ![t] = to]

\* Entering a section under pool_lock that is left in the same step.
Locked(t) == lock = Nobody /\ pc[t] = "idle"

\* rndpool and keypool are allocated; the bookkeeping is what it was.
Allocated == [pool EXCEPT !.there = TRUE]

\* _gcry_rngcsprng_randomize up to its call of initialize.
Randomize(t) ==
  /\ Goto(t, "idle", "init")
  /\ \E n \in Lens, level \in Levels :
       req' = [req EXCEPT ![t] = [left |-> n, level |->
                 IF QuickTest /\ level > STRONG THEN STRONG ELSE level]]
  /\ UNCHANGED <<pool, pid, myPid, myPid2, lock, length, job, halt>>

\* initialize, called by randomize: it takes and releases the lock.
Initialize(t) ==
  /\ lock = Nobody
  /\ Goto(t, "init", "enter")
  /\ pool' = IF pool.there THEN pool ELSE Allocated
  /\ UNCHANGED <<pid, myPid, myPid2, lock, req, length, job, halt>>

\* initialize, called by _gcry_rngcsprng_initialize and is_faked
InitializeFull(t) ==
  /\ Locked(t)
  /\ ~pool.there
  /\ pool' = Allocated
  /\ UNCHANGED <<pid, myPid, myPid2, lock, pc, req, length, job, halt>>

\* What one read_pool is asked for.
Portion(left) == Least(left, POOLSIZE)

\* lock_pool of randomize, and the first read_pool
Enter(t) ==
  /\ lock = Nobody
  /\ IF req[t].left = 0
     THEN Goto(t, "enter", "idle") /\ UNCHANGED <<lock, length>>
     ELSE /\ Goto(t, "enter", "begin")
          /\ lock' = t
          /\ length' = Portion(req[t].left)
  /\ UNCHANGED <<pool, pid, myPid, myPid2, req, job, halt>>

-----------------------------------------------------------------------------
(* read_pool, with the lock held *)

\* A changed pid means that this is a child: mix the new pid in.
ForkChecked(p) ==
  IF myPid \in {0, pid} THEN p ELSE [AddPid(p, pid) EXCEPT !.mixed = FALSE]

\* Mutant: my_pid is set once.
NewMyPid_Once == IF myPid = 0 THEN pid ELSE myPid

NewMyPid == pid

Begin(t) ==
  /\ Goto(t, "begin", "seed")
  /\ IF ~pool.there
     THEN halt' = "null" /\ UNCHANGED <<pool, myPid, myPid2>>
     ELSE /\ pool' = ForkChecked(pool)
          /\ myPid' = NewMyPid
          /\ myPid2' = pid
          /\ halt' = IF length > POOLSIZE THEN "bug" ELSE "no"
  /\ UNCHANGED <<pid, lock, req, length, job>>

\* read_random_source (origin, n, level), then go on at THEN.
Gather(t, from, n, origin, then) ==
  /\ Goto(t, from, "gather")
  /\ job' = [left |-> n, origin |-> origin, then |-> then]

\* The contents of the seed file, the pid, the time and the clock.
SeedAdded(p) ==
  [Tick(Tick(AddPid(AddRandomness(p, POOLSIZE, INIT), pid), INIT), INIT)
     EXCEPT !.seeded = TRUE]

\* read_seed_file, when it is read.  Its log_fatal for a short read is here.
ReadSeed(t) ==
  /\ ~pool.filled
  /\ \/ /\ Gather(t, "seed", SeedBytes, INIT, "seeded")
        /\ pool' = SeedAdded(pool)
        /\ halt' = "no"
     \/ /\ Goto(t, "seed", "extra")
        /\ halt' \in {"no", "fatal"}
        /\ UNCHANGED <<pool, job>>
  /\ UNCHANGED <<pid, myPid, myPid2, lock, req, length>>

\* read_seed_file returned 1.
Seeded(t) ==
  /\ Goto(t, "seeded", "extra")
  /\ pool' = [pool EXCEPT !.filled = TRUE]
  /\ UNCHANGED <<pid, myPid, myPid2, lock, req, length, job, halt>>

NoSeed(t) ==
  /\ pool.filled
  /\ Goto(t, "seed", "extra")
  /\ UNCHANGED <<pool, pid, myPid, myPid2, lock, req, length, job, halt>>

VeryStrong(t) == req[t].level = VERYSTRONG

\* The first very strong request makes sure of the initial seeding.
Extra(t) ==
  /\ IF VeryStrong(t) /\ ~pool.extra
     THEN /\ Gather(t, "extra", Most(length, MinSeed), EXTRAPOLL, "extraDone")
          /\ pool' = [pool EXCEPT !.balance = 0]
     ELSE Goto(t, "extra", "balance") /\ UNCHANGED <<pool, job>>
  /\ UNCHANGED <<pid, myPid, myPid2, lock, req, length, halt>>

ExtraDone(t) ==
  /\ Goto(t, "extraDone", "balance")
  /\ pool' = [pool EXCEPT !.balance = @ + Most(length, MinSeed),
                          !.extra = TRUE,
                          !.fresh = @ + Most(length, MinSeed)]
  /\ UNCHANGED <<pid, myPid, myPid2, lock, req, length, job, halt>>

\* Mutant: the whole length is not looked at.
Short_Empty == pool.balance = 0

Short == pool.balance < length

\* Every very strong request makes sure of enough fresh entropy.
Balance(t) ==
  /\ IF VeryStrong(t) /\ Short
     THEN Gather(t, "balance", length - pool.balance, EXTRAPOLL, "balanceDone")
     ELSE Goto(t, "balance", "fill") /\ UNCHANGED job
  /\ UNCHANGED <<pool, pid, myPid, myPid2, lock, req, length, halt>>

BalanceDone(t) ==
  /\ Goto(t, "balanceDone", "fill")
  /\ pool' = [pool EXCEPT !.balance = length,
                          !.fresh = @ + (length - pool.balance)]
  /\ UNCHANGED <<pid, myPid, myPid2, lock, req, length, job, halt>>

\* while (!pool_filled) random_poll ();
Fill(t) ==
  /\ IF pool.filled
     THEN Goto(t, "fill", "output") /\ UNCHANGED job
     ELSE Gather(t, "fill", POOLSIZE \div 5, SLOWPOLL, "fill")
  /\ UNCHANGED <<pool, pid, myPid, myPid2, lock, req, length, halt>>

\* External: slow_gather_fnc adds what it gets in pieces, or gives up.
Deliver(t) ==
  /\ pc[t] = "gather"
  /\ job.left > 0
  /\ \E n \in 1..Least(Chunk, job.left) :
       /\ pool' = AddRandomness(pool, n, job.origin)
       /\ job' = [job EXCEPT !.left = @ - n]
  /\ halt' \in {"no", "fatal"}
  /\ UNCHANGED <<pid, myPid, myPid2, lock, pc, req, length>>

Gathered(t) ==
  /\ job.left = 0
  /\ Goto(t, "gather", job.then)
  /\ UNCHANGED <<pool, pid, myPid, myPid2, lock, req, length, job, halt>>

\* pool_balance-- for each byte, then no less than 0
Spend(p, n) == [p EXCEPT !.balance = Most(0, @ - n), !.fresh = Most(0, @ - n)]

\* The fast poll, the pid, the mixing of both pools and the copying.
Output(t) ==
  /\ Goto(t, "output", "check")
  /\ pool' = Spend(AddPid(DoFastPoll(pool), myPid), length)
  /\ length' = SIZE_MAX
  /\ UNCHANGED <<pid, myPid, myPid2, lock, req, job, halt>>

\* The second look for a fork, which starts over.
Refork(t) ==
  /\ pid # myPid2
  /\ Goto(t, "check", "begin")
  /\ pool' = [AddPid(pool, pid) EXCEPT !.mixed = FALSE]
  /\ myPid' = pid
  /\ UNCHANGED <<pid, myPid2, lock, req, length, job, halt>>

\* The loop of randomize goes on, or unlock_pool ends it.
Leave(t) ==
  /\ pid = myPid2
  /\ LET rest == req[t].left - Portion(req[t].left)
     IN /\ req' = [req EXCEPT ![t].left = rest]
        /\ IF rest > 0
           THEN /\ Goto(t, "check", "begin")
                /\ length' = Portion(rest)
                /\ UNCHANGED lock
           ELSE /\ Goto(t, "check", "idle")
                /\ length' = 0
                /\ lock' = Nobody
  /\ UNCHANGED <<pool, pid, myPid, myPid2, job, halt>>

-----------------------------------------------------------------------------
(* Other users of the pool: each takes the lock for one step. *)

FastPoll(t) ==
  /\ Locked(t)
  /\ pool.there
  /\ pool' = DoFastPoll(pool)
  /\ UNCHANGED <<pid, myPid, myPid2, lock, pc, req, length, job, halt>>

\* An iteration of _gcry_rngcsprng_add_bytes.
AddBytes(t) ==
  /\ Locked(t)
  /\ pool.there
  /\ \E n \in 1..POOLSIZE : pool' = AddRandomness(pool, n, EXTERNAL)
  /\ UNCHANGED <<pid, myPid, myPid2, lock, pc, req, length, job, halt>>

\* Mutant: the pool is freed and still said to be filled.
Closed_Filled == [NoPool EXCEPT !.filled = pool.filled]

\* What _gcry_rngcsprng_close_fds leaves; my_pid is not touched.
Closed == NoPool

CloseFds(t) ==
  /\ Locked(t)
  /\ Closing
  /\ pool' = Closed
  /\ UNCHANGED <<pid, myPid, myPid2, lock, pc, req, length, job, halt>>

(* External: fork.  The child, which the model follows, has the thread     *)
(* that forked and no other.  A plain fork is made between calls of the    *)
(* library and while the lock is free.                                     *)
Fork(t) ==
  /\ pid < MaxPid
  /\ pid' = pid + 1
  /\ Locked(t)
  /\ pc' = [u \in Threads |-> IF u = t THEN "idle" ELSE "gone"]
  /\ UNCHANGED <<pool, myPid, myPid2, lock, req, length, job, halt>>

\* External: a fork below read_pool, by a thread library that runs all the
\* threads in the child.
PthFork ==
  /\ Pth
  /\ lock # Nobody
  /\ pid < MaxPid
  /\ pid' = pid + 1
  /\ UNCHANGED <<pool, myPid, myPid2, lock, pc, req, length, job, halt>>

\* log_bug, log_fatal or the access through a null pointer ended it.
Halted == halt # "no" /\ UNCHANGED vars

-----------------------------------------------------------------------------
\* The steps of a call that is under way.
Step(t) ==
  /\ halt = "no"
  /\ \/ Initialize(t) \/ Enter(t) \/ Begin(t) \/ ReadSeed(t) \/ Seeded(t)
     \/ NoSeed(t) \/ Extra(t) \/ ExtraDone(t) \/ Balance(t) \/ BalanceDone(t)
     \/ Fill(t) \/ Deliver(t) \/ Gathered(t) \/ Output(t) \/ Refork(t)
     \/ Leave(t)

Call(t) ==
  /\ halt = "no"
  /\ \/ Randomize(t) \/ InitializeFull(t) \/ FastPoll(t) \/ AddBytes(t)
     \/ CloseFds(t) \/ Fork(t)

Next ==
  \/ \E t \in Threads : Step(t) \/ Call(t)
  \/ halt = "no" /\ PthFork
  \/ Halted

\* A thread that holds the lock runs on: nothing it does under the lock waits
\* for another thread.
Spec == Init /\ [][Next]_vars /\ \A t \in Threads : WF_vars(Step(t))

-----------------------------------------------------------------------------
(* Properties *)

Places == {"idle", "init", "enter", "begin", "seed", "seeded", "extra",
           "extraDone", "balance", "balanceDone", "fill", "gather", "output",
           "check", "gone"}

Pools ==
  [there : BOOLEAN, writepos : 0..(POOLSIZE - 1), filled : BOOLEAN,
   counter : Nat, extra : BOOLEAN, balance : 0..POOLSIZE, mixed : BOOLEAN,
   reliable : 0..POOLSIZE, seeded : BOOLEAN, fresh : Nat,
   stamp : 0..MaxPid]

(* The write position stays inside the pool and the balance never claims   *)
(* more than a pool of entropy (the BUG () tests of read_pool).            *)
TypeOK ==
  /\ pool \in Pools
  /\ pid \in 1..MaxPid
  /\ myPid \in 0..pid
  /\ myPid2 \in 0..pid
  /\ lock \in Threads \cup {Nobody}
  /\ pc \in [Threads -> Places]
  /\ req \in [Threads -> [left : Nat, level : 0..3]]
  /\ length \in 0..SIZE_MAX
  /\ job \in [left : 0..POOLSIZE, origin : 0..4,
              then : {"seeded", "extraDone", "balanceDone", "fill"}]
  /\ halt \in {"no", "null", "bug", "fatal"}

\* Thread t has just been given its bytes.
Serves(t) == pc[t] = "output" /\ pc'[t] = "check"

(* read_pool never gives out a byte of a pool that was not seeded since it *)
(* was allocated, by a seed file or by POOLSIZE bytes of a slow poll: not  *)
(* after fast polls and external bytes, nor after close_fds and reopening. *)
OutputSeeded ==
  [][\A t \in Threads :
       Serves(t) => /\ pool.there
                    /\ pool.seeded \/ pool.reliable = POOLSIZE]_vars

(* Bytes of level GCRY_VERY_STRONG_RANDOM are covered by as many bytes     *)
(* gathered for that level and not given out to anyone since, whatever mix *)
(* of levels and lengths was asked for before.                             *)
OutputBacked ==
  [][\A t \in Threads :
       Serves(t) /\ VeryStrong(t) => pool.fresh >= length]_vars

(* When read_pool returns with bytes, the pid mixed in before they were    *)
(* copied is that of this process, wherever in the call or before it the   *)
(* process was forked.                                                     *)
OutputStamped ==
  [][\A t \in Threads :
       pc[t] = "check" /\ req'[t] # req[t] => pool.stamp = pid]_vars

(* log_bug ("too many random bits requested") and a null rndpool are never *)
(* met.  Closing the pool while another thread reads (Closing) and forking *)
(* during a read (Pth) break it: see the README.                           *)
NoBug == halt \notin {"bug", "null"}

\* A thread that took the pool lock gives it back or ends the process: the
\* loop that fills the pool ends.
Unlocks ==
  \A t \in Threads : (lock = t) ~> (lock # t \/ halt # "no")

=============================================================================
