------------------------------ MODULE SeedFile ------------------------------
(***************************************************************************)
(* The random seed file, shared by processes that know nothing of each     *)
(* other (read_seed_file, lock_seed_file and _gcry_rngcsprng_update_seed_  *)
(* file of src/random/random-csprng.c).                                    *)
(*                                                                         *)
(* A file is a sequence of pieces; a whole image has POOLSIZE of them.     *)
(* read and write move one piece at a time, since nothing but the lock     *)
(* keeps another process from getting in between.  A process may die       *)
(* anywhere, and a write may come to an end early.                         *)
(***************************************************************************)
EXTENDS Integers, Sequences, FiniteSets

CONSTANTS
  Procs,
  POOLSIZE,     \* pieces of an image
  Builds,       \* the kinds of build looked at
  MaxUpdates,   \* bound: updates started by all processes together
  MaxFaults     \* bound: deaths and failing system calls

ASSUME SeedFileAssumption ==
  /\ POOLSIZE \in Nat \ {0}
  /\ Builds \subseteq {"posix", "cygwin", "unlocked"}
  /\ MaxUpdates \in Nat /\ MaxFaults \in Nat

Hole   == -1                 \* a piece that was never written
NoFile == <<-2>>             \* open fails with ENOENT
Images == 0..MaxUpdates      \* image 0 is there from an earlier time
Whole(data) == \E i \in Images : data = [k \in 1..POOLSIZE |-> i]

VARIABLES
  build,     \* "unlocked" has no LOCK_SEED_FILE; Cygwin has it, and empties the
             \* file as it opens it to write all the same
  file,      \* NoFile, or the pieces of the file
  locks,     \* the processes that hold a lock on it, and its kind
  pc,        \* of each process
  filled,    \* pool_filled of each process
  allow,     \* allow_seed_file_update of each process
  buffer,    \* what each process has read so far
  image,     \* the image each process is writing
  offset,    \* and how much of it is written
  updates,   \* updates started so far
  faults,    \* deaths and failures so far
  fed        \* history: what each process fed into its pool

vars == <<build, file, locks, pc, filled, allow, buffer, image, offset, updates,
          faults, fed>>

Init ==
  /\ build \in Builds
  /\ file \in {NoFile, <<>>, [k \in 1..POOLSIZE |-> 0]}
  /\ locks = [p \in Procs |-> "none"]
  /\ pc = [p \in Procs |-> "idle"]
  /\ filled = [p \in Procs |-> FALSE]
  /\ allow = [p \in Procs |-> FALSE]
  /\ buffer = [p \in Procs |-> <<>>]
  /\ image = [p \in Procs |-> 0]
  /\ offset = [p \in Procs |-> 0]
  /\ updates = 0
  /\ faults = 0
  /\ fed = [p \in Procs |-> <<>>]

\* LOCK_SEED_FILE
locking == build # "unlocked"

Goto(p, from, to) == pc[p] = from /\ pc' = [pc EXCEPT ![p] = to]

\* close drops the lock of the process; so does its end.
Unlocked(p) == [locks EXCEPT ![p] = "none"]

\* fcntl (F_SETLK) of process p would succeed.
LockFree(p, kind) ==
  \A q \in Procs \ {p} : locks[q] = "none" \/ (kind = "read" /\ locks[q] = "read")

\* Mutant: a reader goes on without a lock.
Lock_Ignored(p, kind) == UNCHANGED locks

\* The loop of lock_seed_file ends, or there is no locking.
Lock(p, kind) ==
  IF locking
  THEN LockFree(p, kind) /\ locks' = [locks EXCEPT ![p] = kind]
  ELSE UNCHANGED locks

\* EAGAIN or EACCES: lock_seed_file sleeps and tries again.
Retry(p) ==
  /\ locking
  /\ \/ pc[p] = "rlock" /\ ~LockFree(p, "read")
     \/ pc[p] = "wlock" /\ ~LockFree(p, "write")
  /\ UNCHANGED vars

-----------------------------------------------------------------------------
(* read_seed_file *)

OpenRead(p) ==
  /\ ~filled[p]
  /\ IF file = NoFile
     THEN Goto(p, "idle", "poll") /\ allow' = [allow EXCEPT ![p] = TRUE]
     ELSE Goto(p, "idle", "rlock") /\ UNCHANGED allow
  /\ buffer' = [buffer EXCEPT ![p] = <<>>]
  /\ UNCHANGED <<build, file, locks, filled, image, offset, updates, faults, fed>>

LockRead(p) ==
  /\ Goto(p, "rlock", "stat")
  /\ Lock(p, "read")
  /\ UNCHANGED <<build, file, filled, allow, buffer, image, offset, updates, faults, fed>>

\* st_size == POOLSIZE
Usable(data) == Len(data) = POOLSIZE

\* Mutant: the file is not closed when it cannot be used.
Stat_LeftOpen(p) ==
  /\ Goto(p, "stat", IF Usable(file) THEN "read" ELSE "poll")
  /\ allow' = [allow EXCEPT ![p] = @ \/ file = <<>>]
  /\ UNCHANGED <<build, file, locks, filled, buffer, image, offset, updates, faults, fed>>

\* fstat: a file that is empty or of another size is not used.
Stat(p) ==
  /\ IF Usable(file)
     THEN Goto(p, "stat", "read") /\ UNCHANGED <<locks, allow>>
     ELSE /\ Goto(p, "stat", "poll")
          /\ locks' = Unlocked(p)
          /\ allow' = [allow EXCEPT ![p] = @ \/ file = <<>>]
  /\ UNCHANGED <<build, file, filled, buffer, image, offset, updates, faults, fed>>

ReadPiece(p) ==
  /\ pc[p] = "read"
  /\ Len(buffer[p]) < POOLSIZE
  /\ Len(file) > Len(buffer[p])
  /\ buffer' = [buffer EXCEPT ![p] = Append(@, file[Len(@) + 1])]
  /\ UNCHANGED <<build, file, locks, pc, filled, allow, image, offset, updates, faults,
                 fed>>

\* n != POOLSIZE: log_fatal
ReadShort(p) ==
  /\ Len(buffer[p]) < POOLSIZE
  /\ Len(file) <= Len(buffer[p])
  /\ Goto(p, "read", "fatal")
  /\ locks' = Unlocked(p)
  /\ UNCHANGED <<build, file, filled, allow, buffer, image, offset, updates, faults, fed>>

\* close, add_randomness; pool_filled is set by the caller.
Feed(p) ==
  /\ Len(buffer[p]) = POOLSIZE
  /\ Goto(p, "read", "idle")
  /\ locks' = Unlocked(p)
  /\ fed' = [fed EXCEPT ![p] = buffer[p]]
  /\ filled' = [filled EXCEPT ![p] = TRUE]
  /\ allow' = [allow EXCEPT ![p] = TRUE]
  /\ UNCHANGED <<build, file, buffer, image, offset, updates, faults>>

\* Without a seed, random_poll fills the pool.
Poll(p) ==
  /\ Goto(p, "poll", "idle")
  /\ filled' = [filled EXCEPT ![p] = TRUE]
  /\ UNCHANGED <<build, file, locks, allow, buffer, image, offset, updates, faults, fed>>

-----------------------------------------------------------------------------
(* _gcry_rngcsprng_update_seed_file *)

\* Mutant: the file is emptied as it is opened, before the lock is held.
Opened_Emptied == <<>>

\* open with O_CREAT, and with O_TRUNC where the file cannot be locked and,
\* although it can be, on Cygwin.
Opened == IF file = NoFile \/ build # "posix" THEN <<>> ELSE file

Update(p) ==
  /\ filled[p]
  /\ allow[p]
  /\ updates < MaxUpdates
  /\ Goto(p, "idle", "wlock")
  /\ file' = Opened
  /\ updates' = updates + 1
  /\ image' = [image EXCEPT ![p] = updates + 1]
  /\ offset' = [offset EXCEPT ![p] = 0]
  /\ UNCHANGED <<build, locks, filled, allow, buffer, faults, fed>>

LockWrite(p) ==
  /\ Goto(p, "wlock", IF locking THEN "trunc" ELSE "write")
  /\ Lock(p, "write")
  /\ UNCHANGED <<build, file, filled, allow, buffer, image, offset, updates, faults, fed>>

Truncate(p) ==
  /\ Goto(p, "trunc", "write")
  /\ file' = <<>>
  /\ UNCHANGED <<build, locks, filled, allow, buffer, image, offset, updates, faults, fed>>

\* The file with piece x at position k, and holes before it if it was shorter.
Put(data, k, x) ==
  [i \in 1..(IF k > Len(data) THEN k ELSE Len(data)) |->
     IF i = k THEN x ELSE IF i <= Len(data) THEN data[i] ELSE Hole]

WritePiece(p) ==
  /\ pc[p] = "write"
  /\ offset[p] < POOLSIZE
  /\ file' = Put(file, offset[p] + 1, image[p])
  /\ offset' = [offset EXCEPT ![p] = @ + 1]
  /\ UNCHANGED <<build, locks, pc, filled, allow, buffer, image, updates, faults, fed>>

\* Mutant: the file is closed without waiting for all of it.
CloseWrite_Early(p) ==
  /\ offset[p] > 0
  /\ Goto(p, "write", "idle")
  /\ locks' = Unlocked(p)
  /\ UNCHANGED <<build, file, filled, allow, buffer, image, offset, updates, faults, fed>>

CloseWrite(p) ==
  /\ offset[p] = POOLSIZE
  /\ Goto(p, "write", "idle")
  /\ locks' = Unlocked(p)
  /\ UNCHANGED <<build, file, filled, allow, buffer, image, offset, updates, faults, fed>>

-----------------------------------------------------------------------------
(* What may go wrong *)

\* open, fcntl, fstat, ftruncate or write fails: the file is closed and the
\* process goes on, after a failed read with random_poll.
Fail(p) ==
  /\ faults < MaxFaults
  /\ faults' = faults + 1
  /\ \/ pc[p] \in {"rlock", "stat"} /\ pc' = [pc EXCEPT ![p] = "poll"]
     \/ pc[p] \in {"wlock", "trunc", "write"} /\ pc' = [pc EXCEPT ![p] = "idle"]
  /\ locks' = Unlocked(p)
  /\ UNCHANGED <<build, file, filled, allow, buffer, image, offset, updates, fed>>

\* External: the process dies, and another one is started in its place.
Die(p) ==
  /\ faults < MaxFaults
  /\ faults' = faults + 1
  /\ locks' = Unlocked(p)
  /\ pc' = [pc EXCEPT ![p] = "idle"]
  /\ filled' = [filled EXCEPT ![p] = FALSE]
  /\ allow' = [allow EXCEPT ![p] = FALSE]
  /\ fed' = [fed EXCEPT ![p] = <<>>]
  /\ UNCHANGED <<build, file, buffer, image, offset, updates>>

Reading(p) == OpenRead(p) \/ LockRead(p) \/ Stat(p) \/ ReadPiece(p)
              \/ ReadShort(p) \/ Feed(p) \/ Poll(p)
Writing(p) == LockWrite(p) \/ Truncate(p) \/ WritePiece(p) \/ CloseWrite(p)

\* Every process has asked for random and no update is left to start.
Done == /\ \A p \in Procs : pc[p] = "fatal" \/ (pc[p] = "idle" /\ filled[p])
        /\ UNCHANGED vars

Next ==
  \/ \E p \in Procs :
       Reading(p) \/ Writing(p) \/ Retry(p) \/ Update(p) \/ Fail(p) \/ Die(p)
  \/ Done

\* Processes run on; the retries of lock_seed_file meet a free lock.
Spec == Init /\ [][Next]_vars
        /\ \A p \in Procs : WF_vars(Reading(p)) /\ WF_vars(Writing(p))

-----------------------------------------------------------------------------
(* Properties *)

Places == {"idle", "rlock", "stat", "read", "poll", "wlock", "trunc", "write",
           "fatal"}

TypeOK ==
  /\ build \in {"posix", "cygwin", "unlocked"}
  /\ file = NoFile \/ \E n \in 0..POOLSIZE : file \in [1..n -> Images \cup {Hole}]
  /\ locks \in [Procs -> {"none", "read", "write"}]
  /\ pc \in [Procs -> Places]
  /\ filled \in [Procs -> BOOLEAN]
  /\ allow \in [Procs -> BOOLEAN]
  /\ buffer \in [Procs -> Seq(Images \cup {Hole})]
  /\ fed \in [Procs -> Seq(Images \cup {Hole})]
  /\ image \in [Procs -> 0..updates]
  /\ offset \in [Procs -> 0..POOLSIZE]
  /\ \A p \in Procs : Len(buffer[p]) <= POOLSIZE
  /\ updates \in 0..MaxUpdates
  /\ faults \in 0..MaxFaults

(* What read_seed_file feeds into the pool is one image, as one update     *)
(* wrote it: never a mixture of two, nor the rest of an update cut short.  *)
(* This is what the lock is for.  Where the file is not locked, and on     *)
(* Cygwin, where it is emptied before it is locked, this does not hold.    *)
OneImage == build = "posix" => \A p \in Procs : fed[p] = <<>> \/ Whole(fed[p])

(* Processes can share the file: none is ended by log_fatal ("can't read   *)
(* ...") only because another one updates the file while it is read.  It   *)
(* holds in neither of the builds that empty the file as they open it,     *)
(* before or without a lock: see the README.                               *)
NeverFatal == \A p \in Procs : pc[p] # "fatal"

(* The same, where the file is emptied only once it is locked. *)
LockedNeverFatal == build = "posix" => NeverFatal

(* As long as nothing fails, the file is whole, empty or absent whenever   *)
(* no process holds it locked: a reader that finds it unlocked can use it  *)
(* or knows that it may write it.  Again this is so only where the file is *)
(* emptied under the lock, and not after a process died as it wrote.       *)
RestsUsable ==
  build = "posix" /\ faults = 0 /\ (\A p \in Procs : locks[p] # "write") =>
    file \in {NoFile, <<>>} \/ Whole(file)

\* Whoever waits for a lock gets it: every read and every update ends.
Finishes == \A p \in Procs : (pc[p] # "idle") ~> (pc[p] \in {"idle", "fatal"})

=============================================================================
