# libgcrypt in TLA+

TLA+ models of the parts of libgcrypt that keep state between calls: secure
memory, the FIPS state machine, the entropy pool and its seed file, the
deterministic generator and the nonces, cipher handles with the authenticated
modes, digest handles with the buffering of the hashes, S-expressions, and
multi-precision integers. Each is model-checked with TLC on small instances. For
secure memory and the heap it implements, its pool list, the FIPS machine, the
entropy pool, the seed file, the deterministic generator and the nonces, the
cipher handles in all seven authenticated modes, and the digest handles,
TLAPS proofs cover every value of the constants.

Paths are relative to the repository root, called `src/` in `PROJECT.json`; so
`src/src/secmem.c` there is the repository's `src/secmem.c`.

## 1. The system

libgcrypt is a C library linked into applications. It has no threads of its own.
Its concurrency is that of the application: public functions may be called by
any thread once the library is initialised, a process may fork, and several
processes may share the one file the library keeps.

| Component | State it keeps | Operations | What is hard |
|---|---|---|---|
| Secure memory (`src/secmem.c`, `src/stdmem.c`) | pools made of blocks with in-band headers, list of overflow pools, flags, statistics | init, malloc, realloc, free, is_secure, set_flags, auto_expand, term | long sequences of splits and merges, wrap-around of sizes, the pool list read without a lock, policies that depend on the order of commands |
| FIPS machine (`src/fips.c`, `src/global.c`, `src/visibility.c`) | the state, mode flags | constructor, control commands, self-tests, gate of every public function, signalled errors | self-tests run outside the lock, answers that are stale when used, abort as the reaction to an unlisted transition |
| Standard RNG (`random/random-csprng.c`) | pool, write position, fill counter, balance, cached pid | randomize, add_bytes, fast_poll, update_seed_file, close_fds | forks, closing while others read, bookkeeping of bytes of different worth, a loop under the lock |
| Seed file (same file) | a file shared by processes | read, lock, truncate, write | writers and readers of unrelated processes, death in the middle |
| RNG dispatcher, nonces (`random/random.c`) | chosen RNG, nonce buffer, pid | set type, randomize, create_nonce | choice before and after initialisation, forks |
| DRBG (`random/random-drbg.c`) | V, C/Key, reseed counter, pid | instantiate, generate, reseed, reinit, health check | reseed limits, forks, errors in the middle of a request |
| System RNG, gatherers, jitter collector (`random/`) | callback buffers, health test counters | gather | short deliveries, cutoffs |
| Cipher handles and modes (`cipher/cipher*.c`) | key/iv/tag/finalize marks, unused bytes, lengths | open, setkey, setiv, authenticate, encrypt, gettag, reset | order of calls, streaming across block boundaries, counters at their limit |
| Digest and MAC handles (`cipher/md.c`, `hash-common.c`, `mac*.c`) | enabled algorithms, buffers, finalized flag | open, enable, write, final, read, copy, reset | buffering across blocks, copy and reset of finalised handles |
| Key derivation (`cipher/kdf.c`, `scrypt.c`) | Argon2 lanes, Balloon buffers | derive, or jobs run by the caller's threads | the schedule of segments |
| Public keys, KEM, primes (`cipher/`) | prime factor pool | stateless otherwise | number theory |
| S-expressions (`src/sexp.c`), MPI (`mpi/`) | immutable token strings; limb arrays | parse, print, take apart; arithmetic | nesting and lengths; carries and aliasing |
| Contexts, hardware features, logging | small | - | little |

How they interact: `xmalloc_secure` and `gcry_free` of every component end in
the secure memory module. The RNG allocates its pool there. `global.c`
initialises the FIPS machine, which decides which RNG is used and whether
overflow pools are allowed. Every function of `visibility.c` asks the machine
for permission, and self-test failures anywhere come back as signalled errors.
A self-test started by the gate closes the RNG's pool again
(`_gcry_random_close_fds`), which the RNG must survive.

`PROJECT.json` lists all components, and, at their lines, the hazards that the
properties below are aimed at.

## 2. Modules

| Module | Models | Run by | Proofs |
|---|---|---|---|
| `SecMem` | heap and policy of `src/secmem.c` | `MCSecMem` with `SecMemHeap.cfg`, `SecMemPolicy.cfg` | `SecMemProofs` |
| `SecureHeap` | the heap a caller sees, which `SecMem` implements | as a property of `SecMem` | `SecMemProofs` |
| `PoolList` | unlocked walk of `_gcry_private_is_secure` | `PoolList.cfg` | `SecMemProofs` |
| `FipsFsm` | FIPS machine, control commands, gates | `FipsProper.cfg` | `FipsFsmProofs` |
| `RngPool` | entropy pool | `RngPool.cfg` | `RngPoolProofs` |
| `SeedFile` | seed file | `SeedFile.cfg` | `SeedFileProofs` |
| `Drbg` | choice of the generator, DRBG, nonces | `Drbg.cfg` | `DrbgProofs` |
| `BlockBuffer` | buffers that feed GHASH, CMAC and Poly1305 | through the next two | `GcmProofs`, `CipherProofs` |
| `CipherModes` | routines of the seven authenticated modes | through the next one | `GcmProofs`, `CipherProofs` |
| `CipherHandle` | a handle and its caller (`cipher/cipher.c`) | `Cipher.cfg`, `OcbAad.cfg` | `GcmProofs`, `CipherProofs` |
| `HashContexts` | `_gcry_md_block_write` with SHA-256, BLAKE2, Keccak | through the next one | `MdProofs` |
| `MdHandle` | digest handles (`cipher/md.c`) | `Md.cfg` | `MdProofs` |
| `Sexp` | cells of an expression and their readers | through the next two | - |
| `SexpScan` | scanner, printer, canonical lengths, parameters | through the next one | - |
| `SexpUse` | a caller that builds and takes apart | `Sexp.cfg` | - |
| `MpiLimbs` | `mpih-*.c`, operations on limb vectors | through the next three | - |
| `Mpi` | signs and lengths: add, sub, mul, div, shift, bits, cmp | through the next two | - |
| `MpiModular` | remainders, inverses, powers | through the next one | - |
| `MpiUse` | a program that computes with two MPIs | `Mpi.cfg` | - |

`CipherHandle` composes the handle with the modes and the modes with the
buffers; `MdHandle`, `SexpUse` and `MpiUse` are the callers that compose the
modules below them. In those four, the properties compare what the code keeps
(buffers, cells, limbs) with what the caller gave, worked out a second time from
the definition of the operation and not from its code.

Definitions with a comment `Mutant` are altered forms of the definition they are
named after. No specification uses them; each shows that one property notices
one plausible mistake.

### SecMem

A pool is a record with a *set* of blocks `[off, size, active]`; an offset and a
size identify a block as its header in memory does. `Following` and `Preceding`
are `mb_get_next` and `mb_get_prev`, `Merge` is `mb_merge`, `Carve` is the
splitting of `mb_get_new` and `FirstFit` its search. `dirty` holds the offsets a
caller has written to, so that wiping can be checked. `live` holds the pointers
callers have, with the size they asked for.

Each public function runs under `SECMEM_LOCK` from beginning to end and is one
action: `InitSecmem`, `Malloc`, `Free`, `Realloc`, `SetFlags`, `SetAutoExpand`.
`Term` takes no lock in the code but is cleanup code by its comment. What the
operating system answers (mmap or malloc, mlock or not, memory for another pool
or not) is a choice; `InitInternal`, `Expand` and `Search` return the set of
outcomes. Size arithmetic is modulo `SizeMod` and `UIntMod`.

`SecureHeap` knows regions that callers hold and the places where they left
something. It says that a region handed out is large enough, apart from all
others and clean, that what a holder wrote moves with it in a realloc, and that
nothing remains after a free. `SecMem` instantiates it with the regions of
`live` and the offsets of `dirty`; the run checks the refinement on a small
instance (`ImplementsHeap`), and a theorem states it for all.

### PoolList

`_gcry_private_is_secure` reads the pool list without the lock. Here each field
of a descriptor becomes visible to other threads on its own, in any order,
except across the `memory_barrier` (`Publish`). A walk (`Check`, `Advance`) does
one read per step. Pointers are only told apart by the allocator they came from.
Once `StoreMain` has begun, a walk may see a partly set up main pool.

### FipsFsm

Each thread runs one call at a time: a public function, or a command of
`_gcry_vcontrol`. A call is cut where `fsm_lock` is released: `Gate` (the first
half of `_gcry_fips_is_operational`), `BeginTests`, `RunTests`, `EndTests`,
`Regate` (its second half), `ForceCheck`, `Signal`, `Die`. `Granted` is the
table of the switch statement in `fips_new_state`. The functions of
`visibility.c` come in four `Kinds`, by what they do when refused: return an
error (`refuse`), signal an error and go on (`anyway`, as
`gcry_md_hash_buffer`), signal and return (`refusesignal`), or signal a fatal
error (`fatal`, as `gcry_randomize`). `fresh`, `sound`, `blame` and `asked`
are history variables.

### RngPool

Bytes are counted, not kept. `AddRandomness` follows `add_randomness` in where
the position wraps and what it counts; the contents and their mixing are left
out. Each of the phases of `read_pool` is an
action; in between, a gatherer delivers in pieces (`Deliver`) or gives up with
`log_fatal`. The order in which `randomize` locks, unlocks and locks again is
kept, since another thread may come in between. What an update of the seed file
does to the pool (one more mixing) is below this abstraction. `Fork` follows the child, in
which the other threads are gone. `PthFork` is a fork inside `read_pool` with
all threads carried over, the case the second fork check in the code is written
for; it happens only when the constant `Pth` allows it.

### SeedFile

The file is a sequence of pieces and reads and writes move one piece at a time.
`build` is one of three. With `LOCK_SEED_FILE` the file is opened, locked and then
emptied (`"posix"`), except on Cygwin, where it is locked too but opened with
`O_TRUNC`, so that it is empty before the lock is taken (`"cygwin"`); without
locks it is emptied as it is opened (`"unlocked"`). The safety properties are about
the first; section 6 shows what happens in the others. `Fail` closes the file after a failing call;
`Die` ends a process and starts another in its place. A `read` that fails for
reasons of its own ends the process by design (`log_fatal`) and is left out, so
that `NeverFatal` and `LockedNeverFatal` are about other processes only.

### Drbg

What `<V, C>` contains is abstracted to where it came from: `[by, seed, n]`, the
process that gathered the entropy, the number of the seeding, and the requests
served since. Two requests served from equal values would return equal bytes. A
process is a set of threads and the memory they share; `Fork` (external) copies
that memory to a new process with the one thread that forked, locks held by the
others included. A request is cut where `drbg_lock` or the nonce lock is given
up: `AutoInit`, `Enter` (with the reseeding after a fork), one `Generate` per
slice, `NonceLock`, `NonceSet`, `NonceHash`. `Failing` says which of the calls
below (entropy, opening a cipher handle) may fail. A handle closed twice, or a
state used after it was freed, is undefined behaviour: the process goes to `ub`
and nothing more is claimed of it. `MaxRequests` stands for the 2^48 of LP64
builds. In others `drbg_max_requests` is `SIZE_MAX` (`random/random-drbg.c:527`),
which the counter cannot exceed: the test at line 1457 then never fires, and
`InTime` says nothing of those builds.

### BlockBuffer, CipherModes, CipherHandle

Bytes are symbols named by message and place, the block cipher and the
multiplications are free functions, so two outputs are equal exactly when the
code did the same with the same bytes. Kept are the buffers and what lies in
them, counters (modulo `CtrMod`), the length limits (`MaxData` and `MaxAad` of GCM
and GCM-SIV; in Poly1305 only the overflow of a byte counter modulo `CountMod` is
refused), the marks, the order of the
operations and every early return. One `BlockLen` stands for all blocks, also for
the 64 bytes of ChaCha20 and the 16 of Poly1305. `BlockLen` is 3, so that a chunk can be less
than, equal to, one and a half and more than two blocks. `msg` is what the
caller gave since the nonce; `Output` and `Tag` state what the mode defines for
it. A message is tracked if its nonce was set after the key (`whole`) and the
caller left the one before so that nothing of it can reach this one (`clean`, by
`Clean`); of other messages nothing is claimed, and the caller gives at most
`Untracked` bytes to them. `Clean` is a matter of the caller's calls, not of what
the handle holds:
- OCB, ChaCha20-Poly1305 and GCM-SIV ask nothing;
- GCM: the tag of the message before was made, or nothing of it was given, or
  the handle was reset. A new IV does not empty `macbuf`;
- EAX and SIV: the data since the last reset came to whole blocks. A new nonce or
  key keeps the unused rest of a counter block;
- CCM: no AAD call, not even one of length 0, follows the data of the message.

That each condition is needed is shown by `MessagesApart`, which leaves them out
(section 6).

### HashContexts, MdHandle

Compression functions and permutations are free functions of their input
blocks. Kept is how a stream becomes blocks: the handle's own buffer, the block
buffer, the held back last block of BLAKE2, lanes and rate of Keccak, padding and
length fields, squeezing in pieces. An entry of the handle knows from which place
of the caller's stream it takes part (`from`). Where the caller does what the
manual gives no meaning to (an algorithm enabled while bytes wait in the buffer,
HMAC keys changed in the middle), the entry is marked and nothing is claimed of
its digest.

### Sexp, SexpScan, SexpUse

An expression is the sequence of its cells (open, close, data with length, stop),
as in the buffer of `struct gcry_sexp`, and, beside it, the tree the calls
describe. `Sexp` has the readers that count levels by hand, `SexpScan` the
character automaton of `do_vsexp_sscan` with its arguments, `gcry_sexp_canon_len`,
`gcry_sexp_sprint` and `_gcry_sexp_vextract_param`. `SexpUse` builds larger
expressions around the present one, takes elements out, prints and reads back.
Independently, someone types a text of up to `MaxText` characters which both
scanners read. An escaped CR or LF at the very end of a text makes the scanner
look at the character behind it; the model notes that (`over`) and follows the
outcome in which it is not the other half of a pair. Arguments of an extraction
start as the caller must or may leave them: pointers NULL, integers and the length
of a given buffer with any value (`"old"`).

### MpiLimbs, Mpi, MpiModular, MpiUse

A limb has `LimbBits` bits and a number is a sequence of limbs with a sign, zero
limbs at the top included when the code leaves them there. Functions take the
result operand as a parameter where its old content or its identity matters. Two
MPIs are the results and operands of arbitrary sequences of calls; `val` are the
integers they should be. `Minds` lists traps that the program keeps clear of (see
section 6), so that the run shows all else is right. Long operands, which reach
Karatsuba multiplication, Barrett reduction, three limb division and windows of
exponents, are computed once and compared (`Probe...`). Division by one limb is
followed in all its forms: plain, with a shifted divisor, and with its inverse,
which the build chooses by the speed of the machine's instructions. The Barrett
remainder is that of natural numbers; of a negative one in place the code makes
minus the remainder of its magnitude (`mpi/mpi-mod.c:178`), as `ModBarrett` does.

## 3. Runs

All runs check deadlock except those of `SecMem`, where `log_fatal` ends the
process for good, and `Drbg`, whose calls are finite in number.

| Run | Constants that matter | Shows |
|---|---|---|
| `secmem_heap` | one main pool with room for two to three blocks and one overflow pool, two request sizes, of which one leaves a remainder too small to split | blocks tile the pools and free neighbours are merged (`WellFormed`), callers' blocks are active, distinct and large enough (`BlocksServe`), free memory is wiped (`WipedWhenFree`), statistics do not drift (`StatsExact`), and the caller sees an ideal heap (`ImplementsHeap`) |
| `secmem_policy` | every start (FIPS, setuid) and flag set, two chunk sizes of which one overflows `unsigned int`, one termination | in FIPS mode no block lies in an overflow or unlocked pool (`FipsConfined`); the warning comes out (`WarningIssued`) |
| `pool_list` | 2 threads, 3 overflow pools | every pointer is attributed to its allocator (`AnswerRight`); every walk ends (`WalkEnds`) |
| `fips_proper` | 2 threads, both builds, every system setting, all kinds, tests that pass and fail, errors from running code | operational only after a test no error followed (`Sound`), abort only for a reason (`AbortJustified`), `ModeHonoured`, a fatal error closes all gates (`FatalClosed`) and ends the process (`FatalDies`), calls return (`Returns`) |
| `rng_pool` | 2 threads, pool of 5, lengths 0, 2 and 7 (more than a pool), both levels, closing, both forks | `OutputSeeded`, `OutputBacked`, `OutputStamped`, `Unlocks` |
| `seed_file` | 2 processes, 2 pieces, 3 updates, 2 faults, all three builds | where the file is emptied under the lock, what is read is one image (`OneImage`), no reader is ended by a writer (`LockedNeverFatal`) and, until something fails, the file at rest is usable (`RestsUsable`); in all builds `Finishes` |
| `drbg` | 2 processes, 2 threads, 2 requests per seeding, slices of 2 bytes, requests of 5, 3 calls, 1 control, both FIPS modes | no state serves twice or in two processes (`Unrepeated`), seedings are used up in time (`InTime`), `NoncesUnique`, `Reported`, `RequestsEnd` |
| `cipher` | all seven modes, blocks of 3, counter modulo 4, 2 keys, 2 messages, chunks of 0 to 7 bytes | output and tag are those of the whole message however it is cut, after a message that was left as `Clean` says (`Exact`), no keystream twice (`StreamOnce`), `GeneratedIvs`, only the right tag is accepted (`Verified`, but for the check after a refused GCM-SIV decryption) |
| `ocb_aad_table` | OCB with a table of one entry | expected to fail: an assertion is reached (`findings`) |
| `md` | blocks of 3, rate of 4, lanes of 2, two algorithms on a handle, two keys | digests and HMACs (`DigestRight`) and squeezed bytes (`StreamRight`) are those of what was written |
| `sexp` | 22 cells, texts of 5 characters, 2 parameters | the buffer is the expression the calls describe (`Represents`), both readers agree on what is typed (`ReadersAgree`), a failed extraction leaves no allocation and no filled buffer (`LeftClean`) |
| `mpi` | limbs of 2 bits, two numbers of 2 limbs, probes of up to 4 limbs | `ValuesRight`, `ComparesRight`, `ProbesRight` |

**Bounds.** Two threads suffice for a race between a reader and a writer, and for
an error that meets a running self-test; the theorems cover more. The pool size
of 5 is the least for which `POOLSIZE / 5` is a poll of one byte, and is coprime
to the sizes of the pieces added, so that every write position and every split of
a call at the wrap occurs. Two pieces are enough to tear an image in two, and
three updates enough for two processes to follow each other. Two faults let a
death hit the process that recovers from another. In `drbg` a request of 5 bytes
takes three slices and so runs out of a seeding in its middle; two processes and
three calls let a fork fall before, between and after them. Blocks of 3 bytes,
messages of up to four blocks and two messages show a leftover of every length,
and one that leaks into the next message; a counter modulo 4 wraps within a
message, and byte counters modulo 7 do. In `mpi` limbs of 2 bits make each carry, borrow and correction of a
quotient digit frequent: all pairs of operands of those lengths are tried. Every
bound on a counter is a constant (`MaxOverflow`, `MaxTerms`, `MaxPools`,
`MaxPid`, `MaxUpdates`, `MaxFaults`, `MaxCalls`, `MaxControls`, `Messages`,
`MaxCells`...). The largest runs (`cipher`, `drbg`, `sexp`) have about a million
states.

**Fairness.**
- `PoolList`: weak fairness of a walk's steps. It waits for nobody. Nothing is
  assumed of threads that allocate.
- `FipsFsm`: weak fairness of the steps inside a call. They take a lock that is
  never held across one of them, and self-tests end.
- `RngPool`: weak fairness of the steps of a call under way. A gatherer that
  neither delivers nor gives up is excluded; getentropy blocks only until the
  kernel's pool is set up. A gatherer that delivers a byte at a time is not.
- `SeedFile`: weak fairness of reading and of writing. Updates are finite in
  number, so a retried lock is free in the end. With updates that never stop, a
  retry could miss every gap; the code's `F_SETLK` loop gives no better.
- `Drbg`: weak fairness of the steps threads take once they have made a
  call. `RequestsEnd` makes an exception for locks whose holder a fork left
  behind; the library has no answer to that.

No fairness is assumed of calls being made, of forks, failures or deaths.

## 4. Proofs

`tlapm` checks eight modules. All theorems hold for any number of threads,
processes, keys and messages and any sizes that satisfy the `ASSUME` of the
module; what else a theorem supposes is named below. The bounds on calls,
updates, faults and so on are constants too, so the theorems hold for each of
them.

**SecMemProofs**, under `NoWrap` (no request within `Align` of `SizeMod`;
section 6 shows that it is needed). The inductive invariant `Inv` joins
`TypeOK`, `Good` (each pool is tiled by its blocks, has no two free neighbours
and is wiped where free), `MainFirst` (overflow pools exist only beside a main
pool), `ExpandSane` (`auto_expand` is off or a whole pool, or a new pool would be
too small for a header), `Held` (callers' pointers are active blocks of their
own, large enough), and the two policies. The lemmas follow the code: what
`Merge`, `Carve`, `FreeBlock`, `InitPool` and `Format` do to one good pool, then
what `Search` and `InitInternal` may return (`SearchOutcome`, `InitOutcome`),
then one step per action. From these: `SecMemType`, `SecMemTiled`, `SecMemLive`,
`SecMemWiped`, `SecMemPolicy` (`FipsConfined`) and `SecMemWarning`, for heaps of
any size.

`SecMemImplementsHeap` is the refinement: `SecMem` implements `SecureHeap`. The
mapping takes a pointer to the region of its block, and the written offsets to
secrets. `Regions` finds the block of a pointer by its offset, so the proof
begins with what `Held` and `Good` say about it: a pointer has one block
(`BlockOfHeld`), a block that stays allocated keeps its region (`RegionKept`),
and a region tells whose it is (`RegionShows`). Then one lemma per step of the
abstract heap, in terms of the pools before and after: `GrantStep`, `FreeStep`,
`WriteStep`, `ResizeStep`, `MoveStep`; and one per action of the code that picks
the right one. Flags, expansion and statistics are stuttering.

`SecMemStats` is `StatsExact`: what a pool's counters differ by from its
allocated blocks changes in no step but a termination, which empties the main
pool and leaves its counters. Hence the property is about steps and not about
states. The sums are over sets of blocks. That there is such a sum (`SumExists`),
that it does not depend on the order (`SumAny`) or on the set it is part of
(`SumWithin`), and that a block adds its size to it (`SumAdds`), are inductions
on the least subset (`SetLeast`, from `NatLeast`). Then one lemma per operation
on a pool and one per action, joined in `StepBooks`. Besides `Inv` it needs
that pools not yet in use are blank (`Unused`).

The last part of the module is about `PoolList`, whose names carry a `List` where
`SecMem` has the same. `ListInv` says that the lock is held by the thread inside
malloc, which stores are done and which are pending (`MainFilled`, `Filling`), that
linked pools are complete and each points to the next older one (`ListChain`), and
that a walk has not passed the pool it looks for (`OnTheWay`). The last is the
heart of it: a new pool goes to the head, so a walk under way misses only pools
younger than the pointer it asks about. Theorems: `PoolListType`,
`PoolListAnswer`, `PoolListComplete` (a walk never meets a half built overflow
pool, `NoHalfPool`, which no run lists: `AnswerRight` says what depends on it).

**FipsFsmProofs.** `FsmType` and `FsmFatal` hold for every application.
`FsmSound` and `FsmAbort` assume `ProperUse`: one thread initialises the library
and issues the commands, as the manual asks. Section 6 shows how aborts
come about without it. The invariant says that the
other threads run public functions only and after the initialisation
(`Workers`), that the machine is in Init only until `INITIALIZATION_FINISHED`
returns (`InitState`), that Self-Test belongs to the one tester and nothing went
wrong since it began (`SelftestState`), and that a tester is overtaken only by
an error on record (`Overtaken`). `FsmMode` (`ModeHonoured`) needs none of that:
any thread may issue commands. Its invariant (`ModePhase`) says that until
`global_init` has run only the main thread calls, that a request made till then
is kept in `force_fips_mode`, and that the system does not ask for FIPS mode.

**RngPoolProofs.** `IInv` is `TypeOK`, `Honest` (the balance does not exceed the
unspent gathered bytes, filled means seeded, the counter does not exceed the
reliable bytes), and for each thread that the lock is held by the one inside
`read_pool` (`Holder`) and what is known at each place there (`Phase`).
`AddKeeps` is the lemma on `add_randomness` all others rest on. Theorems:
`RngPoolType`, `RngPoolSeeded`, `RngPoolBacked`, `RngPoolStamped`, the last three
as action properties. They need no assumption about closing or forks.

**SeedFileProofs**, for any number of processes and pieces. `Inv` is `TypeOK`,
`Present` (who works on the file has one), the three properties, and for builds
that empty the file under the lock `Locked`: locks are held exactly between taking
and closing (`LockKept`), a writer excludes all others (`Exclusive`), the file is part of one
image (`Unmixed`), a writer has written as much as it thinks (`Writes`) and a
reader's buffer is a copy of the file's beginning (`Reads`). Together: a reader
that found the file complete ends with one image. Theorems: `SeedFileType`,
`SeedFileImage` (`OneImage`), `SeedFileNotFatal` (`LockedNeverFatal`),
`SeedFileUsable` (`RestsUsable`). Failures and deaths are covered at every place.

**DrbgProofs**, for any number of processes, threads, requests per seeding and
bytes per slice. `Inv` is `TypeOK`; `Unborn` (processes that do not exist yet have
nothing); that only seedings that took place have served (`Served`); that the
reseed counter of an instance matches the requests its state has served and the
entropy is its own if the pid is (`Counted`), and that this state lies ahead of
all the process has served from the seeding (`Ahead`); that remembered pids are
those of processes that exist (`PidKnown`); and that a thread inside generation
has the lock and an instance of its own process (`Generating`). The last is why a fork does no harm:
the child's copy bears the parent's pid, and is reseeded before it is used. From
these `DrbgUnrepeated` and `DrbgInTime`. `DrbgNonces` adds `NonceInv`: the private
part is the process's own wherever it is used, and the chain of hashes in its
buffer is at least as long as that of any nonce it gave out. It holds as long as every request for random bytes was served, as
`NoncesUnique` says. `DrbgReported` assumes `NoTruncation` (no request exceeds
`unsigned int`), since `random/random-drbg.c:1965` cuts the length and fills less
without an error.

**GcmProofs** and **CipherProofs**, which extends it. `GcmProofs` holds what all
modes have in common, the generated IVs and GCM; `CipherProofs` the other modes and
the results about all of them.

First, sequences cut into blocks, and the collectors
(`do_ghash_buf`, CMAC, Poly1305): the blocks a collector has passed on and the
bytes it keeps depend on the bytes given alone, not on how they were cut
(`CollectIs`, `GhashIs`). Then `CipherGeneratedIvs`: no routine of a mode touches
the marks that belong to the handle, and in FIPS mode a handle that has a nonce
and may encrypt has one it generated (`GenInv`). That covers resets, new keys,
failed calls, and both ways to the encryption: directly and through the tag.

The rest is about what a message yields. `CipherExact` and `CipherVerified` are
`Exact` and `Verified` for handles in every mode, as long as no assertion has
ended the process; they are put together from one pair of theorems per family of
modes. Of the constants only the three `ASSUME`s of the modules are used. What
these say of a handle that was used before rests on `Clean`, which looks at the
caller's calls only (section 2), so that it has to be proved that a message left
in this way leaves nothing in the handle: `LeftInv` (GCM: `macbuf` is empty
once the tag was made, or if nothing was given) and `RestInv` (EAX and SIV: the
unused bytes of the counter block are what the data lacks to whole blocks). In
OCB, ChaCha20-Poly1305 and GCM-SIV `Clean` is true and the theorems hold after
any use. `Verified` leaves out one check, of GCM-SIV after a refused
decryption, which goes wrong (`ChecksCalculated`, section 6).

GCM: `CipherGcmExact`, `CipherGcmVerified`, `CipherGcmStreamOnce`. The limit
of `gcm_check_datalen`, `MaxData <= (CtrMod - 2) * BlockLen`, is what makes the
counter not return to a block already used, nor to the one that masks the tag; it is also why the loop of `gcm_ctr_encrypt` meets at most one overflow
of the counter in a message, so that its two turns in the model are enough. The
argument, from below:
- counter mode stands at a place in the key stream: `Placed` ties the counter,
  the last encrypted counter block and the number of its unused bytes to the
  number of bytes given so far. `CtrEncryptIs` says that a call continues from
  there, `GcmCtrIs` that `gcm_ctr_encrypt` does so too, where the low part of the
  counter overflows and the carry is undone;
- `GcmWhole` says what a message has made of the handle: the place in the stream,
  the lengths, the GHASH collector with the blocks of the AAD (padded, once data
  came) and of the ciphertext, and, once made, the tag. It speaks of messages
  whose nonce was set after the key. Each routine keeps it (`GcmStarts`,
  `GcmAuto`, `GcmAadWhole`, `AadFinishWhole`, `GcmCryptWhole`, `GcmTagWhole`);
- `GcmInv` adds what the last call returned, and every call keeps it (`GcmNext`),
  calls that fail and calls out of order included;
- for `StreamOnce`, two places of the stream less than `MaxData` apart have
  different counters or different bytes (`RestsApart`, `StreamApart`), so as many
  stream bytes are used as data bytes were given (`GcmOnce`).

`CipherGcmAssertion` needs less: that the counter and the unused bytes are in range
(`GcmLive`) is enough for the assertion of `gcm_ctr_encrypt`, so it
holds for messages whose nonce is older than the key too.

CCM, EAX, ChaCha20-Poly1305 (`Wide`): `WideInv` says the same of the stream
(`Placed` again) and of one collector for AAD and text, or two in EAX. CBC-MAC and
CMAC differ in when they let a block go (`Holds`, `Lagged`); CCM commits to the
lengths in its first block, so its collector is that of a message with the
announced lengths (`CcmPre`). The counters run over with carry, so no bound on the
data is needed for `CipherWideStreamOnce`. It leaves out EAX messages that found a
part of a counter block left by an earlier message: set_nonce keeps it. With
`RestInv` that is excluded for messages that are `clean`.

SIV, GCM-SIV (`CipherShotExact`, `CipherShotVerified`): the data is given in one
call, and what is hard is decryption. The tag that keys the stream is the
caller's, and has to be that of the decrypted text for the call to succeed. `ShotInv`
says that a given tag is the tag of some message, or a forged one that is of none
(`ShotGiven`). Two different streams over the ciphertext make bytes that are no
message's data (`TwiceXor`), and a tag fixes the length and the first byte it
was made from (`GsTagsSame`); so an accepted tag is that of the message. A
GCM-SIV handle without a nonce has an empty collector (`GsIdle`). A SIV handle
that is given a new key without a reset still has the counter block of the message
before; by `RestInv` nothing of it is left if that message came to whole blocks.

OCB (`CipherOcbExact`, `CipherOcbVerified`): offsets are running sums, over the
blocks of the AAD and, apart from these, of the data. `AadAt` says that the sum
over the AAD is that of its full blocks and that the rest waits in `aad_leftover`;
`OcbGoesOn` that the data so far is whole blocks, all in the checksum, as long as
GCRYCTL_FINALIZE has not come; `OcbWhole` adds the masked checksum and the tag.
`OcbInv` claims this until the assertion of `ocb_get_L_big` ends the process (the
finding of run `ocb_aad_table`). The calls the model still makes on such a handle
stand for no run of the program and keep the mark, but for a reset, which also
ends the message.

**MdProofs.** `MdDigest` and `MdStream` are `DigestRight` and `StreamRight`, for
any lengths of block, lane, rate, buffer and output, any pieces, any number of
algorithms on a handle, and any sequence of calls. They suppose
`PrefixesPartial`: no cSHAKE name fills its blocks exactly. For those that do,
section 6 shows that `DigestRight` fails. The argument, from below:
- a stream is cut into blocks in one way (`Bytes in blocks`), so each context can
  be given as a function of the bytes it took in: `ShaOf` for the block hashes,
  `KeccakOf` for Keccak, and for BLAKE2, which holds back its last block, the
  relation `BlakeHolds`. Writing a piece leads from the context of `s` to that of
  `s` and the piece, whatever the lengths. For Keccak that is an induction over
  the lanes of a piece;
- finishing gives the digest of the definition, and extraction the next bytes of
  the output, through all the parts of `do_keccak_extract`, of which two
  turns of the first loop are enough;
- `CtxHolds` and `CtxEnded` join the three, so that an entry of a handle is dealt
  with once: `EntryRight` says that its context has taken in the part of the
  stream it is to see, behind the inner pad in HMAC, or has been ended with it,
  and how much of its output is taken. `PadsRight` is about the prepared pads;
- `HandleRight` says this of all entries for the stream up to the buffer: what the
  contexts saw, and the bytes that wait in the buffer, are together what was
  written. Each call keeps it (`EntryEnds`, `EntryRenews`, `EntryPads`,
  `BlakeList`, `PutRight`, `EntryCustom` and one lemma per action);
- `MdInv` adds the two properties, which speak of the last answer.

**How inductions are done.** The induction theorems of the library take an
operator as a parameter and cannot be used. But a set of numbers that is not
empty has a least member (`NatLeast`, from `WFMin` and
`NatLessThanWellFounded`), and this needs sets only; every induction over
lengths, lanes, blocks and finite sets in these modules is an argument about the
least counterexample. The models that are proved about have no `RECURSIVE`
operator; what repeats in them is a recursive function or given in closed form.

**Only model-checked:**
- everything temporal under fairness (`WalkEnds`, `Returns`, `FatalDies`,
  `Unlocks`, `Finishes`, `RequestsEnd`), which is out of the prover's reach;
- `StreamOnce` for EAX messages that found a part of a counter block; that no
  assertion is reached (`NoAssertion`) is proved for GCM, and OCB violates it;
- the S-expression and MPI modules. They follow recursive code with `RECURSIVE`
  operators, which the prover does not accept.

## 5. What is not modelled

- The algorithms themselves (block ciphers, hashes, curves, lattices): fixed data
  paths, much of it assembler, better served by test vectors. They are the
  larger part of the source by far, so the models stand for a small share of its
  lines.
- Public keys, key encapsulation, elliptic curves, primality: number theory that
  TLC reaches for toy parameters only.
- Key derivation and the MAC interface: fixed schedules, and thin wrappers of the
  handles modelled here.
- The plain cipher modes (CBC, CFB, OFB, XTS, AESWRAP); CTR is part of the modes
  that use it. Bulk functions of the modes are taken to do what the loop beside
  them does.
- In MPI: the generic inverse for negative operands, `mpicoder.c`, opaque,
  immutable and secure numbers. In S-expressions: base64 and the rarer `%`
  conversions.
- Gatherers other than getentropy and the jitter collector: platform I/O. The
  pool depends only on how many bytes come in which pieces.
- What a self-test computes; a self-test is a choice between passing and failing.
- `_gcry_secmem_term` against concurrent walkers, and the first `global_init`
  against a second thread: the comments and the manual exclude both.
- `log_fatal`, `log_bug` and failed assertions end the process; what an
  application's own handlers do is not followed.

## 6. Met while modelling

One case has a run of its own, `ocb_aad_table`: AAD whose 65536th block is
completed from the leftover buffer reaches the assertion in `ocb_get_L_big`.

These can be had by changing a configuration as told; the property named then
fails. Those whose properties are in no run are kept in the modules with a
comment that says so.

| Where | What happens | Change |
|---|---|---|
| `src/secmem.c:609` | a request next to `SIZE_MAX` is rounded to 0 and granted, where line 241 says of `mb_get_new` that its block "can hold SIZE bytes" | `SecMemHeap`: `SizeMod = 32`, `Requests = {3, 30}`: `BlocksServe` |
| `src/fips.c:316-321` | two first calls at the same time start two self-tests, of which the second ends in a transition that aborts | `FipsProper`: `Proper = FALSE`, `Admins = {}`: `AbortJustified` |
| same | with three such threads a self-test that began before an error makes the library operational after it | same with a third thread: `Sound` |
| `src/global.c:763-772` | `GCRYCTL_NO_FIPS_MODE` before initialisation does not override the system's setting, as its comment says it does | `FipsProper`: invariant `AskedHonoured` |
| `random/random-csprng.c:471-481` | closing between the two locked sections of `randomize` leaves `read_pool` a null pool | `RngPool`: invariant `NoBug` |
| `random/random-csprng.c:1078` | the second fork check restarts with a length of `SIZE_MAX` (under a thread library that forks inside `read_pool`) | `RngPool`: `Closing = FALSE`, invariant `NoBug` |
| `random/random-csprng.c:842` | without file locks an update ends a reader with `log_fatal` | `SeedFile`: `Builds = {"unlocked"}`, invariant `NeverFatal` |
| `random/random-csprng.c:920-922` | on Cygwin too, although the file is locked there: it is opened with `O_TRUNC`, so a reader that holds the lock and has checked the size finds it empty | `SeedFile`: `Builds = {"cygwin"}`, invariant `NeverFatal` |
| `cipher/cipher-gcm.c:1035-1096` | a new IV does not empty `macbuf`: AAD or data of a message that was given up before its tag is hashed into the next | `Cipher`: `Modes = {"gcm"}`, invariant `MessagesApart` |
| `cipher/cipher-eax.c:168` | setting a nonce keeps the unused keystream bytes of the message before, unless the handle is reset | same with `{"eax"}` |
| `cipher/cipher-siv.c` | a new key without a reset keeps them too | same with `{"siv"}` |
| `cipher/cipher-ccm.c:253-254` | an AAD call of length 0 is accepted after data; it pads the CBC-MAC in the middle of the text | same with `{"ccm"}` and `Untracked = 4` |
| `cipher/cipher-gcm-siv.c:590-644` | after a decryption that was refused (its plaintext is wiped) `gcry_cipher_checktag` accepts the refused tag: it compares with `tagiv`, the tag that was given, and the calculated one is gone, where `doc/gcrypt.texi:2065-2068` says that a tag other than "the authentication tag calculated during decryption" is an error | same with `{"gcmsiv"}`, invariant `ChecksCalculated` |
| `cipher/keccak.c:1481` | a cSHAKE prefix that fills its blocks exactly is followed by one more block of zeros, which bytepad of SP 800-185 does not add | `Md`: `Customs = {1}`: `DigestRight` |
| `src/sexp.c`, `gcry_sexp_cdr` | the second element is returned, where `doc/gcrypt.texi:4963` says "all elements except for the first one" | `Sexp`: invariant `CdrIsRest` |
| `src/sexp.c:2460` | a failed extraction treats the caller's buffer of an absent optional `&` parameter as an MPI | `Sexp`: `GivenOptional = TRUE`: `LeftClean` |
| `src/sexp.c:1243`, `1253` | for an escaped CR or LF that ends the text `n` is 1, not 0, so the character behind it is looked at and, if it completes the pair, `n` wraps | noted as `over` by `ScanQuoted`; `ReadersAgree` is about the other outcome |
| `src/sexp.c:2521`, `2657` | a parameter that does not fit the caller's buffer leaves the `len` of its descriptor alone, where `src/sexp.c:2289-2291` and `doc/gcrypt.texi:5124-5126` say "LEN set to 0" | `Sexp`: invariant `ShortEmptied` |
| `src/sexp.c:84` | lengths of data are kept modulo 65536 | `Sexp`: `DataMod = 8`: `Represents` |
| `mpi/mpi-bit.c:199` | `mpi_clear_bit` leaves zero limbs at the top, with which `mpi_sub_ui` and others compute wrong results (`doc/gcrypt.texi:5367-5375`) | `Mpi`: `Minds` without `"top"`: `ValuesRight` |
| `mpi/mpi-div.c:94` | a floored quotient that replaces the dividend is corrected by the sign of the quotient | `Mpi`: `Minds` without `"floor"`: `ValuesRight` |
| `mpi/mpi-inv.c`, `mpi-bit.c` | an inverse, or a bit set in a zero, takes over the sign left in the result | `Mpi`: `Minds` without `"sign"`: `ValuesRight` |
| `mpi/mpi-cmp.c:106` | of two negative numbers of different size the first is always the greater (`doc/gcrypt.texi:5445`) | left out of `ComparesRight` |

Seen in the code, and kept as it is in the models or left out of what is claimed:
- `src/visibility.c:1279`: `gcry_md_hash_buffer` signals an error when it is
  refused and computes the digest all the same, where `doc/gcrypt.texi:7232-7235`
  says that refused functions return an error or do not return (kind `anyway`).
- `src/global.c:583`: SUSPEND, RESUME and DISABLE_SECMEM_WARN read the flags and set
  them under two separate locks, so one of two concurrent commands can be lost.
  The manual asks for them before threads are started; `SecMem` has one step.
- `random/random-csprng.c:1143`: `just_mixed` is assigned only when the write
  position wraps, not "cleared if new entropy has been added" (line 157). No
  effect follows: `read_pool` mixes again after the copy.
- `random/random-csprng.c:1134`: only the bytes of the call that wraps the write
  position are counted, so the pool is filled after several times POOLSIZE bytes
  and not "as soon as" POOLSIZE bytes were added (line 137). `Unlocks` shows that
  filling ends.
- `random/random-drbg.c:1668-1672`: a failed seeding closes the cipher handle at
  `fini` and again in `drbg_uninstantiate` (`ub` in `Drbg`).
- `random/random-drbg.c:1936-1942`: a generator closed between the two locked
  sections leaves the buffer unfilled; outside FIPS mode nobody is told
  (`Reported` is about FIPS mode).
- `random/random-drbg.c:1965`: the length is cut to `unsigned int`.
- The DRBG remembers its process by pid; `Fork` takes a pid that was never used.
- `_gcry_md_copy` reverses the order of the entries; `gcry_md_read` of an
  algorithm that is not enabled ends the process; `gcry_md_reset` drops the key
  of BLAKE2.
- `src/sexp.c:1854-1863`: of the bytes above 0x7f only those up to 0xa0, and a
  first one, make `suitable_encoding` choose hex; others are printed as they are.
- A failed extraction leaves integers (`%u`, `%d`) it already stored, and the
  length of caller's buffers it did not come to.
- `gcry_mpi_mulm` takes the truncated remainder, so a negative product gives a
  negative result.

## 7. Plan

Next are proofs about the readers of `Sexp` and the additions of `MpiLimbs`, after
their recursive operators are written as recursive functions; the inductions would
be those of `MdProofs`.

Worth modelling after that: the plain cipher modes, the Argon2 schedule of
`cipher/kdf.c` with jobs run by the caller's threads, the prime pool of
`cipher/primegen.c`, and a composition of `FipsFsm` and `RngPool` for the closing
of the pool by an on-demand self-test.
