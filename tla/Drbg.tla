-------------------------------- MODULE Drbg --------------------------------
(***************************************************************************)
(* The random number switch with its nonce generator                       *)
(* (src/random/random.c) over the deterministic random bit generator       *)
(* (src/random/random-drbg.c), for the threads of a process and of the     *)
(* processes it forks.                                                     *)
(*                                                                         *)
(* The internal state <V, C> of the generator is abstracted to             *)
(* [by, seed, n]: which process gathered the entropy of its latest         *)
(* (re)seeding, the number of that seeding, and the requests served since. *)
(* drbg_lock is held over each section that is one action here; only a     *)
(* request of several slices holds it across actions.                      *)
(***************************************************************************)
EXTENDS Integers, Sequences, FiniteSets

CONSTANTS
  Procs,          \* process ids; a fork takes one that was never used
  Threads,        \* the threads a process may have
  MaxRequests,    \* drbg_max_requests ()
  MaxBytes,       \* drbg_max_request_bytes ()
  UIntMod,        \* the modulus of unsigned int
  Lens,           \* lengths asked of gcry_randomize
  Flags,          \* flag strings given to GCRYCTL_DRBG_REINIT
  Failing,        \* what may fail: "entropy", "open"
  Prefs,          \* arguments of GCRYCTL_SET_PREFERRED_RNG_TYPE
  FipsModes,      \* how the process may start: fips_mode ()
  MaxCalls,       \* bound: requests for random bytes and nonces
  MaxControls     \* bound: reinit, close and preference calls

ASSUME DrbgAssumption ==
  /\ Procs \subseteq Nat \ {0} /\ 1 \in Procs /\ IsFiniteSet(Procs)
  /\ MaxRequests \in Nat \ {0}
  /\ MaxBytes \in Nat \ {0}
  /\ UIntMod \in Nat /\ UIntMod > MaxBytes
  /\ Lens \subseteq Nat \ {0}
  /\ Flags \subseteq {"none", "nopr", "pr", "nocore"}
  /\ Failing \subseteq {"entropy", "open"}
  /\ Prefs \subseteq {"standard", "fips", "system"}
  /\ FipsModes \subseteq BOOLEAN
  /\ "free" \notin Threads
  /\ MaxCalls \in Nat /\ MaxControls \in Nat

VARIABLES
  fips,      \* fips_mode ()
  up,        \* up[p]: "absent", "up", "dead" (log_fatal) or "ub"
  drbg,      \* drbg[p]: drbg_state and the instance it points to
  oldflags,  \* oldflags[p]
  lock,      \* lock[p]: the thread that holds drbg_lock_var, or Free
  types,     \* types[p]: rng_types
  any_init,  \* any_init[p]
  nonce,     \* nonce[p]: nonce_buffer, nonce_buffer_initialized and my_pid
  nlock,     \* nlock[p]: the thread that holds nonce_buffer_lock, or Free
  failed,    \* failed[p]: fips_signal_error was called
  pc,        \* pc[p][t]: where thread t of process p is
  req,       \* req[p][t]: [nonce, len, left], the request t works on
  seeds,     \* seedings so far, in all processes
  out,       \* what requests were served with: [by, state, pr, no]
  issued,    \* the nonces given out: [val, no]
  short,     \* short[p]: requests that returned with a buffer not all filled
  calls,
  controls

vars == <<fips, up, drbg, oldflags, lock, types, any_init, nonce, nlock,
          failed, pc, req, seeds, out, issued, short, calls, controls>>

Free == "free"
NoState == [by |-> 0, seed |-> 0, n |-> 0]   \* V and C are NULL

\* handle is priv_data, which crypto_fini closes and does not clear.
Fresh == [live |-> FALSE, v |-> NoState, seeded |-> FALSE, reseed_ctr |-> 0,
          pid |-> 0, pr |-> FALSE, handle |-> "none"]

\* buf is what was hashed into the buffer since its first nonce, in order.
NoNonce == [init |-> FALSE, pid |-> 0, buf |-> <<>>, priv |-> NoState]

Idle == [nonce |-> FALSE, len |-> 0, left |-> 0]

Init ==
  /\ fips \in FipsModes
  /\ up = [p \in Procs |-> IF p = 1 THEN "up" ELSE "absent"]
  /\ drbg = [p \in Procs |-> Fresh]
  /\ oldflags = [p \in Procs |-> "none"]
  /\ lock = [p \in Procs |-> Free]
  /\ types = [p \in Procs |-> {}]
  /\ any_init = [p \in Procs |-> FALSE]
  /\ nonce = [p \in Procs |-> NoNonce]
  /\ nlock = [p \in Procs |-> Free]
  /\ failed = [p \in Procs |-> FALSE]
  /\ pc = [p \in Procs |-> [t \in Threads |-> IF p = 1 THEN "idle" ELSE "absent"]]
  /\ req = [p \in Procs |-> [t \in Threads |-> Idle]]
  /\ seeds = 0 /\ out = {} /\ issued = {} /\ short = [p \in Procs |-> 0]
  /\ calls = 0 /\ controls = 0

\* _gcry_get_rng_type (0), by which the dispatchers choose.
RngType(p) ==
  IF fips THEN "fips"
  ELSE IF "standard" \in types[p] THEN "standard"
  ELSE IF "fips" \in types[p] THEN "fips"
  ELSE IF "system" \in types[p] THEN "system" ELSE "standard"

-----------------------------------------------------------------------------
(* The generator *)

\* The seeding of process p that a successful drbg_get_entropy starts.
NewState(p) == [by |-> p, seed |-> seeds + 1, n |-> 0]

\* drbg_seed, once it has its entropy.
Seeded(d, p) ==
  [d EXCEPT !.v = NewState(p), !.seeded = TRUE, !.reseed_ctr = 1]

\* drbg_uninstantiate
Uninstantiated(d) ==
  [d EXCEPT !.v = NoState, !.seeded = FALSE, !.reseed_ctr = 0, !.pid = 0,
            !.pr = FALSE, !.handle = IF @ = "none" THEN @ ELSE "closed"]

\* The flags _drbg_init_internal goes by.
Effective(p, flags) ==
  IF flags # "none" THEN flags
  ELSE IF ~drbg[p].live THEN "nopr" ELSE oldflags[p]

\* crypto_fini on a handle that is closed already.
ClosedTwice(d) == d.handle = "closed"

\* drbg_instantiate after a drbg_uninstantiate of what was there: it works;
\* crypto_init fails and drbg_uninstantiate closes the old handle again; or
\* drbg_seed fails and the new handle is closed at fini: and at err:.
Instantiate(p, flags) ==
  LET base == IF drbg[p].live THEN Uninstantiated(drbg[p]) ELSE drbg[p]
      open == [base EXCEPT !.live = TRUE, !.pr = (flags = "pr"),
                           !.handle = "open"]
      gone == Uninstantiated([base EXCEPT !.live = TRUE])
  IN  {[d |-> [Seeded(open, p) EXCEPT !.pid = p], ub |-> FALSE, ok |-> TRUE]}
        \cup {[d |-> gone, ub |-> ClosedTwice(base), ok |-> FALSE]
                : x \in Failing \cap {"open"}}
        \cup {[d |-> Uninstantiated(open), ub |-> TRUE, ok |-> FALSE]
                : x \in Failing \cap {"entropy"}}

\* _drbg_init_internal under the lock.
InitInternal(p, flags) ==
  /\ oldflags' = [oldflags EXCEPT ![p] = Effective(p, flags)]
  /\ IF Effective(p, flags) = "nocore"
     THEN UNCHANGED <<drbg, up, failed, seeds>>
     ELSE \E r \in Instantiate(p, Effective(p, flags)) :
            /\ drbg' = [drbg EXCEPT ![p] = r.d]
            /\ up' = [up EXCEPT ![p] = IF r.ub THEN "ub" ELSE @]
            /\ failed' = [failed EXCEPT ![p] = @ \/ (fips /\ ~r.ok)]
            /\ seeds' = IF r.ok THEN seeds + 1 ELSE seeds

\* The steps of thread t of process p.
At(p, t, label) == up[p] = "up" /\ pc[p][t] = label
Goto(p, t, label) == pc' = [pc EXCEPT ![p][t] = label]

\* _gcry_rngdrbg_inititialize (1), from label on to label next.
AutoInit(p, t, label, next) ==
  /\ At(p, t, label)
  /\ IF RngType(p) # "fips"
     THEN UNCHANGED <<drbg, up, failed, seeds, oldflags>>
     ELSE /\ lock[p] = Free
          /\ IF drbg[p].live THEN UNCHANGED <<drbg, up, failed, seeds, oldflags>>
             ELSE InitInternal(p, "none")
  /\ Goto(p, t, next)
  /\ UNCHANGED <<fips, lock, types, any_init, nonce, nlock, req, out, issued,
                 short, calls, controls>>

Serve(p, t, st, pr) ==
  out' = out \cup {[by |-> p, state |-> st, pr |-> pr, no |-> Cardinality(out)]}

\* Where a request continues once do_randomize returns.
Return(p, t) ==
  /\ Goto(p, t, IF req[p][t].nonce /\ ~fips THEN "set" ELSE "idle")
  /\ req' = [req EXCEPT ![p][t] = Idle]

SamePid(p) == drbg[p].pid = p

\* The other generators: _gcry_rngsystem_randomize and, as RngPool shows it,
\* _gcry_rngcsprng_randomize fill the buffer in one go, whatever its length.
OtherRng(p, t) ==
  /\ At(p, t, "body") /\ RngType(p) # "fips"
  /\ seeds' = seeds + 1
  /\ Serve(p, t, NewState(p), FALSE)
  /\ nonce' = IF req[p][t].nonce THEN [nonce EXCEPT ![p].priv = NewState(p)]
              ELSE nonce
  /\ Return(p, t)
  /\ UNCHANGED <<fips, up, drbg, oldflags, lock, types, any_init, nlock,
                 failed, issued, short, calls, controls>>

\* Mutant: the caller is not told that there was no generator.
Vanished_Silent(p, t) ==
  /\ At(p, t, "body") /\ RngType(p) = "fips" /\ lock[p] = Free
  /\ ~drbg[p].live
  /\ short' = [short EXCEPT ![p] = @ + 1]
  /\ Return(p, t)
  /\ UNCHANGED <<fips, up, drbg, oldflags, lock, types, any_init, nonce, nlock,
                 failed, seeds, out, issued, calls, controls>>

\* Mutant: the early exit forgets to unlock.
Vanished_Locked(p, t) ==
  /\ At(p, t, "body") /\ RngType(p) = "fips" /\ lock[p] = Free
  /\ ~drbg[p].live
  /\ failed' = [failed EXCEPT ![p] = fips]
  /\ short' = [short EXCEPT ![p] = @ + 1]
  /\ lock' = [lock EXCEPT ![p] = t]
  /\ Return(p, t)
  /\ UNCHANGED <<fips, up, drbg, oldflags, types, any_init, nonce, nlock,
                 seeds, out, issued, calls, controls>>

\* _gcry_rngdrbg_randomize finds drbg_state gone again: "DRBG is not
\* initialized" is signalled, which only FIPS mode heeds, and it returns.
Vanished(p, t) ==
  /\ At(p, t, "body") /\ RngType(p) = "fips" /\ lock[p] = Free
  /\ ~drbg[p].live
  /\ failed' = [failed EXCEPT ![p] = fips]
  /\ short' = [short EXCEPT ![p] = @ + 1]
  /\ Return(p, t)
  /\ UNCHANGED <<fips, up, drbg, oldflags, lock, types, any_init, nonce, nlock,
                 seeds, out, issued, calls, controls>>

\* Mutant: the child goes on with the state it inherited.
Enter_NoReseed(p, t) ==
  /\ At(p, t, "body") /\ RngType(p) = "fips" /\ lock[p] = Free
  /\ drbg[p].live
  /\ lock' = [lock EXCEPT ![p] = t]
  /\ drbg' = [drbg EXCEPT ![p].pid = p]
  /\ Goto(p, t, "gen")
  /\ UNCHANGED <<fips, up, oldflags, types, any_init, nonce, nlock, failed,
                 req, seeds, out, issued, short, calls, controls>>

\* _gcry_rngdrbg_randomize up to the generation: take the lock, and reseed
\* after a fork.  A failing reseed is fatal; one of an instance that failed to
\* set up works on freed memory.
Enter(p, t) ==
  /\ At(p, t, "body") /\ RngType(p) = "fips" /\ lock[p] = Free
  /\ drbg[p].live
  /\ lock' = [lock EXCEPT ![p] = t]
  /\ \/ /\ SamePid(p)
        /\ Goto(p, t, "gen")
        /\ UNCHANGED <<drbg, up, seeds>>
     \/ /\ ~SamePid(p) /\ drbg[p].v # NoState
        /\ drbg' = [drbg EXCEPT ![p] = Seeded([@ EXCEPT !.pid = p], p)]
        /\ seeds' = seeds + 1
        /\ Goto(p, t, "gen")
        /\ UNCHANGED up
     \/ /\ ~SamePid(p)
        /\ "entropy" \in Failing \/ drbg[p].v = NoState
        /\ up' = [up EXCEPT ![p] = IF drbg[p].v = NoState THEN "ub" ELSE "dead"]
        /\ UNCHANGED <<drbg, seeds, pc>>
  /\ UNCHANGED <<fips, oldflags, types, any_init, nonce, nlock, failed, req,
                 out, issued, short, calls, controls>>

\* Mutant: the limit is only met after one request too many.
Exhausted_Late(d) == MaxRequests + 1 < d.reseed_ctr

\* 9.3.1 step 6: the requests one seeding may serve are used up.  MaxRequests is
\* the 2^48 of an LP64 build; in others it is SIZE_MAX, and the test never fires.
Exhausted(d) == MaxRequests < d.reseed_ctr

MustReseed(d) == d.pr \/ ~d.seeded \/ Exhausted(d)

Slice(left) == IF left > MaxBytes THEN MaxBytes ELSE left

\* One drbg_generate of the loop in drbg_generate_long; the last one releases
\* the lock.
Generate(p, t) ==
  /\ At(p, t, "gen")
  /\ \/ /\ req[p][t].left > 0
        /\ \E d \in {IF MustReseed(drbg[p]) THEN Seeded(drbg[p], p) ELSE drbg[p]} :
             /\ drbg' = [drbg EXCEPT ![p] = [d EXCEPT !.v.n = @ + 1,
                                                      !.reseed_ctr = @ + 1]]
             /\ Serve(p, t, d.v, d.pr)
             /\ nonce' = IF req[p][t].nonce /\ ~fips
                         THEN [nonce EXCEPT ![p].priv = d.v] ELSE nonce
        /\ seeds' = IF MustReseed(drbg[p]) THEN seeds + 1 ELSE seeds
        /\ LET left == req[p][t].left - Slice(req[p][t].left)
           IN     IF left > 0
                  THEN /\ req' = [req EXCEPT ![p][t].left = left]
                       /\ UNCHANGED <<pc, lock, short>>
                  ELSE /\ Return(p, t)
                       /\ lock' = [lock EXCEPT ![p] = Free]
                       /\ short' = IF req[p][t].len < UIntMod THEN short
                                   ELSE [short EXCEPT ![p] = @ + 1]
        /\ UNCHANGED up
     \/ /\ \/ req[p][t].left = 0                \* nothing left by the cast
           \/ MustReseed(drbg[p]) /\ "entropy" \in Failing
        /\ up' = [up EXCEPT ![p] = "dead"]      \* "No random numbers generated"
        /\ UNCHANGED <<drbg, seeds, out, nonce, req, pc, lock, short>>
  /\ UNCHANGED <<fips, oldflags, types, any_init, nlock, failed, issued, calls,
                 controls>>

-----------------------------------------------------------------------------
(* The nonce generator *)

\* The pid (and the time) a new nonce buffer starts with.
Stamp(p) == [NoState EXCEPT !.by = p]

\* Mutant: my_pid is not looked at.
NonceLock_AnyPid(p, t) ==
  /\ At(p, t, "nlock") /\ nlock[p] = Free
  /\ nlock' = [nlock EXCEPT ![p] = t]
  /\ nonce' = IF nonce[p].init THEN nonce
              ELSE [nonce EXCEPT ![p].buf = <<Stamp(p)>>, ![p].pid = p]
  /\ Goto(p, t, IF nonce[p].init THEN "hash" ELSE "init")
  /\ UNCHANGED <<fips, up, drbg, oldflags, lock, types, any_init, failed, req,
                 seeds, out, issued, short, calls, controls>>

\* _gcry_create_nonce takes its lock; the buffer may need (re)seeding.
NonceLock(p, t) ==
  /\ At(p, t, "nlock") /\ nlock[p] = Free
  /\ nlock' = [nlock EXCEPT ![p] = t]
  /\ nonce' = IF nonce[p].init THEN nonce
              ELSE [nonce EXCEPT ![p].buf = <<Stamp(p)>>, ![p].pid = p]
  /\ Goto(p, t, IF nonce[p].init /\ nonce[p].pid = p THEN "hash" ELSE "init")
  /\ UNCHANGED <<fips, up, drbg, oldflags, lock, types, any_init, failed, req,
                 seeds, out, issued, short, calls, controls>>

\* Back from do_randomize, whether or not it filled the private part.
NonceSet(p, t) ==
  /\ At(p, t, "set")
  /\ nonce' = [nonce EXCEPT ![p].init = TRUE, ![p].pid = p]
  /\ Goto(p, t, "hash")
  /\ UNCHANGED <<fips, up, drbg, oldflags, lock, types, any_init, nlock,
                 failed, req, seeds, out, issued, short, calls, controls>>

\* SHA-1 over the whole buffer replaces its first 20 bytes: a function of what
\* they were and of the private part, free of collisions.
Digest(b) == [b EXCEPT !.buf = Append(@, b.priv)]

\* The value handed out, and the lock released.
NonceHash(p, t) ==
  /\ At(p, t, "hash")
  /\ nonce' = [nonce EXCEPT ![p] = Digest(@)]
  /\ issued' = issued \cup {[val |-> Digest(nonce[p]).buf,
                             no |-> Cardinality(issued)]}
  /\ nlock' = [nlock EXCEPT ![p] = Free]
  /\ Goto(p, t, "idle")
  /\ req' = [req EXCEPT ![p][t] = Idle]
  /\ UNCHANGED <<fips, up, drbg, oldflags, lock, types, any_init, failed,
                 seeds, out, short, calls, controls>>

-----------------------------------------------------------------------------
(* The calls *)

\* gcry_randomize, gcry_random_bytes: len bytes are asked for.  The length is
\* cast to unsigned int on its way to drbg_generate_long.
Randomize(p, t, len) ==
  /\ At(p, t, "idle") /\ ~failed[p] /\ calls < MaxCalls
  /\ calls' = calls + 1
  /\ req' = [req EXCEPT ![p][t] = [nonce |-> FALSE, len |-> len,
                                   left |-> len % UIntMod]]
  /\ Goto(p, t, "init")
  /\ UNCHANGED <<fips, up, drbg, oldflags, lock, types, any_init, nonce, nlock,
                 failed, seeds, out, issued, short, controls>>

\* gcry_create_nonce: the DRBG serves it in FIPS mode, else the nonce buffer,
\* whose private part takes one request of 8 bytes.
CreateNonce(p, t) ==
  /\ At(p, t, "idle") /\ ~failed[p] /\ calls < MaxCalls
  /\ calls' = calls + 1
  /\ req' = [req EXCEPT ![p][t] = [nonce |-> TRUE, len |-> 1, left |-> 1]]
  /\ Goto(p, t, IF fips THEN "init" ELSE "ninit")
  /\ UNCHANGED <<fips, up, drbg, oldflags, lock, types, any_init, nonce, nlock,
                 failed, seeds, out, issued, short, controls>>

\* GCRYCTL_DRBG_REINIT
Reinit(p, t, flags) ==
  /\ At(p, t, "idle") /\ RngType(p) = "fips" /\ lock[p] = Free
  /\ controls < MaxControls /\ controls' = controls + 1
  /\ InitInternal(p, flags)
  /\ UNCHANGED <<fips, lock, types, any_init, nonce, nlock, pc, req, out,
                 issued, short, calls>>

\* GCRYCTL_CLOSE_RANDOM_DEVICE; the other generators keep nothing we model.
CloseFds(p, t) ==
  /\ At(p, t, "idle") /\ RngType(p) = "fips" /\ lock[p] = Free
  /\ controls < MaxControls /\ controls' = controls + 1
  /\ drbg' = [drbg EXCEPT ![p] = IF @.live
                THEN [Uninstantiated(@) EXCEPT !.live = FALSE] ELSE @]
  /\ up' = [up EXCEPT ![p] = IF drbg[p].live /\ ClosedTwice(drbg[p])
                             THEN "ub" ELSE @]
  /\ UNCHANGED <<fips, oldflags, lock, types, any_init, nonce, nlock, failed,
                 pc, req, seeds, out, issued, short, calls>>

\* _gcry_set_preferred_rng_type, directly or (type 0) by any other control.
SetPreferred(p, t, type) ==
  /\ At(p, t, "idle")
  /\ controls < MaxControls /\ controls' = controls + 1
  /\ types' = IF type = "standard" \/ ~any_init[p]
              THEN [types EXCEPT ![p] = @ \cup {type}] ELSE types
  /\ UNCHANGED <<fips, up, drbg, oldflags, lock, any_init, nonce, nlock,
                 failed, pc, req, seeds, out, issued, short, calls>>

AnyInit(p, t) ==
  /\ At(p, t, "idle") /\ ~any_init[p]
  /\ controls < MaxControls /\ controls' = controls + 1
  /\ any_init' = [any_init EXCEPT ![p] = TRUE]
  /\ UNCHANGED <<fips, up, drbg, oldflags, lock, types, nonce, nlock,
                 failed, pc, req, seeds, out, issued, short, calls>>

\* fork () by thread t: the child q has a copy of the memory, locks that other
\* threads hold included, and only the thread that forked.
Fork(p, t, q) ==
  /\ At(p, t, "idle")
  /\ up[q] = "absent" /\ \A r \in Procs : up[r] = "absent" => q <= r
  /\ up' = [up EXCEPT ![q] = "up"]
  /\ drbg' = [drbg EXCEPT ![q] = drbg[p]]
  /\ oldflags' = [oldflags EXCEPT ![q] = oldflags[p]]
  /\ lock' = [lock EXCEPT ![q] = lock[p]]
  /\ types' = [types EXCEPT ![q] = types[p]]
  /\ any_init' = [any_init EXCEPT ![q] = any_init[p]]
  /\ nonce' = [nonce EXCEPT ![q] = nonce[p]]
  /\ nlock' = [nlock EXCEPT ![q] = nlock[p]]
  /\ failed' = [failed EXCEPT ![q] = failed[p]]
  /\ pc' = [pc EXCEPT ![q][t] = "idle"]
  /\ UNCHANGED <<fips, req, seeds, out, issued, short, calls, controls>>

\* The steps a thread takes on its own once it has made its call.
Step(p, t) ==
  \/ AutoInit(p, t, "init", "body")
  \/ AutoInit(p, t, "ninit", "nlock")
  \/ OtherRng(p, t) \/ Vanished(p, t) \/ Enter(p, t) \/ Generate(p, t)
  \/ NonceLock(p, t) \/ NonceSet(p, t) \/ NonceHash(p, t)

Next ==
  \E p \in Procs, t \in Threads :
    \/ Step(p, t)
    \/ \E len \in Lens : Randomize(p, t, len)
    \/ CreateNonce(p, t)
    \/ \E flags \in Flags : Reinit(p, t, flags)
    \/ CloseFds(p, t)
    \/ \E type \in Prefs : SetPreferred(p, t, type)
    \/ AnyInit(p, t)
    \/ \E q \in Procs : Fork(p, t, q)

\* A process whose threads can go on does not stop; nothing makes anybody call.
Spec == /\ Init /\ [][Next]_vars
        /\ \A p \in Procs : WF_vars(\E t \in Threads : Step(p, t))
-----------------------------------------------------------------------------
(* Correctness *)

State == [by : Procs \cup {0}, seed : Nat, n : Nat]

Instance == [live : BOOLEAN, v : State, seeded : BOOLEAN, reseed_ctr : Nat,
             pid : Procs \cup {0}, pr : BOOLEAN,
             handle : {"none", "open", "closed"}]

NonceBuffer == [init : BOOLEAN, pid : Procs \cup {0}, buf : Seq(State),
                priv : State]

Request == [nonce : BOOLEAN, len : Nat, left : Nat]

Labels == {"idle", "absent", "init", "body", "gen", "ninit", "nlock", "set", "hash"}

TypeOK ==
  /\ fips \in BOOLEAN
  /\ up \in [Procs -> {"absent", "up", "dead", "ub"}]
  /\ drbg \in [Procs -> Instance]
  /\ nonce \in [Procs -> NonceBuffer]
  /\ lock \in [Procs -> Threads \cup {Free}]
  /\ nlock \in [Procs -> Threads \cup {Free}]
  /\ failed \in [Procs -> BOOLEAN]
  /\ pc \in [Procs -> [Threads -> Labels]]
  /\ req \in [Procs -> [Threads -> Request]]
  /\ seeds \in Nat
  /\ \A x \in out : x.by \in Procs /\ x.state \in State
  /\ \A x \in issued : x.val \in Seq(State)
  /\ short \in [Procs -> Nat]

\* No two requests, of whatever threads and processes, are served from the same
\* internal state, and none from entropy another process gathered: a child
\* reseeds before its first byte, however the fork falls (seed_init_pid).
Unrepeated ==
  /\ \A x, y \in out : x.state = y.state => x = y
  /\ \A x \in out : x.state.by = x.by

\* One seeding serves at most drbg_max_requests () requests, and a single one
\* with prediction resistance, also when a long request is cut into slices.
InTime == \A x \in out : x.state.n < MaxRequests /\ (x.pr => x.state.n = 0)

\* No nonce is given out twice, in no process of the family, as long as every
\* request for random bytes was really served.
NoncesUnique ==
  (\A p \in Procs : short[p] = 0) =>
     \A x, y \in issued : x.val = y.val => x = y

\* In FIPS mode a caller whose buffer was not filled is not left in the dark:
\* the module is in its error state.
Reported == \A p \in Procs : fips /\ short[p] > 0 => failed[p]

Orphaned(p) ==
  \/ lock[p] # Free /\ pc[p][lock[p]] = "absent"
  \/ nlock[p] # Free /\ pc[p][nlock[p]] = "absent"

\* The requests made, MaxCalls of them in any order, all end in return or in
\* the end of the process, unless a fork took away the thread that held one of
\* the two locks: nothing else keeps a lock or waits for ever.
RequestsEnd ==
  <>[](\A p \in Procs, t \in Threads :
         pc[p][t] \in {"idle", "absent"} \/ up[p] # "up" \/ Orphaned(p))
=============================================================================
