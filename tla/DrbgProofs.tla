----------------------------- MODULE DrbgProofs -----------------------------
(***************************************************************************)
(* The generator and the nonces of Drbg, for any number of processes,      *)
(* threads, requests and slices.                                           *)
(***************************************************************************)
EXTENDS Drbg, TLAPS, SequenceTheorems

Born(p) == up[p] # "absent"

\* A process that does not exist yet has no threads and no requests.
Unborn ==
  \A p \in Procs : ~Born(p) =>
    /\ short[p] = 0
    /\ \A t \in Threads : pc[p][t] = "absent"

\* The counter of an instance, whose entropy it runs on, and that it is ahead
\* of what was served from it.
Counted(p) ==
  drbg[p].seeded =>
    /\ drbg[p].reseed_ctr = drbg[p].v.n + 1
    /\ drbg[p].v.seed <= seeds
    /\ drbg[p].v.by \in Procs /\ Born(drbg[p].v.by)
    /\ drbg[p].pid = p => drbg[p].v.by = p

Ahead(p) ==
  drbg[p].seeded /\ drbg[p].v.by = p =>
    \A x \in out : x.state.by = p /\ x.state.seed = drbg[p].v.seed
                     => x.state.n < drbg[p].v.n

\* Pids that are remembered are those of processes that exist.
PidKnown(p) ==
  /\ drbg[p].pid # 0 => Born(drbg[p].pid)
  /\ nonce[p].pid # 0 => Born(nonce[p].pid)

\* Who generates has the lock and has looked at the pid.
Generating(p) ==
  \A t \in Threads : pc[p][t] = "gen" => lock[p] = t /\ drbg[p].pid = p

Served == \A x \in out : x.state.seed <= seeds

AllFilled == \A p \in Procs : short[p] = 0

LastOf(val) == val[Len(val)]

\* The private part was filled in this very process once its pid is in, and on
\* the way to the hash.
PrivateOwn(p) ==
  /\ nonce[p].init /\ nonce[p].pid = p => nonce[p].priv.by = p
  /\ \A t \in Threads : /\ pc[p][t] \in {"set", "hash"} => nonce[p].priv.by = p
                        /\ pc[p][t] = "hash" => nonce[p].init

\* The buffer of a process is at least as long as every nonce it gave out.
Longest(p) ==
  \A x \in issued : LastOf(x.val).by = p =>
    nonce[p].init /\ Len(x.val) <= Len(nonce[p].buf)

Signed == \A x \in issued :
  Len(x.val) > 0 /\ LastOf(x.val).by \in Procs /\ Born(LastOf(x.val).by)

NoncesApart == \A x, y \in issued : x.val = y.val => x = y

NonceInv == /\ \A p \in Procs : PrivateOwn(p) /\ Longest(p)
            /\ Signed /\ NoncesApart

Inv == /\ TypeOK /\ Unborn /\ Served
       /\ \A p \in Procs : Counted(p) /\ Ahead(p) /\ PidKnown(p) /\ Generating(p)
       /\ Unrepeated /\ InTime
       /\ AllFilled => NonceInv
-----------------------------------------------------------------------------
(* The operators *)

\* What drbg_instantiate leaves: a new seeding of this very process, or an
\* instance that was never seeded and belongs to nobody.
Renewed(d, p) ==
  d.seeded /\ d.v = NewState(p) /\ d.reseed_ctr = 1 /\ d.pid = p

Dropped(d) == ~d.seeded /\ d.pid = 0

\* A new seeding is a state of its process that nothing was drawn from.
LEMMA NewStateType ==
  ASSUME TypeOK, NEW p \in Procs
  PROVE  /\ NewState(p) \in State /\ NewState(p).by = p
         /\ NewState(p).seed = seeds + 1 /\ NewState(p).n = 0
BY DrbgAssumption DEF NewState, State, TypeOK

\* drbg_uninstantiate leaves an instance without a seed.
LEMMA UninstantiatedOutcome ==
  ASSUME NEW d \in Instance
  PROVE  /\ Uninstantiated(d) \in Instance
         /\ Dropped(Uninstantiated(d))
         /\ Uninstantiated(d).live = d.live
BY DEF Uninstantiated, Instance, Dropped, NoState, State

\* drbg_seed puts in a new seeding and restarts the counter.
LEMMA SeededOutcome ==
  ASSUME TypeOK, NEW p \in Procs, NEW d \in Instance
  PROVE  /\ Seeded(d, p) \in Instance
         /\ Seeded(d, p).seeded /\ Seeded(d, p).v = NewState(p)
         /\ Seeded(d, p).reseed_ctr = 1 /\ Seeded(d, p).pid = d.pid
         /\ Seeded(d, p).pr = d.pr
BY NewStateType DEF Seeded, Instance

\* What drbg_instantiate returns, succeeding or not.
LEMMA InstantiateOutcome ==
  ASSUME TypeOK, NEW p \in Procs, NEW flags, NEW r \in Instantiate(p, flags)
  PROVE  /\ r.d \in Instance /\ r.ub \in BOOLEAN /\ r.ok \in BOOLEAN
         /\ IF r.ok THEN Renewed(r.d, p) ELSE Dropped(r.d)
<1> DEFINE base == IF drbg[p].live THEN Uninstantiated(drbg[p]) ELSE drbg[p]
           open == [base EXCEPT !.live = TRUE, !.pr = (flags = "pr"),
                                !.handle = "open"]
           live == [base EXCEPT !.live = TRUE]
           new == [Seeded(open, p) EXCEPT !.pid = p]
<1>1. drbg[p] \in Instance
  BY DEF TypeOK
<1>2. base \in Instance
  BY <1>1, UninstantiatedOutcome
<1>3. open \in Instance /\ live \in Instance
  <2> HIDE DEF base
  <2> QED BY <1>2 DEF Instance
<1> HIDE DEF open, live, base
<1>4. /\ Uninstantiated(open) \in Instance /\ Dropped(Uninstantiated(open))
      /\ Uninstantiated(live) \in Instance /\ Dropped(Uninstantiated(live))
  BY <1>3, UninstantiatedOutcome
<1>5. new \in Instance /\ Renewed(new, p)
  BY <1>3, SeededOutcome DEF Renewed, Instance
<1> HIDE DEF new
<1>6. \/ r = [d |-> new, ub |-> FALSE, ok |-> TRUE]
      \/ r = [d |-> Uninstantiated(live), ub |-> ClosedTwice(base), ok |-> FALSE]
      \/ r = [d |-> Uninstantiated(open), ub |-> TRUE, ok |-> FALSE]
  BY DEF Instantiate, new, live, open, base
<1>7. ClosedTwice(base) \in BOOLEAN
  BY DEF ClosedTwice
<1>8. CASE r = [d |-> new, ub |-> FALSE, ok |-> TRUE]
  BY <1>5, <1>8
<1>9. CASE r = [d |-> Uninstantiated(live), ub |-> ClosedTwice(base), ok |-> FALSE]
  BY <1>4, <1>7, <1>9
<1>10. CASE r = [d |-> Uninstantiated(open), ub |-> TRUE, ok |-> FALSE]
  BY <1>4, <1>10
<1> QED BY <1>6, <1>8, <1>9, <1>10

\* What the generator may have become by a step that serves nothing.
Replaced(p) ==
  \/ UNCHANGED <<drbg, seeds>>
  \/ /\ drbg' = [drbg EXCEPT ![p] = drbg'[p]] /\ drbg'[p] \in Instance
     /\ \/ Renewed(drbg'[p], p) /\ seeds' = seeds + 1
        \/ Dropped(drbg'[p]) /\ seeds' = seeds

\* A process may end in this step, and only this one.
Survives(p) == \E s \in {up[p], "dead", "ub"} : up' = [up EXCEPT ![p] = s]

\* _drbg_init_internal touches the instance of its own process only.
LEMMA InitInternalOutcome ==
  ASSUME TypeOK, NEW p \in Procs, NEW flags, InitInternal(p, flags)
  PROVE  Replaced(p) /\ Survives(p) /\ failed' \in [Procs -> BOOLEAN]
<1>1. CASE Effective(p, flags) = "nocore"
  <2>1. UNCHANGED <<drbg, up, failed, seeds>>
    BY <1>1 DEF InitInternal
  <2>2. up = [up EXCEPT ![p] = up[p]]
    BY DEF TypeOK
  <2> QED BY <2>1, <2>2 DEF Replaced, Survives, TypeOK
<1>2. CASE Effective(p, flags) # "nocore"
  <2>1. PICK r \in Instantiate(p, Effective(p, flags)) :
          /\ drbg' = [drbg EXCEPT ![p] = r.d]
          /\ up' = [up EXCEPT ![p] = IF r.ub THEN "ub" ELSE @]
          /\ failed' = [failed EXCEPT ![p] = @ \/ (fips /\ ~r.ok)]
          /\ seeds' = IF r.ok THEN seeds + 1 ELSE seeds
    BY <1>2 DEF InitInternal
  <2>2. /\ r.d \in Instance /\ r.ub \in BOOLEAN /\ r.ok \in BOOLEAN
        /\ IF r.ok THEN Renewed(r.d, p) ELSE Dropped(r.d)
    BY InstantiateOutcome
  <2>3. drbg'[p] = r.d
    BY <2>1 DEF TypeOK
  <2>4. Replaced(p)
    BY <2>1, <2>2, <2>3 DEF Replaced
  <2>5. Survives(p)
    BY <2>1, <2>2 DEF Survives
  <2>6. failed' \in [Procs -> BOOLEAN]
    BY <2>1, <2>2 DEF TypeOK
  <2> QED BY <2>4, <2>5, <2>6
<1> QED BY <1>1, <1>2

\* A replaced instance has its type, and seedings are only added.
LEMMA ReplacedType ==
  ASSUME TypeOK, NEW p \in Procs, Replaced(p)
  PROVE  drbg' \in [Procs -> Instance] /\ seeds' \in Nat /\ seeds <= seeds'
<1>1. CASE UNCHANGED <<drbg, seeds>>
  BY <1>1 DEF TypeOK
<1>2. CASE ~UNCHANGED <<drbg, seeds>>
  <2> DEFINE e == drbg'[p]
  <2>1. drbg' = [drbg EXCEPT ![p] = e] /\ e \in Instance
    BY <1>2 DEF Replaced
  <2> HIDE DEF e
  <2>2. drbg' \in [Procs -> Instance]
    BY <2>1 DEF TypeOK
  <2>3. seeds' = seeds + 1 \/ seeds' = seeds
    BY <1>2 DEF Replaced
  <2> QED BY <2>2, <2>3 DEF TypeOK
<1> QED BY <1>1, <1>2

\* A process that goes on or ends was born before and after.
LEMMA SurvivesType ==
  ASSUME TypeOK, NEW p \in Procs, Survives(p), Born(p)
  PROVE  /\ up' \in [Procs -> {"absent", "up", "dead", "ub"}]
         /\ \A q \in Procs : Born(q)' <=> Born(q)
BY DEF TypeOK, Survives, Born
\* One slice: what it is served from belongs to this process, is new or ahead
\* of what was served before, and is still good for one more.
LEMMA GenerateOutcome ==
  ASSUME Inv, NEW p \in Procs, NEW t \in Threads, pc[p][t] = "gen",
         NEW d, d = IF MustReseed(drbg[p]) THEN Seeded(drbg[p], p) ELSE drbg[p]
  PROVE  /\ d \in Instance /\ d.seeded /\ d.pid = p
         /\ d.v.by = p /\ d.reseed_ctr = d.v.n + 1
         /\ d.v.n < MaxRequests /\ (d.pr => d.v.n = 0)
         /\ d.v.seed <= (IF MustReseed(drbg[p]) THEN seeds + 1 ELSE seeds)
         /\ \A x \in out : x.state.by = p /\ x.state.seed = d.v.seed
                             => x.state.n < d.v.n
<1>1. drbg[p] \in Instance /\ drbg[p].pid = p /\ TypeOK
  BY DEF Inv, TypeOK, Generating
<1>2. CASE MustReseed(drbg[p])
  <2>1. /\ d \in Instance /\ d.seeded /\ d.v = NewState(p) /\ d.reseed_ctr = 1
        /\ d.pid = p
    BY <1>1, <1>2, SeededOutcome
  <2>2. \A x \in out : x.state \in State /\ x.state.seed <= seeds
    BY DEF Inv, Served, TypeOK
  <2>3. /\ NewState(p) \in State /\ NewState(p).by = p
        /\ NewState(p).seed = seeds + 1 /\ NewState(p).n = 0
    BY <1>1, NewStateType
  <2>4. \A x \in out : x.state.seed # d.v.seed
    BY <1>1, <2>1, <2>2, <2>3 DEF TypeOK, State
  <2> QED BY <1>1, <1>2, <2>1, <2>3, <2>4, DrbgAssumption DEF TypeOK
<1>3. CASE ~MustReseed(drbg[p])
  <2>1. d = drbg[p] /\ d.seeded /\ ~d.pr /\ ~(MaxRequests < d.reseed_ctr)
    BY <1>3 DEF MustReseed, Exhausted
  <2>2. Counted(p) /\ Ahead(p)
    BY DEF Inv
  <2>3. d.v \in State /\ d.reseed_ctr \in Nat /\ d.v.n \in Nat
    BY <1>1, <2>1 DEF Instance, State
  <2>4. d.reseed_ctr = d.v.n + 1 /\ d.v.seed <= seeds /\ d.v.by = p
    BY <1>1, <2>1, <2>2 DEF Counted
  <2>5. d.v.n < MaxRequests
    BY <2>1, <2>3, <2>4, DrbgAssumption
  <2> QED BY <1>1, <1>3, <2>1, <2>2, <2>4, <2>5 DEF Ahead
<1> QED BY <1>2, <1>3
-----------------------------------------------------------------------------
(* Types *)

\* A thread that goes on keeps the type of the program counters.
LEMMA GotoType ==
  ASSUME TypeOK, NEW p \in Procs, NEW t \in Threads, NEW label \in Labels,
         Goto(p, t, label)
  PROVE  pc' \in [Procs -> [Threads -> Labels]]
BY DEF TypeOK, Goto

\* The request of an idle thread is one.
LEMMA IdleType == Idle \in Request
BY DEF Idle, Request

\* Returning keeps types.
LEMMA ReturnType ==
  ASSUME TypeOK, NEW p \in Procs, NEW t \in Threads, Return(p, t)
  PROVE  /\ pc' \in [Procs -> [Threads -> Labels]]
         /\ req' \in [Procs -> [Threads -> Request]]
<1>1. pc' \in [Procs -> [Threads -> Labels]]
  BY GotoType DEF Return, Labels
<1>2. req' \in [Procs -> [Threads -> Request]]
  BY IdleType DEF Return, TypeOK
<1> QED BY <1>1, <1>2

\* A private part from the generator fits the nonce buffer.
LEMMA PrivType ==
  ASSUME TypeOK, NEW p \in Procs, NEW st \in State
  PROVE  [nonce EXCEPT ![p].priv = st] \in [Procs -> NonceBuffer]
BY DEF TypeOK, NonceBuffer

\* The automatic initialisation may replace the instance of its process.
LEMMA AutoInitOutcome ==
  ASSUME TypeOK, NEW p \in Procs, NEW t \in Threads, NEW label, NEW next,
         AutoInit(p, t, label, next)
  PROVE  /\ Replaced(p) /\ Survives(p) /\ Born(p)
         /\ failed' \in [Procs -> BOOLEAN]
<1>1. CASE UNCHANGED <<drbg, up, failed, seeds, oldflags>>
  <2>1. up = [up EXCEPT ![p] = up[p]]
    BY DEF TypeOK
  <2> QED BY <1>1, <2>1 DEF Replaced, Survives, TypeOK, AutoInit, At, Born
<1>2. CASE InitInternal(p, "none")
  BY <1>2, InitInternalOutcome DEF AutoInit, At, Born
<1> QED BY <1>1, <1>2 DEF AutoInit

\* A request goes on to generate only with an instance of this very process.
LEMMA EnterOutcome ==
  ASSUME TypeOK, NEW p \in Procs, NEW t \in Threads, Enter(p, t)
  PROVE  /\ Replaced(p) /\ Survives(p) /\ Born(p)
         /\ pc' # pc => Goto(p, t, "gen") /\ drbg'[p].pid = p
<1>1. drbg[p] \in Instance /\ up = [up EXCEPT ![p] = up[p]] /\ Born(p)
  BY DEF TypeOK, Enter, At, Born
<1>2. CASE SamePid(p) /\ Goto(p, t, "gen") /\ UNCHANGED <<drbg, up, seeds>>
  BY <1>1, <1>2 DEF Replaced, Survives, SamePid
<1>3. CASE /\ drbg' = [drbg EXCEPT ![p] = Seeded([@ EXCEPT !.pid = p], p)]
           /\ seeds' = seeds + 1 /\ Goto(p, t, "gen") /\ UNCHANGED up
  <2> DEFINE e == [drbg[p] EXCEPT !.pid = p]
  <2>1. e \in Instance /\ e.pid = p
    BY <1>1 DEF Instance
  <2>2. Seeded(e, p) \in Instance /\ Renewed(Seeded(e, p), p)
    BY <2>1, SeededOutcome DEF Renewed
  <2>3. drbg' = [drbg EXCEPT ![p] = Seeded(e, p)] /\ drbg'[p] = Seeded(e, p)
    BY <1>3 DEF TypeOK
  <2> HIDE DEF e
  <2>4. drbg'[p].pid = p
    BY <2>2, <2>3 DEF Renewed
  <2> QED BY <1>1, <1>3, <2>2, <2>3, <2>4 DEF Replaced, Survives
<1>4. CASE /\ up' = [up EXCEPT ![p] = IF drbg[p].v = NoState THEN "ub" ELSE "dead"]
           /\ UNCHANGED <<drbg, seeds, pc>>
  BY <1>1, <1>4 DEF Replaced, Survives
<1> QED BY <1>2, <1>3, <1>4 DEF Enter

\* Closing replaces the instance of its own process at most.
LEMMA CloseFdsOutcome ==
  ASSUME TypeOK, NEW p \in Procs, NEW t \in Threads, CloseFds(p, t)
  PROVE  Replaced(p) /\ Survives(p) /\ Born(p)
<1>1. drbg[p] \in Instance /\ Born(p)
  BY DEF TypeOK, CloseFds, At, Born
<1>2. Survives(p)
  BY DEF CloseFds, Survives
<1>3. CASE drbg[p].live
  <2> DEFINE e == [Uninstantiated(drbg[p]) EXCEPT !.live = FALSE]
  <2>1. e \in Instance /\ Dropped(e)
    BY <1>1, UninstantiatedOutcome DEF Dropped, Instance
  <2>2. drbg' = [drbg EXCEPT ![p] = e] /\ drbg'[p] = e /\ seeds' = seeds
    BY <1>3 DEF TypeOK, CloseFds
  <2> HIDE DEF e
  <2> QED BY <1>1, <1>2, <2>1, <2>2 DEF Replaced
<1>4. CASE ~drbg[p].live
  BY <1>1, <1>2, <1>4 DEF TypeOK, CloseFds, Replaced
<1> QED BY <1>3, <1>4

\* The branch of Generate that serves a slice, and the one that ends the
\* process.
Serves(p, t) ==
  /\ At(p, t, "gen") /\ req[p][t].left > 0
  /\ \E d \in {IF MustReseed(drbg[p]) THEN Seeded(drbg[p], p) ELSE drbg[p]} :
       /\ drbg' = [drbg EXCEPT ![p] = [d EXCEPT !.v.n = @ + 1,
                                                !.reseed_ctr = @ + 1]]
       /\ Serve(p, t, d.v, d.pr)
       /\ nonce' = IF req[p][t].nonce /\ ~fips
                   THEN [nonce EXCEPT ![p].priv = d.v] ELSE nonce
  /\ seeds' = IF MustReseed(drbg[p]) THEN seeds + 1 ELSE seeds
  /\ LET left == req[p][t].left - Slice(req[p][t].left)
     IN  \/ /\ left > 0 /\ req' = [req EXCEPT ![p][t].left = left]
            /\ UNCHANGED <<pc, lock, short>>
         \/ /\ Return(p, t)
            /\ lock' = [lock EXCEPT ![p] = Free]
            /\ short' = IF req[p][t].len < UIntMod THEN short
                        ELSE [short EXCEPT ![p] = @ + 1]
  /\ UNCHANGED <<up, fips, oldflags, types, any_init, nlock, failed, issued,
                 calls, controls>>

Breaks(p, t) ==
  /\ At(p, t, "gen")
  /\ up' = [up EXCEPT ![p] = "dead"]
  /\ UNCHANGED <<drbg, seeds, out, nonce, req, pc, lock, short, fips, oldflags,
                 types, any_init, nlock, failed, issued, calls, controls>>

\* A slice is served, or the process ends.
LEMMA GenerateCases ==
  ASSUME NEW p \in Procs, NEW t \in Threads, Generate(p, t)
  PROVE  Serves(p, t) \/ Breaks(p, t)
BY DEF Generate, Serves, Breaks

\* What is served came from a process and a state.
LEMMA ServeType ==
  ASSUME TypeOK, NEW p \in Procs, NEW t \in Threads, NEW st \in State, NEW pr,
         Serve(p, t, st, pr)
  PROVE  \A x \in out' : x.by \in Procs /\ x.state \in State
BY DEF TypeOK, Serve

\* A slice that is served keeps types.
LEMMA TypeServes ==
  ASSUME Inv, NEW p \in Procs, NEW t \in Threads, Serves(p, t)
  PROVE  TypeOK'
<1>1. TypeOK /\ pc[p][t] = "gen"
  BY DEF Inv, Serves, At
<1>2. PICK d :
        /\ d = IF MustReseed(drbg[p]) THEN Seeded(drbg[p], p) ELSE drbg[p]
        /\ drbg' = [drbg EXCEPT ![p] = [d EXCEPT !.v.n = @ + 1,
                                                 !.reseed_ctr = @ + 1]]
        /\ Serve(p, t, d.v, d.pr)
        /\ nonce' = IF req[p][t].nonce /\ ~fips
                    THEN [nonce EXCEPT ![p].priv = d.v] ELSE nonce
  BY DEF Serves
<1>3. d \in Instance /\ d.v \in State
  BY <1>1, <1>2, GenerateOutcome DEF Instance
<1>4. [d EXCEPT !.v.n = @ + 1, !.reseed_ctr = @ + 1] \in Instance
  <2>1. [d.v EXCEPT !.n = @ + 1] \in State /\ d.reseed_ctr + 1 \in Nat
    BY <1>3 DEF Instance, State
  <2> DEFINE v == [d.v EXCEPT !.n = @ + 1]
             c == d.reseed_ctr + 1
  <2>2. [d EXCEPT !.v.n = @ + 1, !.reseed_ctr = @ + 1]
          = [[d EXCEPT !.v = v] EXCEPT !.reseed_ctr = c]
    BY <1>3 DEF Instance
  <2> HIDE DEF v, c
  <2> QED BY <1>3, <2>1, <2>2 DEF Instance, v, c
<1>5. drbg' \in [Procs -> Instance]
  BY <1>1, <1>2, <1>4 DEF TypeOK
<1>6. \A x \in out' : x.by \in Procs /\ x.state \in State
  BY <1>1, <1>2, <1>3, ServeType
<1>7. nonce' \in [Procs -> NonceBuffer]
  BY <1>1, <1>2, <1>3, PrivType DEF TypeOK
<1>8. seeds' \in Nat
  BY <1>1 DEF TypeOK, Serves
<1>9. /\ pc' \in [Procs -> [Threads -> Labels]]
      /\ req' \in [Procs -> [Threads -> Request]]
  <2>1. CASE Return(p, t)
    BY <1>1, <2>1, ReturnType
  <2> DEFINE left == req[p][t].left - Slice(req[p][t].left)
  <2>2. CASE left > 0 /\ req' = [req EXCEPT ![p][t].left = left] /\ UNCHANGED pc
    <3>1. req[p][t] \in Request
      BY <1>1 DEF TypeOK
    <3>2. left \in Nat
      BY <2>2, <3>1, DrbgAssumption DEF Slice, Request
    <3> HIDE DEF left
    <3>3. [req[p][t] EXCEPT !.left = left] \in Request
      BY <3>1, <3>2 DEF Request
    <3>4. req' = [req EXCEPT ![p] = [req[p] EXCEPT ![t] =
                                       [req[p][t] EXCEPT !.left = left]]]
      BY <2>2
    <3>5. req' \in [Procs -> [Threads -> Request]]
      BY <1>1, <3>3, <3>4 DEF TypeOK
    <3> QED BY <1>1, <2>2, <3>5 DEF TypeOK
  <2> QED BY <2>1, <2>2 DEF Serves
<1>10. lock' \in [Procs -> Threads \cup {Free}]
  <2>1. lock' = lock \/ lock' = [lock EXCEPT ![p] = Free]
    BY DEF Serves
  <2> QED BY <1>1, <2>1 DEF TypeOK
<1>11. short' \in [Procs -> Nat]
  <2>1. short' = short \/ short' = [short EXCEPT ![p] = @ + 1]
    BY DEF Serves
  <2> QED BY <1>1, <2>1 DEF TypeOK
<1> QED
  BY <1>1, <1>5, <1>6, <1>7, <1>8, <1>9, <1>10, <1>11 DEF TypeOK, Serves

\* A fork keeps types.
LEMMA TypeFork ==
  ASSUME TypeOK, NEW p \in Procs, NEW t \in Threads, NEW q \in Procs,
         Fork(p, t, q)
  PROVE  TypeOK'
BY DEF TypeOK, Fork, Labels

\* Handing out a nonce keeps types.
LEMMA TypeNonceHash ==
  ASSUME TypeOK, NEW p \in Procs, NEW t \in Threads, NonceHash(p, t)
  PROVE  TypeOK'
<1> DEFINE b == nonce[p]
<1>1. b \in NonceBuffer /\ b.buf \in Seq(State) /\ b.priv \in State
  BY DEF TypeOK, NonceBuffer
<1>2. Append(b.buf, b.priv) \in Seq(State)
  BY <1>1
<1>3. Digest(b) \in NonceBuffer /\ Digest(b).buf = Append(b.buf, b.priv)
  BY <1>1, <1>2 DEF Digest, NonceBuffer
<1>4. nonce' = [nonce EXCEPT ![p] = Digest(b)]
  BY DEF NonceHash
<1>5. issued' = issued \cup {[val |-> Digest(b).buf, no |-> Cardinality(issued)]}
  BY DEF NonceHash
<1> HIDE DEF b
<1>6. nonce' \in [Procs -> NonceBuffer]
  BY <1>3, <1>4 DEF TypeOK
<1>7. \A x \in issued' : x.val \in Seq(State)
  <2>1. \A x \in issued : x.val \in Seq(State)
    BY DEF TypeOK
  <2>2. Digest(b).buf \in Seq(State)
    BY <1>2, <1>3
  <2>3. \A x \in issued' : x \in issued \/ x.val = Digest(b).buf
    BY <1>5
  <2> QED BY <2>1, <2>2, <2>3
<1>8. pc' \in [Procs -> [Threads -> Labels]]
  BY GotoType DEF NonceHash, Labels
<1>9. req' \in [Procs -> [Threads -> Request]]
  BY IdleType DEF NonceHash, TypeOK
<1>10. nlock' \in [Procs -> Threads \cup {Free}]
  BY DEF NonceHash, TypeOK
<1> QED BY <1>6, <1>7, <1>8, <1>9, <1>10 DEF TypeOK, NonceHash

\* Taking the nonce lock keeps types.
LEMMA TypeNonceLock ==
  ASSUME TypeOK, NEW p \in Procs, NEW t \in Threads, NonceLock(p, t)
  PROVE  TypeOK'
<1>1. Stamp(p) \in State
  BY DEF Stamp, NoState, State
<1>2. <<Stamp(p)>> \in Seq(State)
  BY <1>1
<1>3. [nonce[p] EXCEPT !.buf = <<Stamp(p)>>, !.pid = p] \in NonceBuffer
  BY <1>2, ZenonT(60) DEF TypeOK, NonceBuffer
<1>4. \/ nonce' = nonce
      \/ nonce' = [nonce EXCEPT ![p] = [nonce[p] EXCEPT !.buf = <<Stamp(p)>>,
                                                        !.pid = p]]
  BY DEF NonceLock, TypeOK
<1>5. nonce' \in [Procs -> NonceBuffer]
  BY <1>3, <1>4 DEF TypeOK
<1>6. pc' \in [Procs -> [Threads -> Labels]]
  BY GotoType DEF NonceLock, Labels
<1>7. nlock' \in [Procs -> Threads \cup {Free}]
  BY DEF NonceLock, TypeOK
<1> QED BY <1>5, <1>6, <1>7 DEF TypeOK, NonceLock

\* The steps inside a call keep types.
LEMMA TypeStep ==
  ASSUME Inv, NEW p \in Procs, NEW t \in Threads, Step(p, t)
  PROVE  TypeOK'
<1>1. TypeOK
  BY DEF Inv
<1>2. ASSUME NEW label, NEW next \in Labels, AutoInit(p, t, label, next)
      PROVE  TypeOK'
  <2>1. pc' \in [Procs -> [Threads -> Labels]]
    BY <1>1, <1>2, GotoType DEF AutoInit
  <2>2. /\ Replaced(p) /\ Survives(p) /\ Born(p)
        /\ failed' \in [Procs -> BOOLEAN]
    BY <1>1, <1>2, AutoInitOutcome
  <2>3. /\ drbg' \in [Procs -> Instance] /\ seeds' \in Nat
        /\ up' \in [Procs -> {"absent", "up", "dead", "ub"}]
    BY <1>1, <2>2, ReplacedType, SurvivesType
  <2> QED BY <1>1, <1>2, <2>1, <2>2, <2>3 DEF TypeOK, AutoInit
<1>3. CASE OtherRng(p, t)
  <2>1. /\ pc' \in [Procs -> [Threads -> Labels]]
        /\ req' \in [Procs -> [Threads -> Request]]
    BY <1>1, <1>3, ReturnType DEF OtherRng
  <2>2. NewState(p) \in State
    BY <1>1, NewStateType
  <2>3. \A x \in out' : x.by \in Procs /\ x.state \in State
    BY <1>1, <1>3, <2>2, ServeType DEF OtherRng
  <2>4. nonce' \in [Procs -> NonceBuffer]
    BY <1>1, <1>3, <2>2, PrivType DEF OtherRng, TypeOK
  <2> QED BY <1>1, <1>3, <2>1, <2>3, <2>4 DEF TypeOK, OtherRng
<1>4. CASE Vanished(p, t)
  <2>1. /\ pc' \in [Procs -> [Threads -> Labels]]
        /\ req' \in [Procs -> [Threads -> Request]]
    BY <1>1, <1>4, ReturnType DEF Vanished
  <2>2. short' \in [Procs -> Nat]
    BY <1>1, <1>4 DEF TypeOK, Vanished
  <2>3. failed' \in [Procs -> BOOLEAN]
    BY <1>1, <1>4 DEF TypeOK, Vanished
  <2> QED BY <1>1, <1>4, <2>1, <2>2, <2>3 DEF TypeOK, Vanished
<1>5. CASE Enter(p, t)
  <2>1. Replaced(p) /\ Survives(p) /\ Born(p)
    BY <1>1, <1>5, EnterOutcome
  <2>2. /\ drbg' \in [Procs -> Instance] /\ seeds' \in Nat
        /\ up' \in [Procs -> {"absent", "up", "dead", "ub"}]
    BY <1>1, <2>1, ReplacedType, SurvivesType
  <2>3. "gen" \in Labels
    BY DEF Labels
  <2>4. pc' \in [Procs -> [Threads -> Labels]]
    BY <1>1, <1>5, <2>3, EnterOutcome, GotoType DEF TypeOK
  <2> QED BY <1>1, <1>5, <2>2, <2>4 DEF TypeOK, Enter
<1>6. CASE Generate(p, t)
  <2>1. CASE Breaks(p, t)
    BY <1>1, <2>1 DEF TypeOK, Breaks
  <2> QED BY <1>6, <2>1, GenerateCases, TypeServes
<1>7. CASE NonceSet(p, t)
  <2>1. pc' \in [Procs -> [Threads -> Labels]]
    BY <1>1, <1>7, GotoType DEF NonceSet, Labels
  <2>2. nonce' \in [Procs -> NonceBuffer]
    <3>1. nonce' = [nonce EXCEPT ![p] = [nonce[p] EXCEPT !.init = TRUE, !.pid = p]]
      BY <1>1, <1>7 DEF NonceSet, TypeOK
    <3>2. [nonce[p] EXCEPT !.init = TRUE, !.pid = p] \in NonceBuffer
      BY <1>1, ZenonT(60) DEF TypeOK, NonceBuffer
    <3> QED BY <1>1, <3>1, <3>2 DEF TypeOK
  <2> QED BY <1>1, <1>7, <2>1, <2>2 DEF TypeOK, NonceSet
<1>8. "body" \in Labels /\ "nlock" \in Labels
  BY DEF Labels
<1> QED
  BY <1>1, <1>2, <1>3, <1>4, <1>5, <1>6, <1>7, <1>8, TypeNonceLock,
     TypeNonceHash DEF Step

\* The calls keep types.
LEMMA TypeCalls ==
  ASSUME TypeOK, NEW p \in Procs, NEW t \in Threads
  PROVE  /\ \A len \in Lens : Randomize(p, t, len) => TypeOK'
         /\ CreateNonce(p, t) => TypeOK'
         /\ \A flags \in Flags : Reinit(p, t, flags) => TypeOK'
         /\ CloseFds(p, t) => TypeOK'
<1>1. ASSUME NEW len \in Lens, Randomize(p, t, len) PROVE TypeOK'
  <2>1. [nonce |-> FALSE, len |-> len, left |-> len % UIntMod] \in Request
    BY DrbgAssumption DEF Request
  <2>2. req' \in [Procs -> [Threads -> Request]]
    BY <1>1, <2>1 DEF Randomize, TypeOK
  <2>3. pc' \in [Procs -> [Threads -> Labels]]
    BY <1>1, GotoType DEF Randomize, Labels
  <2> QED BY <1>1, <2>2, <2>3 DEF TypeOK, Randomize
<1>2. CreateNonce(p, t) => TypeOK'
  <2> SUFFICES ASSUME CreateNonce(p, t) PROVE TypeOK'
    OBVIOUS
  <2>1. [nonce |-> TRUE, len |-> 1, left |-> 1] \in Request
    BY DEF Request
  <2>2. req' \in [Procs -> [Threads -> Request]]
    BY <2>1 DEF CreateNonce, TypeOK
  <2>3. pc' \in [Procs -> [Threads -> Labels]]
    BY GotoType DEF CreateNonce, Labels
  <2> QED BY <2>2, <2>3 DEF TypeOK, CreateNonce
<1>3. ASSUME NEW flags \in Flags, Reinit(p, t, flags) PROVE TypeOK'
  <2>1. Replaced(p) /\ Survives(p) /\ failed' \in [Procs -> BOOLEAN] /\ Born(p)
    BY <1>3, InitInternalOutcome DEF Reinit, Born, At
  <2> QED BY <1>3, <2>1, ReplacedType, SurvivesType DEF TypeOK, Reinit
<1>4. CloseFds(p, t) => TypeOK'
  BY CloseFdsOutcome, ReplacedType, SurvivesType DEF TypeOK, CloseFds
<1> QED BY <1>1, <1>2, <1>3, <1>4

\* Every step keeps types.
LEMMA TypeNext ==
  ASSUME Inv, [Next]_vars
  PROVE  TypeOK'
<1>1. TypeOK
  BY DEF Inv
<1>2. CASE UNCHANGED vars
  BY <1>1, <1>2 DEF TypeOK, vars
<1>3. CASE Next
  <2>1. PICK p \in Procs, t \in Threads :
          \/ Step(p, t)
          \/ \E len \in Lens : Randomize(p, t, len)
          \/ CreateNonce(p, t)
          \/ \E flags \in Flags : Reinit(p, t, flags)
          \/ CloseFds(p, t)
          \/ \E type \in Prefs : SetPreferred(p, t, type)
          \/ AnyInit(p, t)
          \/ \E q \in Procs : Fork(p, t, q)
    BY <1>3 DEF Next
  <2>2. CASE \E type \in Prefs : SetPreferred(p, t, type)
    BY <1>1, <2>2 DEF SetPreferred, TypeOK
  <2>3. CASE AnyInit(p, t)
    BY <1>1, <2>3 DEF AnyInit, TypeOK
  <2> QED BY <1>1, <2>1, <2>2, <2>3, TypeStep, TypeCalls, TypeFork
<1> QED BY <1>2, <1>3
-----------------------------------------------------------------------------
(* The generator's part of the invariant *)

Drawn == /\ Served /\ Unrepeated /\ InTime
         /\ \A p \in Procs : Counted(p) /\ Ahead(p)
         /\ \A p \in Procs : drbg[p].pid # 0 => Born(drbg[p].pid)

\* A step that serves nothing keeps it.
LEMMA DrawnReplaced ==
  ASSUME Inv, TypeOK', NEW p \in Procs, Replaced(p), out' = out,
         Born(p), \A q \in Procs : Born(q) => Born(q)'
  PROVE  Drawn'
<1>1. seeds \in Nat /\ seeds' \in Nat /\ seeds <= seeds'
  BY ReplacedType DEF Inv, TypeOK
<1>2. Served'
  BY <1>1 DEF Inv, TypeOK, Served, State
<1>3. Unrepeated' /\ InTime'
  BY DEF Inv, Unrepeated, InTime
<1>4. ASSUME NEW q \in Procs, drbg'[q] = drbg[q]
      PROVE  /\ Counted(q)' /\ Ahead(q)'
             /\ drbg'[q].pid # 0 => Born(drbg[q].pid)'
  <2>1. drbg[q] \in Instance /\ drbg[q].v \in State
    BY DEF Inv, TypeOK, Instance
  <2>2. Counted(q)'
    BY <1>1, <1>4, <2>1 DEF Inv, Counted, State
  <2>3. Ahead(q)'
    BY <1>4 DEF Inv, Ahead
  <2>4. drbg'[q].pid # 0 => Born(drbg[q].pid)'
    BY <1>4, <2>1 DEF Inv, PidKnown, Instance
  <2> QED BY <2>2, <2>3, <2>4
<1>5. CASE drbg' = drbg
  BY <1>2, <1>3, <1>4, <1>5 DEF Drawn
<1>6. CASE drbg' # drbg
  <2> DEFINE e == drbg'[p]
  <2>1. /\ drbg' = [drbg EXCEPT ![p] = e] /\ e \in Instance
        /\ \/ Renewed(e, p) /\ seeds' = seeds + 1
           \/ Dropped(e) /\ seeds' = seeds
    BY <1>6 DEF Replaced
  <2>2. \A q \in Procs : q # p => drbg'[q] = drbg[q]
    <3> HIDE DEF e
    <3> QED BY <2>1 DEF Inv, TypeOK
  <2>3. Counted(p)' /\ Ahead(p)' /\ (drbg'[p].pid # 0 => Born(drbg[p].pid)')
    <3>1. CASE Dropped(e)
      BY <3>1 DEF Dropped, Counted, Ahead
    <3>2. CASE Renewed(e, p) /\ seeds' = seeds + 1
      <4>1. /\ drbg'[p].v \in State /\ drbg'[p].v.by = p
            /\ drbg'[p].v.seed = seeds + 1 /\ drbg'[p].v.n = 0
        BY <3>2, NewStateType DEF Renewed, Inv
      <4>2. drbg'[p].reseed_ctr = 1 /\ drbg'[p].pid = p
        BY <3>2 DEF Renewed
      <4>3. Counted(p)'
        BY <1>1, <3>2, <4>1, <4>2 DEF Counted
      <4>4. \A x \in out' : x.state.seed # seeds + 1
        BY <1>1 DEF Inv, Served, TypeOK, State
      <4>5. Ahead(p)'
        BY <4>1, <4>4 DEF Ahead
      <4> QED BY <4>2, <4>3, <4>5
    <3> QED BY <2>1, <3>1, <3>2
  <2> HIDE DEF e
  <2> QED BY <1>2, <1>3, <1>4, <2>2, <2>3 DEF Drawn
<1> QED BY <1>5, <1>6

\* What is served next is new.
LEMMA DrawnAnew ==
  ASSUME Inv, NEW p \in Procs, NEW t \in Threads, NEW st \in State, NEW pr,
         Serve(p, t, st, pr), st.by = p, st.n < MaxRequests, pr => st.n = 0,
         \A x \in out : x.state.by = p /\ x.state.seed = st.seed => x.state.n < st.n
  PROVE  Unrepeated' /\ InTime'
<1> DEFINE new == [by |-> p, state |-> st, pr |-> pr, no |-> Cardinality(out)]
<1>1. out' = out \cup {new} /\ new.state = st /\ new.by = p /\ new.pr = pr
  BY DEF Serve
<1> HIDE DEF new
<1>2. \A x \in out : x.state # st
  <2>1. \A x \in out : x.state \in State
    BY DEF Inv, TypeOK
  <2> QED BY <2>1 DEF State
<1>3. Unrepeated'
  <2>1. \A x, y \in out' : x.state = y.state => x = y
    BY <1>1, <1>2 DEF Inv, Unrepeated
  <2>2. \A x \in out' : x.state.by = x.by
    BY <1>1 DEF Inv, Unrepeated
  <2> QED BY <2>1, <2>2 DEF Unrepeated
<1>4. InTime'
  BY <1>1 DEF Inv, InTime
<1> QED BY <1>3, <1>4

\* Bytes of another generator do not touch what the DRBG has served.
LEMMA DrawnOther ==
  ASSUME Inv, TypeOK', NEW p \in Procs, NEW t \in Threads, OtherRng(p, t)
  PROVE  Drawn'
<1>1. TypeOK /\ seeds \in Nat /\ seeds' = seeds + 1
  BY DEF Inv, TypeOK, OtherRng
<1>2. /\ NewState(p) \in State /\ NewState(p).by = p
      /\ NewState(p).seed = seeds + 1 /\ NewState(p).n = 0
  BY <1>1, NewStateType
<1>3. \A x \in out : x.state.seed <= seeds /\ x.state \in State
  BY DEF Inv, Served, TypeOK
<1>4. \A x \in out : x.state.seed # seeds + 1
  BY <1>1, <1>3 DEF State
<1>5. Unrepeated' /\ InTime'
  <2> DEFINE st == NewState(p)
  <2>1. /\ st \in State /\ Serve(p, t, st, FALSE) /\ st.by = p
        /\ st.n < MaxRequests
        /\ \A x \in out : x.state.by = p /\ x.state.seed = st.seed
                            => x.state.n < st.n
    <3>1. Serve(p, t, st, FALSE)
      BY DEF OtherRng
    <3>2. 0 < MaxRequests
      BY DrbgAssumption
    <3> QED BY <1>2, <1>4, <3>1, <3>2
  <2> HIDE DEF st
  <2> QED BY <2>1, DrawnAnew
<1>6. \A x \in out' : x \in out \/ x.state = NewState(p)
  BY DEF OtherRng, Serve
<1>7. Served'
  BY <1>1, <1>2, <1>3, <1>6 DEF Served, State
<1>8. ASSUME NEW q \in Procs PROVE Counted(q)' /\ Ahead(q)'
  <2>1. drbg' = drbg /\ up' = up /\ drbg[q].v \in State
    BY DEF OtherRng, Inv, TypeOK, Instance
  <2>2. Counted(q)'
    BY <1>1, <2>1 DEF Inv, Counted, State, Born
  <2>3. drbg[q].seeded => drbg[q].v.seed # seeds + 1
    BY <1>1, <2>1 DEF Inv, Counted, State
  <2>4. Ahead(q)'
    BY <1>2, <1>6, <2>1, <2>3 DEF Inv, Ahead
  <2> QED BY <2>2, <2>4
<1>9. \A q \in Procs : drbg'[q].pid # 0 => Born(drbg[q].pid)'
  BY DEF OtherRng, Inv, PidKnown, Born
<1> QED BY <1>5, <1>7, <1>8, <1>9 DEF Drawn

\* A slice is drawn from a state that never served before, in time.
LEMMA DrawnServes ==
  ASSUME Inv, TypeOK', NEW p \in Procs, NEW t \in Threads, Serves(p, t)
  PROVE  Drawn' /\ drbg'[p].pid = p /\ (\A q \in Procs : q # p => drbg'[q] = drbg[q])
<1>1. TypeOK /\ seeds \in Nat /\ pc[p][t] = "gen" /\ up' = up /\ Born(p)
  BY DEF Inv, TypeOK, Serves, At, Born
<1>2. PICK d :
        /\ d = IF MustReseed(drbg[p]) THEN Seeded(drbg[p], p) ELSE drbg[p]
        /\ drbg' = [drbg EXCEPT ![p] = [d EXCEPT !.v.n = @ + 1,
                                                 !.reseed_ctr = @ + 1]]
        /\ Serve(p, t, d.v, d.pr)
  BY DEF Serves
<1>3. /\ d \in Instance /\ d.seeded /\ d.pid = p
      /\ d.v.by = p /\ d.reseed_ctr = d.v.n + 1
      /\ d.v.n < MaxRequests /\ (d.pr => d.v.n = 0)
      /\ d.v.seed <= (IF MustReseed(drbg[p]) THEN seeds + 1 ELSE seeds)
      /\ \A x \in out : x.state.by = p /\ x.state.seed = d.v.seed
                          => x.state.n < d.v.n
  BY <1>1, <1>2, GenerateOutcome
<1>4. seeds' \in Nat /\ seeds <= seeds' /\ d.v.seed <= seeds'
  BY <1>1, <1>3 DEF Serves
<1>5. d.v \in State /\ d.v.n \in Nat /\ d.v.seed \in Nat
  BY <1>3 DEF Instance, State
<1>6. Unrepeated' /\ InTime'
  <2> DEFINE st == d.v
             pr == d.pr
  <2>1. /\ st \in State /\ Serve(p, t, st, pr) /\ st.by = p
        /\ st.n < MaxRequests /\ (pr => st.n = 0)
        /\ \A x \in out : x.state.by = p /\ x.state.seed = st.seed
                            => x.state.n < st.n
    BY <1>2, <1>3, <1>5
  <2> HIDE DEF st, pr
  <2> QED BY <2>1, DrawnAnew
<1>7. \A x \in out' : x \in out \/ x.state = d.v
  BY <1>2 DEF Serve
<1>8. \A x \in out : x.state \in State /\ x.state.seed <= seeds
  BY DEF Inv, TypeOK, Served
<1>9. Served'
  BY <1>1, <1>4, <1>7, <1>8 DEF Served, State
<1>10. \A q \in Procs : q # p => drbg'[q] = drbg[q]
  BY <1>1, <1>2 DEF TypeOK
<1>11. /\ drbg'[p].v.by = p /\ drbg'[p].v.seed = d.v.seed
       /\ drbg'[p].v.n = d.v.n + 1 /\ drbg'[p].pid = p
       /\ drbg'[p].reseed_ctr = d.reseed_ctr + 1 /\ drbg'[p].seeded
  <2>1. drbg'[p] = [d EXCEPT !.v.n = @ + 1, !.reseed_ctr = @ + 1]
    BY <1>1, <1>2 DEF TypeOK
  <2>2. drbg'[p] = [[d EXCEPT !.v = [d.v EXCEPT !.n = @ + 1]]
                      EXCEPT !.reseed_ctr = d.reseed_ctr + 1]
    BY <1>3, <2>1 DEF Instance
  <2> QED BY <1>3, <1>5, <2>2 DEF Instance, State
<1>12. Counted(p)'
  BY <1>1, <1>3, <1>4, <1>5, <1>11 DEF Counted, Born
<1>13. Ahead(p)'
  BY <1>3, <1>5, <1>7, <1>8, <1>11 DEF Ahead, State
<1>14. ASSUME NEW q \in Procs, q # p PROVE Counted(q)' /\ Ahead(q)'
  <2>1. drbg'[q] = drbg[q] /\ drbg[q].v \in State
    BY <1>1, <1>10, <1>14 DEF TypeOK, Instance
  <2>2. Counted(q)'
    BY <1>1, <1>4, <2>1 DEF Inv, Counted, State, Born
  <2>3. Ahead(q)'
    BY <1>3, <1>7, <1>14, <2>1 DEF Inv, Ahead
  <2> QED BY <2>2, <2>3
<1>15. ASSUME NEW q \in Procs PROVE drbg'[q].pid # 0 => Born(drbg[q].pid)'
  BY <1>1, <1>10, <1>11 DEF Inv, PidKnown, Born
<1> QED BY <1>6, <1>9, <1>10, <1>11, <1>12, <1>13, <1>14, <1>15 DEF Drawn

\* The copy of the state in a child still counts as that of its parent.
LEMMA DrawnFork ==
  ASSUME Inv, TypeOK', NEW p \in Procs, NEW t \in Threads, NEW q \in Procs,
         Fork(p, t, q)
  PROVE  Drawn'
<1>1. /\ ~Born(q) /\ Born(p) /\ out' = out /\ seeds' = seeds
      /\ \A r \in Procs : Born(r) => Born(r)'
  BY DEF Inv, TypeOK, Fork, At, Born
<1>2. /\ drbg'[q] = drbg[p]
      /\ \A r \in Procs : r # q => drbg'[r] = drbg[r]
  BY DEF Inv, TypeOK, Fork
<1>3. Served' /\ Unrepeated' /\ InTime'
  BY <1>1 DEF Inv, Served, Unrepeated, InTime
<1>4. ASSUME NEW r \in Procs, r # q PROVE Counted(r)' /\ Ahead(r)'
  BY <1>1, <1>2, <1>4 DEF Inv, Counted, Ahead
<1>5. drbg[p].pid # q /\ (drbg[p].seeded => drbg[p].v.by # q)
  BY <1>1, DrbgAssumption DEF Inv, PidKnown, Counted
<1>6. Counted(q)' /\ Ahead(q)'
  BY <1>1, <1>2, <1>5 DEF Inv, Counted, Ahead
<1>7. ASSUME NEW r \in Procs PROVE drbg'[r].pid # 0 => Born(drbg[r].pid)'
  <2>1. PICK s \in Procs : drbg'[r] = drbg[s]
    BY <1>2
  <2>2. drbg[s].pid \in Procs \cup {0} /\ (drbg[s].pid # 0 => Born(drbg[s].pid))
    BY DEF Inv, TypeOK, Instance, PidKnown
  <2> QED BY <1>1, <2>1, <2>2
<1> QED BY <1>3, <1>4, <1>6, <1>7 DEF Drawn

\* No step draws from a state twice, or too late.
LEMMA DrawnNext ==
  ASSUME Inv, TypeOK', [Next]_vars
  PROVE  Drawn'
<1>1. TypeOK
  BY DEF Inv
<1>2. ASSUME NEW p \in Procs, Replaced(p), Survives(p), Born(p), out' = out
      PROVE  Drawn'
  BY <1>1, <1>2, SurvivesType, DrawnReplaced
<1>3. CASE UNCHANGED <<drbg, seeds, up, out>>
  <2>1. 1 \in Procs
    BY DrbgAssumption
  <2>2. Served' /\ Unrepeated' /\ InTime'
    BY <1>3 DEF Inv, Served, Unrepeated, InTime
  <2>3. ASSUME NEW p \in Procs
        PROVE  Counted(p)' /\ Ahead(p)' /\ (drbg'[p].pid # 0 => Born(drbg[p].pid)')
    BY <1>3 DEF Inv, Counted, Ahead, PidKnown, Born
  <2> QED BY <2>2, <2>3 DEF Drawn
<1>4. CASE Next
  <2>1. PICK p \in Procs, t \in Threads :
          \/ Step(p, t)
          \/ \E len \in Lens : Randomize(p, t, len)
          \/ CreateNonce(p, t)
          \/ \E flags \in Flags : Reinit(p, t, flags)
          \/ CloseFds(p, t)
          \/ \E type \in Prefs : SetPreferred(p, t, type)
          \/ AnyInit(p, t)
          \/ \E q \in Procs : Fork(p, t, q)
    BY <1>4 DEF Next
  <2>2. ASSUME NEW label, NEW next, AutoInit(p, t, label, next) PROVE Drawn'
    BY <1>1, <1>2, <2>2, AutoInitOutcome DEF AutoInit
  <2>3. CASE Enter(p, t)
    BY <1>1, <1>2, <2>3, EnterOutcome DEF Enter
  <2>4. CASE CloseFds(p, t)
    BY <1>1, <1>2, <2>4, CloseFdsOutcome DEF CloseFds
  <2>5. ASSUME NEW flags, Reinit(p, t, flags) PROVE Drawn'
    BY <1>1, <1>2, <2>5, InitInternalOutcome DEF Reinit, At, Born
  <2>6. CASE Breaks(p, t)
    <3>1. Replaced(p) /\ Survives(p) /\ Born(p) /\ out' = out
      BY <2>6 DEF Breaks, Replaced, Survives, At, Born
    <3> QED BY <1>2, <3>1
  <2>7. CASE Generate(p, t)
    BY <2>6, <2>7, GenerateCases, DrawnServes
  <2>8. CASE Vanished(p, t) \/ NonceLock(p, t) \/ NonceSet(p, t) \/ NonceHash(p, t)
    BY <1>3, <2>8 DEF Vanished, NonceLock, NonceSet, NonceHash
  <2>9. CASE Step(p, t)
    BY <2>2, <2>3, <2>7, <2>8, <2>9, DrawnOther DEF Step
  <2>10. CASE (\E len \in Lens : Randomize(p, t, len)) \/ CreateNonce(p, t)
    BY <1>3, <2>10 DEF Randomize, CreateNonce
  <2>11. CASE (\E type \in Prefs : SetPreferred(p, t, type)) \/ AnyInit(p, t)
    BY <1>3, <2>11 DEF SetPreferred, AnyInit
  <2> QED BY <2>1, <2>4, <2>5, <2>9, <2>10, <2>11, DrawnFork
<1> QED BY <1>3, <1>4 DEF vars
-----------------------------------------------------------------------------
(* Who generates, and who is not there yet *)

\* A thread that goes on moves no other.
LEMMA GotoOthers ==
  ASSUME TypeOK, NEW p \in Procs, NEW t \in Threads, NEW label,
         Goto(p, t, label)
  PROVE  /\ \A q \in Procs : q # p => pc'[q] = pc[q]
         /\ pc'[p][t] = label
         /\ \A u \in Threads : u # t => pc'[p][u] = pc[p][u]
BY DEF TypeOK, Goto

\* A step of thread t of p that leaves the lock alone or takes it from nobody.
LEMMA GeneratingKept ==
  ASSUME Inv, NEW p \in Procs, NEW t \in Threads, NEW label, label # "gen",
         Goto(p, t, label) \/ pc' = pc,
         \/ lock' = lock /\ drbg' = drbg
         \/ /\ lock[p] = Free
            /\ \A q \in Procs : q # p => lock'[q] = lock[q] /\ drbg'[q] = drbg[q]
  PROVE  \A q \in Procs : Generating(q)'
<1> SUFFICES ASSUME NEW q \in Procs, NEW u \in Threads, pc'[q][u] = "gen"
             PROVE  lock'[q] = u /\ drbg'[q].pid = q
  BY DEF Generating
<1>1. pc[q][u] = "gen"
  BY GotoOthers DEF Inv
<1>2. lock[q] = u /\ drbg[q].pid = q
  BY <1>1 DEF Inv, Generating
<1>3. lock[q] # Free
  BY <1>2, DrbgAssumption DEF Free
<1> QED BY <1>2, <1>3

\* A step of p, which is there, leaves the processes that are not there alone.
LEMMA UnbornKept ==
  ASSUME Inv, NEW p \in Procs, Born(p),
         \A q \in Procs : Born(q)' <=> Born(q),
         \A q \in Procs : q # p => pc'[q] = pc[q] /\ short'[q] = short[q]
  PROVE  Unborn'
BY DEF Inv, Unborn

\* A request returns to its caller, or to the nonce it was made for.
LEMMA ReturnOthers ==
  ASSUME TypeOK, NEW p \in Procs, NEW t \in Threads, Return(p, t)
  PROVE  \E label \in {"set", "idle"} :
           Goto(p, t, label) /\ (label = "set" => req[p][t].nonce /\ ~fips)
BY DEF Return

\* No other process has its instance replaced.
LEMMA ReplacedOthers ==
  ASSUME TypeOK, NEW p \in Procs, Replaced(p)
  PROVE  \A q \in Procs : q # p => drbg'[q] = drbg[q]
<1> DEFINE e == drbg'[p]
<1>1. drbg' = drbg \/ drbg' = [drbg EXCEPT ![p] = e]
  BY DEF Replaced
<1> HIDE DEF e
<1> QED BY <1>1 DEF TypeOK

Present == Unborn /\ \A p \in Procs : Generating(p)

\* A step that neither generates nor touches a locked instance keeps what
\* generating threads rely on.
LEMMA PresentQuiet ==
  ASSUME Inv, NEW p \in Procs, NEW t \in Threads, NEW label, label # "gen",
         Born(p), Goto(p, t, label) \/ pc' = pc,
         \A q \in Procs : Born(q)' <=> Born(q),
         \A q \in Procs : q # p => short'[q] = short[q],
         lock' = lock, lock[p] = Free \/ drbg' = drbg,
         \A q \in Procs : q # p => drbg'[q] = drbg[q]
  PROVE  Present'
<1>1. \A q \in Procs : Generating(q)'
  BY GeneratingKept
<1>2. \A q \in Procs : q # p => pc'[q] = pc[q]
  BY GotoOthers DEF Inv
<1>3. Unborn'
  BY <1>2, UnbornKept
<1> QED BY <1>1, <1>3 DEF Present

\* A thread that enters generation finds an instance of its process.
LEMMA PresentEnter ==
  ASSUME Inv, NEW p \in Procs, NEW t \in Threads, Enter(p, t)
  PROVE  Present'
<1>1. TypeOK /\ lock[p] = Free /\ lock' = [lock EXCEPT ![p] = t] /\ short' = short
  BY DEF Inv, Enter
<1>2. /\ Replaced(p) /\ Survives(p) /\ Born(p)
      /\ pc' # pc => Goto(p, t, "gen") /\ drbg'[p].pid = p
  BY <1>1, EnterOutcome
<1>3. /\ \A q \in Procs : q # p => drbg'[q] = drbg[q]
      /\ \A q \in Procs : Born(q)' <=> Born(q)
  BY <1>1, <1>2, ReplacedOthers, SurvivesType
<1>4. CASE pc' = pc
  <2>1. \A q \in Procs : q # p => lock'[q] = lock[q]
    BY <1>1 DEF TypeOK
  <2>2. \A q \in Procs : Generating(q)'
    BY <1>1, <1>3, <1>4, <2>1, GeneratingKept
  <2>3. Unborn'
    BY <1>1, <1>2, <1>3, <1>4, UnbornKept
  <2> QED BY <2>2, <2>3 DEF Present
<1>5. CASE Goto(p, t, "gen") /\ drbg'[p].pid = p
  <2>1. /\ \A q \in Procs : q # p => pc'[q] = pc[q]
        /\ \A u \in Threads : u # t => pc'[p][u] = pc[p][u]
    BY <1>1, <1>5, GotoOthers
  <2>2. Unborn'
    BY <1>1, <1>2, <1>3, <2>1, UnbornKept
  <2>3. \A u \in Threads : pc[p][u] # "gen"
    BY <1>1, DrbgAssumption DEF Inv, Generating, Free
  <2>4. lock'[p] = t /\ \A q \in Procs : q # p => lock'[q] = lock[q]
    BY <1>1 DEF TypeOK
  <2>5. Generating(p)'
    BY <1>5, <2>1, <2>3, <2>4 DEF Generating
  <2>6. \A q \in Procs : q # p => Generating(q)'
    BY <1>3, <2>1, <2>4 DEF Inv, Generating
  <2> QED BY <2>2, <2>5, <2>6 DEF Present
<1> QED BY <1>2, <1>4, <1>5

\* A slice keeps what generating threads rely on.
LEMMA PresentServes ==
  ASSUME Inv, TypeOK', NEW p \in Procs, NEW t \in Threads, Serves(p, t)
  PROVE  Present'
<1>1. TypeOK /\ Born(p) /\ pc[p][t] = "gen" /\ up' = up
  BY DEF Inv, Serves, At, Born
<1>2. drbg'[p].pid = p /\ (\A q \in Procs : q # p => drbg'[q] = drbg[q])
  BY DrawnServes
<1>3. \A q \in Procs : Born(q)' <=> Born(q)
  BY <1>1 DEF Born
<1>4. CASE UNCHANGED <<pc, lock, short>>
  <2>1. Unborn'
    BY <1>1, <1>3, <1>4, UnbornKept
  <2>2. \A q \in Procs : Generating(q)'
    BY <1>2, <1>4 DEF Inv, Generating
  <2> QED BY <2>1, <2>2 DEF Present
<1>5. CASE /\ Return(p, t)
           /\ lock' = [lock EXCEPT ![p] = Free]
           /\ short' = short \/ short' = [short EXCEPT ![p] = @ + 1]
  <2>1. PICK label \in {"set", "idle"} : Goto(p, t, label)
    BY <1>1, <1>5, ReturnOthers
  <2>2. /\ \A q \in Procs : q # p => pc'[q] = pc[q]
        /\ pc'[p][t] = label
        /\ \A u \in Threads : u # t => pc'[p][u] = pc[p][u]
    BY <1>1, <2>1, GotoOthers
  <2>3. \A q \in Procs : q # p => short'[q] = short[q] /\ lock'[q] = lock[q]
    BY <1>1, <1>5 DEF TypeOK
  <2>4. Unborn'
    BY <1>1, <1>3, <2>2, <2>3, UnbornKept
  <2>5. \A u \in Threads : pc[p][u] = "gen" => u = t
    BY <1>1 DEF Inv, Generating
  <2>6. Generating(p)'
    BY <2>1, <2>2, <2>5 DEF Generating
  <2>7. \A q \in Procs : q # p => Generating(q)'
    BY <1>2, <2>2, <2>3 DEF Inv, Generating
  <2> QED BY <2>4, <2>6, <2>7 DEF Present
<1>6. \/ UNCHANGED <<pc, lock, short>>
      \/ /\ Return(p, t)
         /\ lock' = [lock EXCEPT ![p] = Free]
         /\ short' = short \/ short' = [short EXCEPT ![p] = @ + 1]
  BY DEF Serves
<1> QED BY <1>4, <1>5, <1>6

\* So does a fork: the child has no thread that generates.
LEMMA PresentFork ==
  ASSUME Inv, NEW p \in Procs, NEW t \in Threads, NEW q \in Procs,
         Fork(p, t, q)
  PROVE  Present'
<1>1. /\ TypeOK /\ ~Born(q) /\ short' = short
      /\ \A r \in Procs : r # q => Born(r)' = Born(r)
  BY DEF Inv, TypeOK, Fork, Born
<1>2. up'[q] = "up"
  BY <1>1 DEF Fork, TypeOK
<1>3. /\ \A r \in Procs : r # q => /\ pc'[r] = pc[r] /\ lock'[r] = lock[r]
                                   /\ drbg'[r] = drbg[r]
      /\ \A u \in Threads : pc'[q][u] \in {"idle", "absent"}
  <2>1. \A u \in Threads : pc[q][u] = "absent"
    BY <1>1 DEF Inv, Unborn
  <2> QED BY <1>1, <2>1 DEF Fork, TypeOK
<1>4. Unborn'
  BY <1>1, <1>2, <1>3 DEF Inv, Unborn, Born
<1>5. \A r \in Procs : Generating(r)'
  BY <1>3 DEF Inv, Generating
<1> QED BY <1>4, <1>5 DEF Present

\* So does every step.
LEMMA PresentNext ==
  ASSUME Inv, TypeOK', [Next]_vars
  PROVE  Present'
<1>1. TypeOK
  BY DEF Inv
<1>2. CASE UNCHANGED vars
  BY <1>2 DEF Inv, Present, Unborn, Generating, Born, vars
<1>3. CASE Next
  <2>1. PICK p \in Procs, t \in Threads :
          \/ Step(p, t)
          \/ \E len \in Lens : Randomize(p, t, len)
          \/ CreateNonce(p, t)
          \/ \E flags \in Flags : Reinit(p, t, flags)
          \/ CloseFds(p, t)
          \/ \E type \in Prefs : SetPreferred(p, t, type)
          \/ AnyInit(p, t)
          \/ \E q \in Procs : Fork(p, t, q)
    BY <1>3 DEF Next
  <2>2. ASSUME NEW label, NEW next, next # "gen", AutoInit(p, t, label, next)
        PROVE  Present'
    <3>1. Replaced(p) /\ Survives(p) /\ Born(p)
      BY <1>1, <2>2, AutoInitOutcome
    <3>2. /\ \A q \in Procs : q # p => drbg'[q] = drbg[q]
          /\ \A q \in Procs : Born(q)' <=> Born(q)
      BY <1>1, <3>1, ReplacedOthers, SurvivesType
    <3>3. /\ Goto(p, t, next) /\ lock' = lock /\ short' = short
          /\ lock[p] = Free \/ drbg' = drbg
      BY <2>2 DEF AutoInit
    <3> QED BY <2>2, <3>1, <3>2, <3>3, PresentQuiet
  <2>3. ASSUME NEW label, label # "gen", Goto(p, t, label) \/ pc' = pc,
               At(p, t, pc[p][t]), UNCHANGED <<up, drbg, lock>>,
               short' = short \/ short' = [short EXCEPT ![p] = @ + 1]
        PROVE  Present'
    <3>1. /\ Born(p) /\ \A q \in Procs : Born(q)' <=> Born(q)
          /\ \A q \in Procs : q # p => short'[q] = short[q] /\ drbg'[q] = drbg[q]
      BY <1>1, <2>3 DEF At, Born, TypeOK
    <3> QED BY <2>3, <3>1, PresentQuiet
  <2>4. CASE OtherRng(p, t) \/ Vanished(p, t)
    <3>1. PICK label \in {"set", "idle"} : Goto(p, t, label)
      BY <1>1, <2>4, ReturnOthers DEF OtherRng, Vanished
    <3>2. /\ UNCHANGED <<up, drbg, lock>> /\ At(p, t, pc[p][t])
          /\ short' = short \/ short' = [short EXCEPT ![p] = @ + 1]
      BY <2>4 DEF OtherRng, Vanished, At
    <3> QED BY <2>3, <3>1, <3>2
  <2>5. CASE Breaks(p, t)
    <3>1. /\ Born(p) /\ (\A q \in Procs : Born(q)' <=> Born(q)) /\ pc' = pc
          /\ UNCHANGED <<short, lock, drbg>>
      BY <1>1, <2>5 DEF Breaks, At, Born, TypeOK
    <3> QED BY <3>1, PresentQuiet
  <2>6. CASE NonceLock(p, t) \/ NonceSet(p, t) \/ NonceHash(p, t)
    <3>1. \E label \in {"hash", "init", "idle"} : Goto(p, t, label)
      BY <2>6 DEF NonceLock, NonceSet, NonceHash
    <3>2. UNCHANGED <<up, drbg, lock, short>> /\ At(p, t, pc[p][t])
      BY <2>6 DEF NonceLock, NonceSet, NonceHash, At
    <3> QED BY <2>3, <3>1, <3>2
  <2>7. CASE Step(p, t)
    BY <2>2, <2>4, <2>5, <2>6, <2>7, GenerateCases, PresentServes, PresentEnter
       DEF Step
  <2>8. CASE (\E len \in Lens : Randomize(p, t, len)) \/ CreateNonce(p, t)
    <3>1. \E label \in {"ninit", "init"} : Goto(p, t, label)
      BY <2>8 DEF Randomize, CreateNonce
    <3>2. UNCHANGED <<up, drbg, lock, short>> /\ At(p, t, pc[p][t])
      BY <2>8 DEF Randomize, CreateNonce, At
    <3> QED BY <2>3, <3>1, <3>2
  <2>9. CASE (\E type \in Prefs : SetPreferred(p, t, type)) \/ AnyInit(p, t)
    <3>1. UNCHANGED <<up, drbg, lock, short, pc>> /\ At(p, t, pc[p][t])
      BY <2>9 DEF SetPreferred, AnyInit, At
    <3> QED BY <2>3, <3>1
  <2>10. CASE (\E flags \in Flags : Reinit(p, t, flags)) \/ CloseFds(p, t)
    <3>1. Replaced(p) /\ Survives(p) /\ Born(p)
      BY <1>1, <2>10, InitInternalOutcome, CloseFdsOutcome DEF Reinit, At, Born
    <3>2. /\ \A q \in Procs : q # p => drbg'[q] = drbg[q]
          /\ \A q \in Procs : Born(q)' <=> Born(q)
      BY <1>1, <3>1, ReplacedOthers, SurvivesType
    <3>3. pc' = pc /\ lock' = lock /\ short' = short /\ lock[p] = Free
      BY <2>10 DEF Reinit, CloseFds
    <3> QED BY <3>1, <3>2, <3>3, PresentQuiet
  <2> QED BY <2>1, <2>7, <2>8, <2>9, <2>10, PresentFork
<1> QED BY <1>2, <1>3
-----------------------------------------------------------------------------
(* The nonces *)

NoncePid == \A p \in Procs : nonce[p].pid # 0 => Born(nonce[p].pid)

\* The private part of p is filled, if at all, with bytes of its own; nobody
\* goes on to use it unless it is.
Fills(p) ==
  \/ nonce' = nonce
  \/ \E st \in State : st.by = p /\ nonce' = [nonce EXCEPT ![p].priv = st]

Heads(p, t, label) ==
  /\ Goto(p, t, label) \/ pc' = pc
  /\ label # "hash"
  /\ label = "set" => nonce'[p].priv.by = p

\* A step that hands out no nonce and changes the private part at most by
\* filling it keeps nonces apart.
LEMMA NonceFilled ==
  ASSUME Inv, NEW p \in Procs, NEW t \in Threads, NEW label,
         Heads(p, t, label), Fills(p), issued' = issued,
         \A q \in Procs : Born(q) => Born(q)'
  PROVE  NoncePid' /\ (NonceInv => NonceInv')
<1>1. TypeOK
  BY DEF Inv
<1>2. /\ \A q \in Procs : q # p => pc'[q] = pc[q]
      /\ \A u \in Threads : u # t => pc'[p][u] = pc[p][u]
      /\ pc'[p][t] = label \/ pc'[p][t] = pc[p][t]
  BY <1>1, GotoOthers DEF Heads
<1> DEFINE Kept == /\ \A q \in Procs : /\ nonce'[q].init = nonce[q].init
                                       /\ nonce'[q].pid = nonce[q].pid
                                       /\ nonce'[q].buf = nonce[q].buf
                   /\ \A q \in Procs : q # p => nonce'[q].priv = nonce[q].priv
                   /\ nonce'[p].priv = nonce[p].priv \/ nonce'[p].priv.by = p
<1>3. Kept
  <2>1. CASE nonce' = nonce
    BY <2>1
  <2>2. ASSUME NEW st \in State, st.by = p, nonce' = [nonce EXCEPT ![p].priv = st]
        PROVE  Kept
    BY <1>1, <2>2 DEF TypeOK, NonceBuffer
  <2> HIDE DEF Kept
  <2> QED BY <2>1, <2>2 DEF Fills
<1>4. NoncePid'
  <2>1. \A q \in Procs : nonce[q].pid \in Procs \cup {0}
    BY <1>1 DEF TypeOK, NonceBuffer
  <2> QED BY <1>3, <2>1 DEF Inv, PidKnown, NoncePid
<1>5. ASSUME NonceInv PROVE NonceInv'
  <2>1. Signed' /\ NoncesApart'
    BY <1>5 DEF NonceInv, Signed, NoncesApart
  <2>2. \A q \in Procs : Longest(q)'
    BY <1>3, <1>5 DEF NonceInv, Longest
  <2>3. ASSUME NEW q \in Procs, q # p PROVE PrivateOwn(q)'
    BY <1>2, <1>3, <1>5, <2>3 DEF NonceInv, PrivateOwn
  <2>4. PrivateOwn(p)'
    <3>1. PrivateOwn(p)
      BY <1>5 DEF NonceInv
    <3>2. nonce'[p].init /\ nonce'[p].pid = p => nonce'[p].priv.by = p
      BY <1>3, <3>1 DEF PrivateOwn
    <3>3. ASSUME NEW u \in Threads
          PROVE  /\ pc'[p][u] \in {"set", "hash"} => nonce'[p].priv.by = p
                 /\ pc'[p][u] = "hash" => nonce'[p].init
      BY <1>2, <1>3, <3>1 DEF PrivateOwn, Heads
    <3> QED BY <3>2, <3>3 DEF PrivateOwn
  <2> QED BY <2>1, <2>2, <2>3, <2>4 DEF NonceInv
<1> QED BY <1>4, <1>5

\* Taking the nonce lock, with the fork check, keeps nonces apart.
LEMMA NonceNonceLock ==
  ASSUME Inv, NEW p \in Procs, NEW t \in Threads, NonceLock(p, t)
  PROVE  NoncePid' /\ (NonceInv => NonceInv')
<1>1. TypeOK /\ Born(p) /\ issued' = issued /\ up' = up
  BY DEF Inv, NonceLock, At, Born
<1>2. CASE nonce[p].init /\ nonce[p].pid = p
  <2>1. nonce' = nonce /\ Goto(p, t, "hash")
    BY <1>2 DEF NonceLock
  <2>2. NoncePid'
    BY <1>1, <2>1 DEF Inv, PidKnown, NoncePid, Born
  <2>3. /\ \A q \in Procs : q # p => pc'[q] = pc[q]
        /\ \A u \in Threads : u # t => pc'[p][u] = pc[p][u]
    BY <1>1, <2>1, GotoOthers
  <2>4. ASSUME NonceInv PROVE NonceInv'
    <3>1. Signed' /\ NoncesApart' /\ \A q \in Procs : Longest(q)'
      BY <1>1, <2>1, <2>4 DEF NonceInv, Signed, NoncesApart, Longest, Born
    <3>2. ASSUME NEW q \in Procs, q # p PROVE PrivateOwn(q)'
      BY <2>1, <2>3, <2>4, <3>2 DEF NonceInv, PrivateOwn
    <3>3. PrivateOwn(p)'
      BY <1>2, <2>1, <2>3, <2>4 DEF NonceInv, PrivateOwn
    <3> QED BY <3>1, <3>2, <3>3 DEF NonceInv
  <2> QED BY <2>2, <2>4
<1>3. CASE nonce[p].init /\ nonce[p].pid # p
  <2>1. nonce' = nonce /\ Goto(p, t, "init")
    BY <1>3 DEF NonceLock
  <2>2. \A q \in Procs : Born(q) => Born(q)'
    BY <1>1 DEF Born
  <2>3. Heads(p, t, "init") /\ Fills(p)
    BY <2>1 DEF Heads, Fills
  <2> QED BY <1>1, <2>2, <2>3, NonceFilled
<1>4. CASE ~nonce[p].init
  <2>1. Goto(p, t, "init") /\ nonce' = [nonce EXCEPT ![p].buf = <<Stamp(p)>>, ![p].pid = p]
    BY <1>4 DEF NonceLock
  <2>2. /\ nonce'[p].pid = p /\ nonce'[p].init = nonce[p].init
        /\ nonce'[p].priv = nonce[p].priv
        /\ \A q \in Procs : q # p => nonce'[q] = nonce[q]
    BY <1>1, <2>1 DEF TypeOK, NonceBuffer
  <2>3. NoncePid'
    BY <1>1, <2>2 DEF Inv, PidKnown, NoncePid, Born
  <2>4. /\ \A q \in Procs : q # p => pc'[q] = pc[q]
        /\ \A u \in Threads : u # t => pc'[p][u] = pc[p][u]
        /\ pc'[p][t] = "init"
    BY <1>1, <2>1, GotoOthers
  <2>5. ASSUME NonceInv PROVE NonceInv'
    <3>1. Signed' /\ NoncesApart'
      BY <1>1, <2>5 DEF NonceInv, Signed, NoncesApart, Born
    <3>2. ASSUME NEW q \in Procs, q # p PROVE PrivateOwn(q)' /\ Longest(q)'
      BY <1>1, <2>2, <2>4, <2>5, <3>2 DEF NonceInv, PrivateOwn, Longest
    <3>3. PrivateOwn(p)'
      BY <1>4, <2>2, <2>4, <2>5 DEF NonceInv, PrivateOwn
    <3>4. Longest(p)'
      BY <1>1, <1>4, <2>5 DEF NonceInv, Longest
    <3> QED BY <3>1, <3>2, <3>3, <3>4 DEF NonceInv
  <2> QED BY <2>3, <2>5
<1> QED BY <1>2, <1>3, <1>4

\* So does setting the buffer up.
LEMMA NonceNonceSet ==
  ASSUME Inv, NEW p \in Procs, NEW t \in Threads, NonceSet(p, t)
  PROVE  NoncePid' /\ (NonceInv => NonceInv')
<1>1. TypeOK /\ Born(p) /\ issued' = issued /\ up' = up /\ pc[p][t] = "set"
  BY DEF Inv, NonceSet, At, Born
<1>2. /\ nonce'[p].pid = p /\ nonce'[p].init
      /\ nonce'[p].priv = nonce[p].priv /\ nonce'[p].buf = nonce[p].buf
      /\ \A q \in Procs : q # p => nonce'[q] = nonce[q]
  BY <1>1 DEF TypeOK, NonceBuffer, NonceSet
<1>3. NoncePid'
  BY <1>1, <1>2 DEF Inv, PidKnown, NoncePid, Born
<1>4. /\ \A q \in Procs : q # p => pc'[q] = pc[q]
      /\ \A u \in Threads : u # t => pc'[p][u] = pc[p][u]
      /\ pc'[p][t] = "hash"
  BY <1>1, GotoOthers DEF NonceSet
<1>5. ASSUME NonceInv PROVE NonceInv'
  <2>1. Signed' /\ NoncesApart'
    BY <1>1, <1>5 DEF NonceInv, Signed, NoncesApart, Born
  <2>2. \A q \in Procs : Longest(q)'
    BY <1>1, <1>2, <1>5 DEF NonceInv, Longest
  <2>3. ASSUME NEW q \in Procs, q # p PROVE PrivateOwn(q)'
    BY <1>2, <1>4, <1>5, <2>3 DEF NonceInv, PrivateOwn
  <2>4. PrivateOwn(p)'
    BY <1>1, <1>2, <1>4, <1>5 DEF NonceInv, PrivateOwn
  <2> QED BY <2>1, <2>2, <2>3, <2>4 DEF NonceInv
<1> QED BY <1>3, <1>5

\* The nonce handed out ends in bytes of this very process and is longer than
\* all the ones that do.
LEMMA NonceNonceHash ==
  ASSUME Inv, NEW p \in Procs, NEW t \in Threads, NonceHash(p, t)
  PROVE  NoncePid' /\ (NonceInv => NonceInv')
<1> DEFINE b == nonce[p]
           val == Append(b.buf, b.priv)
           new == [val |-> val, no |-> Cardinality(issued)]
<1>1. TypeOK /\ Born(p) /\ up' = up /\ pc[p][t] = "hash"
  BY DEF Inv, NonceHash, At, Born
<1>2. b \in NonceBuffer /\ b.buf \in Seq(State) /\ b.priv \in State
  BY <1>1 DEF TypeOK, NonceBuffer
<1>3. Digest(b).buf = val
  BY <1>2 DEF Digest, NonceBuffer
<1>4. issued' = issued \cup {new}
  BY <1>3 DEF NonceHash
<1>5. /\ nonce'[p].pid = b.pid /\ nonce'[p].init = b.init
      /\ nonce'[p].priv = b.priv /\ nonce'[p].buf = val
      /\ \A q \in Procs : q # p => nonce'[q] = nonce[q]
  BY <1>1, <1>2 DEF TypeOK, NonceBuffer, NonceHash, Digest
<1>6. /\ val \in Seq(State) /\ Len(val) = Len(b.buf) + 1
      /\ LastOf(val) = b.priv /\ Len(b.buf) \in Nat
  BY <1>2 DEF LastOf
<1>7. NoncePid'
  BY <1>1, <1>5 DEF Inv, PidKnown, NoncePid, Born
<1>8. /\ \A q \in Procs : q # p => pc'[q] = pc[q]
      /\ \A u \in Threads : u # t => pc'[p][u] = pc[p][u]
      /\ pc'[p][t] = "idle"
  BY <1>1, GotoOthers DEF NonceHash
<1>9. new.val = val
  OBVIOUS
<1> HIDE DEF b, val, new
<1>10. ASSUME NonceInv PROVE NonceInv'
  <2>1. b.priv.by = p /\ b.init
    BY <1>1, <1>10 DEF NonceInv, PrivateOwn, b
  <2>2. \A x \in issued : LastOf(x.val).by = p => Len(x.val) <= Len(b.buf)
    BY <1>10 DEF NonceInv, Longest, b
  <2>3. \A x \in issued : x.val \in Seq(State) /\ Len(x.val) \in Nat
    BY <1>1 DEF TypeOK
  <2>4. \A x \in issued : x.val # val
    BY <1>6, <2>1, <2>2, <2>3
  <2>5. NoncesApart'
    BY <1>4, <1>9, <1>10, <2>4 DEF NonceInv, NoncesApart
  <2>6. Signed'
    <3>1. Len(new.val) > 0 /\ LastOf(new.val).by \in Procs /\ Born(LastOf(new.val).by)
      BY <1>1, <1>6, <1>9, <2>1
    <3> QED BY <1>1, <1>4, <1>10, <3>1 DEF NonceInv, Signed, Born
  <2>7. Longest(p)'
    <3>1. \A x \in issued : LastOf(x.val).by = p => Len(x.val) <= Len(val)
      BY <1>6, <2>2, <2>3
    <3>2. Len(new.val) <= Len(val)
      BY <1>6, <1>9
    <3> QED BY <1>4, <1>5, <2>1, <3>1, <3>2 DEF Longest
  <2>8. ASSUME NEW q \in Procs, q # p PROVE Longest(q)'
    <3>1. LastOf(new.val).by # q
      BY <1>6, <1>9, <2>1, <2>8
    <3> QED BY <1>4, <1>5, <1>10, <2>8, <3>1 DEF NonceInv, Longest
  <2>9. ASSUME NEW q \in Procs, q # p PROVE PrivateOwn(q)'
    BY <1>5, <1>8, <1>10, <2>9 DEF NonceInv, PrivateOwn
  <2>10. PrivateOwn(p)'
    BY <1>5, <1>8, <1>10, <2>1 DEF NonceInv, PrivateOwn
  <2> QED BY <2>5, <2>6, <2>7, <2>8, <2>9, <2>10 DEF NonceInv
<1> QED BY <1>7, <1>10

\* So does a fork: the child is recognised by its pid.
LEMMA NonceFork ==
  ASSUME Inv, NEW p \in Procs, NEW t \in Threads, NEW q \in Procs,
         Fork(p, t, q)
  PROVE  NoncePid' /\ (NonceInv => NonceInv')
<1>1. /\ TypeOK /\ ~Born(q) /\ Born(p) /\ issued' = issued
      /\ \A r \in Procs : Born(r) => Born(r)'
  BY DEF Inv, TypeOK, Fork, At, Born
<1>2. nonce'[q] = nonce[p] /\ \A r \in Procs : r # q => nonce'[r] = nonce[r]
  BY <1>1 DEF TypeOK, Fork
<1>3. NoncePid'
  <2> SUFFICES ASSUME NEW r \in Procs
               PROVE  nonce'[r].pid # 0 => Born(nonce[r].pid)'
    BY DEF NoncePid
  <2>1. PICK s \in Procs : nonce'[r] = nonce[s]
    BY <1>2
  <2>2. nonce[s].pid \in Procs \cup {0} /\ (nonce[s].pid # 0 => Born(nonce[s].pid))
    BY DEF Inv, TypeOK, NonceBuffer, PidKnown
  <2> QED BY <1>1, <2>1, <2>2
<1>4. /\ \A r \in Procs : r # q => pc'[r] = pc[r]
      /\ \A u \in Threads : pc'[q][u] \in {"idle", "absent"}
  <2>1. \A u \in Threads : pc[q][u] = "absent"
    BY <1>1 DEF Inv, Unborn
  <2> QED BY <1>1, <2>1 DEF Fork, TypeOK
<1>5. ASSUME NonceInv PROVE NonceInv'
  <2>1. NoncesApart'
    BY <1>1, <1>5 DEF NonceInv, NoncesApart
  <2>2. Signed'
    BY <1>1, <1>5 DEF NonceInv, Signed
  <2>3. ASSUME NEW r \in Procs, r # q PROVE PrivateOwn(r)' /\ Longest(r)'
    BY <1>1, <1>2, <1>4, <1>5, <2>3 DEF NonceInv, PrivateOwn, Longest
  <2>4. Longest(q)'
    BY <1>1, <1>5 DEF NonceInv, Signed, Longest
  <2>5. nonce'[q].pid # q
    BY <1>1, <1>2, DrbgAssumption DEF Inv, PidKnown
  <2>6. PrivateOwn(q)'
    BY <1>4, <2>5 DEF PrivateOwn
  <2> QED BY <2>1, <2>2, <2>3, <2>4, <2>6 DEF NonceInv
<1> QED BY <1>3, <1>5

\* So does a slice, which may fill the private part.
LEMMA NonceServes ==
  ASSUME Inv, TypeOK', NEW p \in Procs, NEW t \in Threads, Serves(p, t)
  PROVE  NoncePid' /\ (NonceInv => NonceInv')
<1>1. /\ TypeOK /\ issued' = issued /\ pc[p][t] = "gen"
      /\ \A q \in Procs : Born(q) => Born(q)'
  BY DEF Inv, Serves, At, Born
<1>2. PICK d :
        /\ d = IF MustReseed(drbg[p]) THEN Seeded(drbg[p], p) ELSE drbg[p]
        /\ nonce' = IF req[p][t].nonce /\ ~fips
                    THEN [nonce EXCEPT ![p].priv = d.v] ELSE nonce
  BY DEF Serves
<1>3. d.v \in State /\ d.v.by = p
  BY <1>1, <1>2, GenerateOutcome DEF Instance
<1>4. Fills(p)
  BY <1>2, <1>3 DEF Fills
<1>5. CASE pc' = pc
  <2>1. Heads(p, t, "idle")
    BY <1>5 DEF Heads
  <2> QED BY <1>1, <1>4, <2>1, NonceFilled
<1>6. CASE Return(p, t)
  <2>1. PICK label \in {"set", "idle"} :
          Goto(p, t, label) /\ (label = "set" => req[p][t].nonce /\ ~fips)
    BY <1>1, <1>6, ReturnOthers
  <2>2. label = "set" => nonce'[p].priv = d.v
    BY <1>1, <1>2, <2>1 DEF TypeOK, NonceBuffer
  <2>3. Heads(p, t, label)
    BY <1>3, <2>1, <2>2 DEF Heads
  <2> QED BY <1>1, <1>4, <2>3, NonceFilled
<1> QED BY <1>5, <1>6 DEF Serves

\* So do bytes of another generator.
LEMMA NonceOther ==
  ASSUME Inv, TypeOK', NEW p \in Procs, NEW t \in Threads, OtherRng(p, t)
  PROVE  NoncePid' /\ (NonceInv => NonceInv')
<1>1. /\ TypeOK /\ issued' = issued
      /\ \A q \in Procs : Born(q) => Born(q)'
  BY DEF Inv, OtherRng, Born
<1>2. NewState(p) \in State /\ NewState(p).by = p
  BY <1>1, NewStateType
<1>3. PICK label \in {"set", "idle"} :
        Goto(p, t, label) /\ (label = "set" => req[p][t].nonce)
  BY <1>1, ReturnOthers DEF OtherRng
<1>4. nonce' = IF req[p][t].nonce THEN [nonce EXCEPT ![p].priv = NewState(p)]
               ELSE nonce
  BY DEF OtherRng
<1>5. label = "set" => nonce'[p].priv = NewState(p)
  BY <1>1, <1>3, <1>4 DEF TypeOK, NonceBuffer
<1>6. Heads(p, t, label) /\ Fills(p)
  BY <1>2, <1>3, <1>4, <1>5 DEF Heads, Fills
<1> QED BY <1>1, <1>6, NonceFilled

\* No step breaks the uniqueness of nonces while all requests were served.
LEMMA NonceNext ==
  ASSUME Inv, TypeOK', [Next]_vars
  PROVE  NoncePid' /\ (AllFilled' => NonceInv')
<1>1. TypeOK /\ (AllFilled => NonceInv)
  BY DEF Inv
<1>2. CASE UNCHANGED vars
  BY <1>1, <1>2 DEF Inv, PidKnown, NoncePid, AllFilled, NonceInv, PrivateOwn,
     Longest, Signed, NoncesApart, Born, vars
<1>3. CASE Next
  <2>1. PICK p \in Procs, t \in Threads :
          \/ Step(p, t)
          \/ \E len \in Lens : Randomize(p, t, len)
          \/ CreateNonce(p, t)
          \/ \E flags \in Flags : Reinit(p, t, flags)
          \/ CloseFds(p, t)
          \/ \E type \in Prefs : SetPreferred(p, t, type)
          \/ AnyInit(p, t)
          \/ \E q \in Procs : Fork(p, t, q)
    BY <1>3 DEF Next
  <2> DEFINE Goal == NoncePid' /\ (NonceInv => NonceInv')
             Quiet(label) ==
               /\ Goto(p, t, label) \/ pc' = pc
               /\ UNCHANGED <<nonce, issued>>
               /\ Survives(p) /\ Born(p)
  <2>2. ASSUME NEW label \in {"init", "body", "ninit", "nlock", "gen", "idle"},
               Quiet(label)
        PROVE  Goal
    <3>1. Heads(p, t, label) /\ Fills(p)
      BY <2>2 DEF Heads, Fills
    <3>2. \A q \in Procs : Born(q) => Born(q)'
      BY <1>1, <2>2, SurvivesType
    <3> QED BY <2>2, <3>1, <3>2, NonceFilled
  <2>3. ASSUME At(p, t, pc[p][t]), up' = up PROVE Survives(p) /\ Born(p)
    BY <1>1, <2>3 DEF Survives, At, Born, TypeOK
  <2>4. ASSUME AutoInit(p, t, "init", "body") \/ AutoInit(p, t, "ninit", "nlock")
        PROVE  Goal
    <3>1. Survives(p) /\ Born(p)
      BY <1>1, <2>4, AutoInitOutcome
    <3>2. Quiet("body") \/ Quiet("nlock")
      BY <2>4, <3>1 DEF AutoInit
    <3> QED BY <2>2, <3>2
  <2>5. ASSUME Enter(p, t) PROVE Goal
    <3>1. Survives(p) /\ Born(p) /\ (pc' # pc => Goto(p, t, "gen"))
      BY <1>1, <2>5, EnterOutcome
    <3>2. Quiet("gen")
      BY <2>5, <3>1 DEF Enter
    <3> QED BY <2>2, <3>2
  <2>6. ASSUME Breaks(p, t) PROVE Goal
    <3>1. Quiet("idle")
      BY <2>6 DEF Breaks, Survives, At, Born
    <3> QED BY <2>2, <3>1
  <2>7. ASSUME (\E len \in Lens : Randomize(p, t, len)) \/ CreateNonce(p, t)
        PROVE  Goal
    <3>1. At(p, t, pc[p][t]) /\ up' = up
      BY <2>7 DEF Randomize, CreateNonce, At
    <3>2. Quiet("init") \/ Quiet("ninit")
      BY <2>3, <2>7, <3>1 DEF Randomize, CreateNonce
    <3> QED BY <2>2, <3>2
  <2>8. ASSUME (\E type \in Prefs : SetPreferred(p, t, type)) \/ AnyInit(p, t)
        PROVE  Goal
    <3>1. At(p, t, pc[p][t]) /\ up' = up
      BY <2>8 DEF SetPreferred, AnyInit, At
    <3>2. Quiet("idle")
      BY <2>3, <2>8, <3>1 DEF SetPreferred, AnyInit
    <3> QED BY <2>2, <3>2
  <2>9. ASSUME (\E flags \in Flags : Reinit(p, t, flags)) \/ CloseFds(p, t)
        PROVE  Goal
    <3>1. Survives(p) /\ Born(p)
      BY <1>1, <2>9, InitInternalOutcome, CloseFdsOutcome DEF Reinit, At, Born
    <3>2. Quiet("idle")
      BY <2>9, <3>1 DEF Reinit, CloseFds
    <3> QED BY <2>2, <3>2
  <2>10. CASE Vanished(p, t)
    <3>1. short'[p] = short[p] + 1 /\ short[p] \in Nat
      BY <1>1, <2>10 DEF Vanished, TypeOK
    <3>2. ~AllFilled'
      BY <3>1 DEF AllFilled
    <3>3. UNCHANGED <<nonce, up>>
      BY <2>10 DEF Vanished
    <3>4. NoncePid'
      BY <3>3 DEF Inv, PidKnown, NoncePid, Born
    <3> QED BY <3>2, <3>4
  <2>11. AllFilled' => AllFilled
    <3>1. short' = short \/ short' = [short EXCEPT ![p] = @ + 1]
      BY <2>1 DEF Step, AutoInit, OtherRng, Vanished, Enter, Generate, NonceLock,
         NonceSet, NonceHash, Randomize, CreateNonce, Reinit, CloseFds,
         SetPreferred, AnyInit, Fork
    <3>2. ASSUME AllFilled', NEW q \in Procs PROVE short[q] = 0
      <4>1. short'[q] = 0 /\ short[q] \in Nat
        BY <1>1, <3>2 DEF AllFilled, TypeOK
      <4> QED BY <1>1, <3>1, <4>1 DEF TypeOK
    <3> QED BY <3>2 DEF AllFilled
  <2>12. CASE Step(p, t) /\ ~Vanished(p, t)
    <3>1. OtherRng(p, t) => Goal
      BY NonceOther
    <3>2. Serves(p, t) => Goal
      BY NonceServes
    <3>3. NonceLock(p, t) \/ NonceSet(p, t) \/ NonceHash(p, t) => Goal
      BY NonceNonceLock, NonceNonceSet, NonceNonceHash
    <3> HIDE DEF Quiet, Goal
    <3>4. Goal
      BY <2>4, <2>5, <2>6, <2>12, <3>1, <3>2, <3>3, GenerateCases DEF Step
    <3> QED BY <1>1, <2>11, <3>4 DEF Goal
  <2>13. CASE ~Step(p, t)
    <3>1. (\E q \in Procs : Fork(p, t, q)) => Goal
      BY NonceFork
    <3> HIDE DEF Quiet, Goal
    <3>2. Goal
      BY <2>1, <2>7, <2>8, <2>9, <2>13, <3>1
    <3> QED BY <1>1, <2>11, <3>2 DEF Goal
  <2> QED BY <2>10, <2>12, <2>13
<1> QED BY <1>2, <1>3
-----------------------------------------------------------------------------
(* The theorems *)

\* The invariant holds at the start.
LEMMA InitInv ==
  ASSUME Init
  PROVE  Inv
<1>1. Fresh \in Instance
  BY DEF Fresh, Instance, NoState, State
<1>2. NoNonce \in NonceBuffer
  BY DEF NoNonce, NonceBuffer, NoState, State
<1>3. TypeOK
  BY <1>1, <1>2, IdleType, DrbgAssumption DEF Init, TypeOK, Labels
<1>4. Unborn
  BY DEF Init, Unborn, Born
<1>5. Served /\ Unrepeated /\ InTime
  BY DEF Init, Served, Unrepeated, InTime
<1>6. \A p \in Procs : ~drbg[p].seeded /\ drbg[p].pid = 0 /\ nonce[p].pid = 0
                       /\ ~nonce[p].init
  BY DEF Init, Fresh, NoNonce
<1>7. \A p \in Procs, t \in Threads : pc[p][t] \in {"idle", "absent"}
  BY DEF Init
<1>8. \A p \in Procs : Counted(p) /\ Ahead(p) /\ PidKnown(p) /\ Generating(p)
  BY <1>6, <1>7 DEF Counted, Ahead, PidKnown, Generating
<1>9. NonceInv
  <2>1. issued = {}
    BY DEF Init
  <2>2. \A p \in Procs : PrivateOwn(p) /\ Longest(p)
    BY <1>6, <1>7, <2>1 DEF PrivateOwn, Longest
  <2> QED BY <2>1, <2>2 DEF NonceInv, Signed, NoncesApart
<1> QED BY <1>3, <1>4, <1>5, <1>8, <1>9 DEF Inv

\* The invariant is inductive.
LEMMA NextInv ==
  ASSUME Inv, [Next]_vars
  PROVE  Inv'
<1>1. TypeOK'
  BY TypeNext
<1>2. Drawn' /\ Present' /\ NoncePid' /\ (AllFilled' => NonceInv')
  BY <1>1, DrawnNext, PresentNext, NonceNext
<1>3. \A p \in Procs : PidKnown(p)'
  BY <1>2 DEF Drawn, NoncePid, PidKnown
<1> QED BY <1>1, <1>2, <1>3 DEF Inv, Drawn, Present

\* The invariant holds always.
LEMMA Invariance == Spec => []Inv
<1>1. Init => Inv
  BY InitInv
<1>2. Inv /\ [Next]_vars => Inv'
  BY NextInv
<1> QED BY <1>1, <1>2, PTL DEF Spec

\* The variables of random.c and random-drbg.c keep their types: the counters
\* stay natural numbers and the nonce buffer a sequence of what was hashed in.
THEOREM DrbgType == Spec => []TypeOK
<1>1. Inv => TypeOK
  BY DEF Inv
<1> QED BY <1>1, Invariance, PTL

\* However many processes fork in whatever order, and whichever threads ask,
\* no two slices are generated from the same internal state, and none from
\* entropy that another process gathered.
THEOREM DrbgUnrepeated == Spec => []Unrepeated
<1>1. Inv => Unrepeated
  BY DEF Inv
<1> QED BY <1>1, Invariance, PTL

\* A seeding is used for at most drbg_max_requests () slices, and for one when
\* prediction resistance is on.
THEOREM DrbgInTime == Spec => []InTime
<1>1. Inv => InTime
  BY DEF Inv
<1> QED BY <1>1, Invariance, PTL

\* gcry_create_nonce never hands a value out twice in a family of processes, as
\* long as each request for random bytes was served in full.
THEOREM DrbgNonces == Spec => []NoncesUnique
<1>1. Inv => NoncesUnique
  BY DEF Inv, NonceInv, NoncesApart, AllFilled, NoncesUnique
<1> QED BY <1>1, Invariance, PTL
-----------------------------------------------------------------------------
(* Buffers that were not filled *)

\* No length loses anything by the cast to unsigned int.
NoTruncation == \A len \in Lens : len < UIntMod

Untruncated == \A p \in Procs, t \in Threads : req[p][t].len < UIntMod

\* Without cut lengths, no request under way has lost bytes.
LEMMA UntruncatedNext ==
  ASSUME NoTruncation, Inv, Untruncated, [Next]_vars
  PROVE  Untruncated'
<1>1. TypeOK /\ 0 < UIntMod /\ 1 < UIntMod
  BY DrbgAssumption DEF Inv
<1>2. ASSUME NEW p \in Procs, NEW t \in Threads, NEW r \in Request,
             r.len < UIntMod, req' = [req EXCEPT ![p][t] = r]
      PROVE  Untruncated'
  BY <1>1, <1>2 DEF TypeOK, Untruncated
<1>3. CASE req' = req
  BY <1>3 DEF Untruncated
<1>4. CASE Next /\ req' # req
  <2>1. PICK p \in Procs, t \in Threads :
          \/ Step(p, t)
          \/ \E len \in Lens : Randomize(p, t, len)
          \/ CreateNonce(p, t)
    BY <1>4 DEF Next, Reinit, CloseFds, SetPreferred, AnyInit, Fork
  <2>2. ASSUME req' = [req EXCEPT ![p][t] = Idle] PROVE Untruncated'
    <3>1. Idle.len < UIntMod
      BY <1>1 DEF Idle
    <3> QED BY <1>2, <2>2, <3>1, IdleType
  <2>3. ASSUME NEW len \in Lens, Randomize(p, t, len) PROVE Untruncated'
    <3> DEFINE r == [nonce |-> FALSE, len |-> len, left |-> len % UIntMod]
    <3>1. r \in Request /\ r.len < UIntMod
      BY DrbgAssumption DEF Request, NoTruncation
    <3>2. req' = [req EXCEPT ![p][t] = r]
      BY <2>3 DEF Randomize
    <3> HIDE DEF r
    <3> QED BY <1>2, <3>1, <3>2
  <2>4. CASE CreateNonce(p, t)
    <3> DEFINE r == [nonce |-> TRUE, len |-> 1, left |-> 1]
    <3>1. r \in Request /\ r.len < UIntMod
      BY <1>1 DEF Request
    <3>2. req' = [req EXCEPT ![p][t] = r]
      BY <2>4 DEF CreateNonce
    <3> HIDE DEF r
    <3> QED BY <1>2, <3>1, <3>2
  <2>5. ASSUME NEW left, req' = [req EXCEPT ![p][t].left = left]
        PROVE  Untruncated'
    <3>1. \A q \in Procs, u \in Threads : req'[q][u].len = req[q][u].len
      BY <1>1, <2>5 DEF TypeOK, Request
    <3> QED BY <3>1 DEF Untruncated
  <2>6. CASE Generate(p, t)
    BY <1>4, <2>2, <2>5, <2>6 DEF Generate, Return
  <2>7. CASE Step(p, t) /\ ~Generate(p, t)
    BY <1>4, <2>2, <2>7 DEF Step, AutoInit, OtherRng, Vanished, Enter,
       NonceLock, NonceSet, NonceHash, Return
  <2> QED BY <2>1, <2>3, <2>4, <2>6, <2>7
<1> QED BY <1>3, <1>4 DEF vars

\* Initialising never takes the error state back.
LEMMA InitInternalFailed ==
  ASSUME TypeOK, NEW p \in Procs, NEW flags, InitInternal(p, flags)
  PROVE  \A q \in Procs : failed[q] => failed'[q]
BY DEF InitInternal, TypeOK

\* A step that leaves a buffer unfilled sets the error state.
LEMMA ReportedNext ==
  ASSUME Inv, Untruncated, Reported, [Next]_vars
  PROVE  Reported'
<1>1. TypeOK
  BY DEF Inv
<1>2. fips' = fips
  <2>1. ASSUME NEW p \in Procs, NEW t \in Threads, Step(p, t) PROVE fips' = fips
    BY <2>1 DEF Step, AutoInit, OtherRng, Vanished, Enter, Generate, NonceLock,
       NonceSet, NonceHash
  <2>2. CASE Next
    BY <2>1, <2>2 DEF Next, Randomize, CreateNonce, Reinit, CloseFds,
       SetPreferred, AnyInit, Fork
  <2> QED BY <2>2 DEF vars
<1>3. ASSUME short' = short, \A q \in Procs : failed[q] => failed'[q]
      PROVE  Reported'
  BY <1>2, <1>3 DEF Reported
<1>4. CASE UNCHANGED <<short, failed>>
  BY <1>3, <1>4
<1>5. CASE Next /\ ~UNCHANGED <<short, failed>>
  <2>1. PICK p \in Procs, t \in Threads :
          \/ Step(p, t)
          \/ \E flags \in Flags : Reinit(p, t, flags)
          \/ \E q \in Procs : Fork(p, t, q)
    BY <1>5 DEF Next, Randomize, CreateNonce, CloseFds, SetPreferred, AnyInit
  <2>2. CASE \E flags \in Flags : Reinit(p, t, flags)
    BY <1>1, <1>3, <2>2, InitInternalFailed DEF Reinit
  <2>3. ASSUME NEW label, NEW next, AutoInit(p, t, label, next) PROVE Reported'
    BY <1>1, <1>3, <1>5, <2>3, InitInternalFailed DEF AutoInit
  <2>4. CASE Vanished(p, t)
    <3>1. /\ failed'[p] = fips
          /\ \A q \in Procs : q # p => short'[q] = short[q] /\ failed'[q] = failed[q]
      BY <1>1, <2>4 DEF Vanished, TypeOK
    <3> QED BY <1>2, <3>1 DEF Reported
  <2>5. CASE Generate(p, t)
    <3>1. req[p][t].len < UIntMod
      BY DEF Untruncated
    <3> QED BY <1>4, <2>5, <3>1 DEF Generate
  <2>6. ASSUME NEW q \in Procs, Fork(p, t, q) PROVE Reported'
    <3>1. /\ short' = short /\ short[q] = 0
          /\ \A r \in Procs : r # q => failed'[r] = failed[r]
      BY <1>1, <2>6 DEF Fork, TypeOK, Inv, Unborn, Born
    <3> QED BY <1>2, <3>1 DEF Reported
  <2>7. CASE Step(p, t)
    BY <1>4, <2>3, <2>4, <2>5, <2>7 DEF Step, OtherRng, Enter, NonceLock,
       NonceSet, NonceHash
  <2> QED BY <2>1, <2>2, <2>6, <2>7
<1> QED BY <1>4, <1>5 DEF vars

\* In FIPS mode every process one of whose buffers was left unfilled is in the
\* error state, provided no request is as long as unsigned int can count: the
\* cast in _gcry_rngdrbg_randomize is the one way to lose bytes unnoticed.
THEOREM DrbgReported ==
  ASSUME NoTruncation
  PROVE  Spec => []Reported
<1>1. Init => Untruncated /\ Reported
  <2>1. 0 < UIntMod
    BY DrbgAssumption
  <2> QED BY <2>1 DEF Init, Untruncated, Reported, Idle
<1>2. Inv /\ Untruncated /\ Reported /\ [Next]_vars => (Untruncated /\ Reported)'
  BY UntruncatedNext, ReportedNext
<1> QED BY <1>1, <1>2, Invariance, PTL DEF Spec
=============================================================================
