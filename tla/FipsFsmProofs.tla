---------------------------- MODULE FipsFsmProofs ----------------------------
(***************************************************************************)
(* Proofs about the FIPS state machine: type correctness and the finality  *)
(* of Fatal-Error for every application, and, for a properly initialised   *)
(* application whose self-tests are requested by one thread, that          *)
(* Operational is earned and that an abort has a cause.                    *)
(***************************************************************************)
EXTENDS FipsFsm, TLAPS

(* The application initialises the library as the manual asks, and one     *)
(* thread issues its control commands.                                     *)
ProperUse == Proper = TRUE /\ Admins \subseteq {Main}

Busy == {"gate", "begin", "testing", "verdict", "regate", "force", "signal",
         "serving"}

(* Before global_init nothing has happened, and after it a running call of *)
(* Main finds the machine past Power-On.                                   *)
InitPhase ==
    /\ initDone = anyInit
    /\ ~anyInit => state = "POWERON" /\ ~noFips /\ ~initFinished
    /\ ~anyInit => pc[Main] \notin Busy
    /\ (anyInit /\ pc[Main] # "dying") => (noFips \/ state # "POWERON")
    /\ pc[Main] = "ctor" => ~anyInit

(* The other threads run public functions only, after initialisation. *)
Workers ==
    \A t \in Threads \ {Main} :
        /\ pc[t] \in {"idle", "gate", "signal", "serving", "dying"}
        /\ op[t] \in AllKinds \cup {"none"}
        /\ pc[t] # "idle" => initFinished /\ op[Main] # "finish"
        /\ pc[t] \in {"gate", "signal"} => op[t] \in AllKinds

(* The machine is left in Init only until INITIALIZATION_FINISHED returns. *)
InitState ==
    (~noFips /\ state = "INIT" /\ initFinished) =>
        op[Main] = "finish" /\ pc[Main] \in {"gate", "begin", "dying"}

(* The Self-Test state belongs to Main, and nothing went wrong since. *)
SelftestState ==
    (~noFips /\ state = "SELFTEST") =>
        pc[Main] \in {"testing", "verdict"} /\ fresh[Main]

(* Main's tests are overtaken only by an error that is on record. *)
Overtaken ==
    (~noFips /\ pc[Main] \in {"testing", "verdict"} /\ state # "SELFTEST") =>
        blame # {}

FatalBlamed == state = "FATALERROR" => blame # {}

NoShutdown == state # "SHUTDOWN"

(* Outside FIPS mode nobody is on a path that only FIPS mode takes. *)
PlainPaths ==
    noFips => /\ \A t \in Threads : pc[t] \notin {"signal", "regate"}
              /\ pc[Main] \in {"begin", "testing", "verdict"}
                    => ret[Main] # "regate"

(* A call of INITIALIZATION_FINISHED is on record while it runs. *)
MainOp ==
    /\ op[Main] = "finish" => pc[Main] # "idle" /\ initFinished
    /\ pc[Main] \in {"signal", "serving"} => op[Main] \in AllKinds

Inv ==
    /\ TypeOK
    /\ InitPhase /\ Workers /\ InitState /\ SelftestState /\ Overtaken
    /\ FatalBlamed /\ NoShutdown /\ PlainPaths /\ MainOp
    /\ Sound /\ AbortJustified

----------------------------------------------------------------------------
(* The transitions fips_new_state grants, by the state asked for. *)
LEMMA GrantedTo ==
    ASSUME NEW s \in States
    PROVE  /\ <<s, "INIT">> \in Granted <=> s = "POWERON"
           /\ <<s, "SELFTEST">> \in Granted
                 <=> s \in {"INIT", "OPERATIONAL", "ERROR"}
           /\ <<s, "OPERATIONAL">> \in Granted <=> s = "SELFTEST"
           /\ <<s, "ERROR">> \in Granted
                 <=> s \notin {"FATALERROR", "SHUTDOWN"}
           /\ <<s, "FATALERROR">> \in Granted
                 <=> s \notin {"FATALERROR", "SHUTDOWN"}
BY DEF Granted, States

(* What the helpers of the actions leave behind. *)
LEMMA NewStateType ==
    ASSUME TypeOK, NEW t \in Threads, NEW new \in States, NEW next \in Places,
           NewState(t, new, next)
    PROVE  /\ state' \in States
           /\ pc' \in [Threads -> Places]
BY DEF TypeOK, NewState, Go, Places

\* Going on keeps the type of the program counters.
LEMMA GoType ==
    ASSUME TypeOK, NEW t \in Threads, NEW next \in Places, Go(t, next)
    PROVE  pc' \in [Threads -> Places]
BY DEF TypeOK, Go

\* Noting an error keeps the types of the history.
LEMMA NoteErrorType ==
    ASSUME TypeOK, NEW t \in Threads, NEW fatal \in BOOLEAN,
           NoteError(t, fatal)
    PROVE  /\ fresh' \in [Threads -> BOOLEAN]
           /\ sound' \in BOOLEAN
           /\ blame' \subseteq {"fatal", "midtest", "config"}
BY DEF TypeOK, NoteError

\* global_init keeps types.
LEMMA GlobalInitType ==
    ASSUME TypeOK, NEW t \in Threads, NEW force \in BOOLEAN,
           NEW next \in Places, GlobalInit(t, force, next)
    PROVE  /\ state' \in States
           /\ pc' \in [Threads -> Places]
           /\ anyInit' \in BOOLEAN /\ initDone' \in BOOLEAN
           /\ noFips' \in BOOLEAN
           /\ fresh' \in [Threads -> BOOLEAN]
           /\ sound' \in BOOLEAN
           /\ blame' \subseteq {"fatal", "midtest", "config"}
<1>1. CASE anyInit
      BY <1>1, GoType DEF GlobalInit, ghosts, TypeOK
<1>2. CASE ~anyInit
  <2>1. /\ state' \in States
        /\ pc' \in [Threads -> Places]
    <3> "dying" \in Places /\ "INIT" \in States /\ "FATALERROR" \in States
        BY DEF Places, States
    <3>1. FipsModeChoice(force) \in {"again", "die", "fips", "plain"}
          BY DEF FipsModeChoice, TypeOK, AllSystems
    <3>2. CASE FipsModeChoice(force) = "fips"
          BY <1>2, <3>2, NewStateType DEF GlobalInit
    <3>3. CASE FipsModeChoice(force) = "plain"
          BY <1>2, <3>3, GoType DEF GlobalInit, TypeOK
    <3>4. CASE FipsModeChoice(force) = "again"
          BY <1>2, <3>4, NewStateType DEF GlobalInit
    <3>5. CASE FipsModeChoice(force) = "die"
          BY <1>2, <3>5, GoType DEF GlobalInit, TypeOK
    <3> QED BY <3>1, <3>2, <3>3, <3>4, <3>5
  <2>2. /\ anyInit' = TRUE /\ initDone' = TRUE
        /\ noFips' = (noFips \/ FipsModeChoice(force) = "plain")
        /\ blame' = blame \cup (IF ~force /\ system = "broken"
                               THEN {"config"} ELSE {})
        /\ fresh' = fresh /\ sound' = sound
        BY <1>2 DEF GlobalInit
  <2>3. noFips' \in BOOLEAN
        BY <2>2
  <2> QED BY <2>1, <2>2, <2>3 DEF TypeOK
<1> QED BY <1>1, <1>2

\* Answering a caller keeps types.
LEMMA AnswerType ==
    ASSUME TypeOK, NEW t \in Threads, NEW yes \in BOOLEAN, Answer(t, yes)
    PROVE  /\ answer' \in [Threads -> BOOLEAN]
           /\ pc' \in [Threads -> Places]
           /\ op' \in [Threads -> Ops]
BY DEF TypeOK, Answer, Go, Places, Ops

(* Every step keeps the types. *)
LEMMA StepType ==
    ASSUME TypeOK, [Next]_vars
    PROVE  TypeOK'
<1> USE FsmAssumption
<1> "dying" \in Places /\ "gate" \in Places /\ "begin" \in Places
    /\ "idle" \in Places /\ "force" \in Places /\ "testing" \in Places
    /\ "verdict" \in Places /\ "serving" \in Places
    BY DEF Places
<1> States = States \cup {"SELFTEST", "OPERATIONAL", "ERROR", "FATALERROR"}
    BY DEF States
<1> Ops = Ops \cup AllKinds \cup {"none", "ctor", "finish", "force", "selftest"}
    BY DEF Ops
<1>1. ASSUME NEW t \in Threads, Step(t)
      PROVE  TypeOK'
  <2>1. CASE Constructor(t)
    <3>1. CASE system = "fips"
          BY <2>1, <3>1, GlobalInitType DEF Constructor, TypeOK, env
    <3>2. CASE system = "plain"
          BY <2>1, <3>2, GoType DEF Constructor, TypeOK, env, ghosts
    <3>3. CASE system = "broken"
          BY <2>1, <3>3, GoType DEF Constructor, TypeOK, env
    <3> QED BY <3>1, <3>2, <3>3 DEF TypeOK, AllSystems
  <2>2. CASE Gate(t)
    <3>1. CASE ~noFips /\ state = "INIT"
          BY <2>2, <3>1, GoType DEF Gate, TypeOK, mode, env, ghosts
    <3>2. CASE ~(~noFips /\ state = "INIT")
          BY <2>2, <3>2, AnswerType DEF Gate, TypeOK, mode, env, ghosts
    <3> QED BY <3>1, <3>2
  <2>3. CASE Regate(t)
        BY <2>3, AnswerType DEF Regate, TypeOK, mode, env, ghosts
  <2>4. CASE ForceCheck(t)
        BY <2>4, GoType DEF ForceCheck, TypeOK, mode, env, ghosts
  <2>5. CASE BeginTests(t)
        BY <2>5, NewStateType, GoType DEF BeginTests, TypeOK, mode, env, local
  <2>6. CASE RunTests(t)
        BY <2>6, GoType DEF RunTests, TypeOK, mode, env, ghosts
  <2>7. CASE EndTests(t)
    <3>1. ret[t] \in Places
          BY DEF TypeOK, Places
    <3>2. state' \in States /\ pc' \in [Threads -> Places]
          BY <2>7, <3>1, NewStateType, GoType DEF EndTests, TypeOK
    <3>3. op' \in [Threads -> Ops]
          BY <2>7 DEF EndTests, TypeOK
    <3>4. /\ fresh' \in [Threads -> BOOLEAN] /\ sound' \in BOOLEAN
          /\ blame' \subseteq {"fatal", "midtest", "config"}
          BY <2>7, NoteErrorType DEF EndTests, TypeOK
    <3>5. /\ answer' \in [Threads -> BOOLEAN]
          /\ passed' \in [Threads -> BOOLEAN]
          /\ ret' \in [Threads -> {"idle", "gate", "regate"}]
          BY <2>7 DEF EndTests, TypeOK
    <3> QED BY <2>7, <3>2, <3>3, <3>4, <3>5 DEF EndTests, TypeOK, mode, env
  <2>8. CASE SignalRefusal(t)
    <3>1. state' \in States /\ pc' \in [Threads -> Places]
          BY <2>8, NewStateType, GoType DEF SignalRefusal, TypeOK
    <3>2. op' \in [Threads -> Ops]
          BY <2>8 DEF SignalRefusal, TypeOK
    <3>3. /\ fresh' \in [Threads -> BOOLEAN] /\ sound' \in BOOLEAN
          /\ blame' \subseteq {"fatal", "midtest", "config"}
          BY <2>8, NoteErrorType DEF SignalRefusal, TypeOK, ghosts
    <3> QED BY <2>8, <3>1, <3>2, <3>3 DEF SignalRefusal, TypeOK, mode, env
  <2>9. CASE EndService(t)
        BY <2>9, GoType DEF EndService, TypeOK, mode, env, ghosts
  <2>10. CASE Die(t)
        BY <2>10 DEF Die, TypeOK, mode, env, local, ghosts
  <2> QED BY <1>1, <2>1, <2>2, <2>3, <2>4, <2>5, <2>6, <2>7, <2>8, <2>9, <2>10
          DEF Step
<1>2. ASSUME NEW t \in Threads, Call(t)
      PROVE  TypeOK'
  <2> forceFips \in BOOLEAN
      BY DEF TypeOK
  <2>1. ASSUME NEW kind \in Kinds, CallCrypto(t, kind)
        PROVE  TypeOK'
        BY <2>1, GlobalInitType DEF CallCrypto, TypeOK, env
  <2>2. CASE CallFinish(t)
        BY <2>2, GlobalInitType DEF CallFinish, TypeOK, env
  <2>3. CASE CallSelftest(t)
        BY <2>3, GlobalInitType DEF CallSelftest, TypeOK, env
  <2>4. CASE CallForce(t)
        BY <2>4, GoType DEF CallForce, TypeOK, env, ghosts
  <2>5. CASE CallNoFips(t)
        BY <2>5 DEF CallNoFips, TypeOK, env, ghosts
  <2>6. CASE CallOperationalP(t)
        BY <2>6 DEF CallOperationalP, TypeOK, mode, env, ghosts
  <2> QED BY <1>2, <2>1, <2>2, <2>3, <2>4, <2>5, <2>6 DEF Call
<1>3. ASSUME NEW t \in Threads, NEW fault \in Faults, Signal(t, fault)
      PROVE  TypeOK'
  <2>1. pc[t] \in Places
        BY DEF TypeOK
  <2>2. fault \in {"error", "fatal"}
        BY DEF AllFaults
  <2>3. CASE noFips
        BY <1>3, <2>3, GoType DEF Signal, TypeOK, mode, env, local
  <2>4. CASE ~noFips /\ fault = "error"
        BY <1>3, <2>1, <2>4, NewStateType, NoteErrorType
        DEF Signal, TypeOK, mode, env, local
  <2>5. CASE ~noFips /\ fault = "fatal"
        BY <1>3, <2>1, <2>5, NewStateType, NoteErrorType
        DEF Signal, TypeOK, mode, env, local
  <2> QED BY <2>2, <2>3, <2>4, <2>5
<1>4. CASE UNCHANGED vars
      BY <1>4 DEF vars, mode, env, local, ghosts, TypeOK
<1> QED BY <1>1, <1>2, <1>3, <1>4 DEF Next, Halted

(* TypeOK for every use of the library: initialisation, self-tests, gates  *)
(* and errors of any number of threads keep every variable in its type.    *)
THEOREM FsmType == Spec => []TypeOK
<1>1. Init => TypeOK
  <2> HAVE Init
  <2>1. pc \in [Threads -> Places]
        BY DEF Init, Places
  <2>2. op \in [Threads -> Ops] /\ state \in States
        BY DEF Init, Ops, States
  <2>3. hmac \in BOOLEAN /\ system \in AllSystems
        BY FsmAssumption DEF Init
  <2> QED BY <2>1, <2>2, <2>3 DEF Init, TypeOK
<1> QED BY <1>1, StepType, PTL DEF Spec

----------------------------------------------------------------------------
(* FatalClosed for every use of the library: once in Fatal-Error the       *)
(* machine stays there, and no gate lets another call through while the    *)
(* process is on its way to abort().                                       *)
THEOREM FsmFatal == Spec => FatalClosed
<1>1. ASSUME TypeOK, [Next]_vars, state = "FATALERROR", ~noFips
      PROVE  /\ state' = "FATALERROR"
             /\ \A t \in Threads : pc'[t] = "serving" => pc[t] = "serving"
  <2> DEFINE Closed == /\ state' = "FATALERROR"
                      /\ \A t \in Threads : pc'[t] = "serving" => pc[t] = "serving"
  <2> USE <1>1, GrantedTo DEF NewState, Go
  <2> state \in States
      BY DEF TypeOK
  <2>1. ASSUME NEW t \in Threads, NEW force \in BOOLEAN,
               NEW next \in {"gate", "begin"}, GlobalInit(t, force, next)
        PROVE  Closed
    <3>1. CASE anyInit
          BY <2>1, <3>1 DEF GlobalInit, TypeOK
    <3>2. CASE ~anyInit
      <4>1. FipsModeChoice(force) \in {"again", "die", "fips", "plain"}
            BY DEF FipsModeChoice, TypeOK, AllSystems
      <4> QED BY <2>1, <3>2, <4>1 DEF GlobalInit, TypeOK
    <3> QED BY <3>1, <3>2
  <2>2. ASSUME NEW t \in Threads, Step(t)
        PROVE  Closed
    <3>1. CASE Constructor(t)
          BY <3>1, <2>1 DEF Constructor, TypeOK, AllSystems
    <3>2. CASE Gate(t)
          BY <3>2 DEF Gate, Answer, TypeOK
    <3>3. CASE Regate(t)
          BY <3>3 DEF Regate, Answer, TypeOK
    <3>4. CASE ForceCheck(t)
          BY <3>4 DEF ForceCheck, TypeOK
    <3>5. CASE BeginTests(t)
          BY <3>5 DEF BeginTests, TypeOK
    <3>6. CASE RunTests(t)
          BY <3>6 DEF RunTests, TypeOK
    <3>7. CASE EndTests(t)
          BY <3>7 DEF EndTests, TypeOK
    <3>8. CASE SignalRefusal(t)
      <4> DEFINE next == CASE op[t] = "anyway" -> "serving"
                           [] op[t] = "fatal"  -> "dying"
                           [] OTHER            -> "idle"
      <4>1. NewState(t, IF op[t] = "fatal" THEN "FATALERROR" ELSE "ERROR", next)
            BY <3>8 DEF SignalRefusal
      <4>2. state' = state /\ pc' = [pc EXCEPT ![t] = "dying"]
            BY <4>1
      <4> QED BY <4>2 DEF TypeOK
    <3>9. CASE EndService(t)
          BY <3>9 DEF EndService, TypeOK
    <3>10. CASE Die(t)
          BY <3>10 DEF Die
    <3> QED BY <2>2, <3>1, <3>2, <3>3, <3>4, <3>5, <3>6, <3>7, <3>8, <3>9,
               <3>10 DEF Step
  <2>3. ASSUME NEW t \in Threads, Call(t)
        PROVE  Closed
    <3> forceFips \in BOOLEAN
        BY DEF TypeOK
    <3>1. ASSUME NEW kind \in Kinds, CallCrypto(t, kind)
          PROVE  Closed
          BY <3>1, <2>1 DEF CallCrypto
    <3>2. CASE CallFinish(t)
          BY <3>2, <2>1 DEF CallFinish
    <3>3. CASE CallSelftest(t)
          BY <3>3, <2>1 DEF CallSelftest
    <3>4. CASE CallForce(t)
          BY <3>4 DEF CallForce, TypeOK
    <3>5. CASE CallNoFips(t)
          BY <3>5 DEF CallNoFips
    <3>6. CASE CallOperationalP(t)
          BY <3>6 DEF CallOperationalP
    <3> QED BY <2>3, <3>1, <3>2, <3>3, <3>4, <3>5, <3>6 DEF Call
  <2>4. ASSUME NEW t \in Threads, NEW fault \in Faults, Signal(t, fault)
        PROVE  Closed
        BY <2>4, FsmAssumption DEF Signal, TypeOK, AllFaults
  <2>5. CASE UNCHANGED vars
        BY <2>5 DEF vars
  <2> QED BY <2>2, <2>3, <2>4, <2>5 DEF Next, Halted
<1>2. TypeOK /\ [Next]_vars =>
        [(state = "FATALERROR" /\ ~noFips) =>
            /\ state' = "FATALERROR"
            /\ \A t \in Threads : pc'[t] = "serving" => pc[t] = "serving"]_vars
      BY <1>1
<1> QED BY <1>2, FsmType, PTL DEF Spec, FatalClosed
----------------------------------------------------------------------------
(* The invariant is kept, action by action. *)

\* The first half of _gcry_fips_is_operational keeps the invariant.
LEMMA GateInv ==
    ASSUME ProperUse, Inv, TypeOK', NEW t \in Threads, Gate(t)
    PROVE  Inv'
<1> USE FsmAssumption DEF ProperUse, Inv, TypeOK, AllKinds, Busy
<1>1. (InitPhase /\ Workers /\ InitState /\ PlainPaths /\ MainOp)'
      BY DEF Gate, Answer, Go, mode, ghosts, InitPhase, Workers, InitState, PlainPaths, MainOp
<1>2. (SelftestState /\ Overtaken /\ FatalBlamed /\ NoShutdown)'
      BY DEF Gate, Answer, Go, mode, ghosts, Workers, InitState, SelftestState, Overtaken,
             FatalBlamed, NoShutdown
<1>3. (Sound /\ AbortJustified)'
      BY DEF Gate, Answer, Go, mode, ghosts, Sound, AbortJustified
<1> QED BY <1>1, <1>2, <1>3 DEF Inv

\* Its second half, after the self-tests, keeps the invariant.
LEMMA RegateInv ==
    ASSUME ProperUse, Inv, TypeOK', NEW t \in Threads, Regate(t)
    PROVE  Inv'
<1> USE FsmAssumption DEF ProperUse, Inv, TypeOK, AllKinds, Busy
<1>1. (InitPhase /\ Workers /\ InitState /\ PlainPaths /\ MainOp)'
      BY DEF Regate, Answer, Go, mode, ghosts, InitPhase, Workers, InitState, PlainPaths, MainOp
<1>2. (SelftestState /\ Overtaken /\ FatalBlamed /\ NoShutdown)'
      BY DEF Regate, Answer, Go, mode, ghosts, Workers, InitState, SelftestState, Overtaken,
             FatalBlamed, NoShutdown
<1>3. (Sound /\ AbortJustified)'
      BY DEF Regate, Answer, Go, mode, ghosts, Sound, AbortJustified
<1> QED BY <1>1, <1>2, <1>3 DEF Inv

\* The check of a forced FIPS mode keeps the invariant.
LEMMA ForceCheckInv ==
    ASSUME ProperUse, Inv, TypeOK', NEW t \in Threads, ForceCheck(t)
    PROVE  Inv'
<1> USE FsmAssumption DEF ProperUse, Inv, TypeOK, AllKinds, Busy
<1>1. (InitPhase /\ Workers /\ InitState /\ PlainPaths /\ MainOp)'
      BY DEF ForceCheck, Go, mode, ghosts, InitPhase, Workers, InitState, PlainPaths, MainOp
<1>2. (SelftestState /\ Overtaken /\ FatalBlamed /\ NoShutdown)'
      BY DEF ForceCheck, Go, mode, ghosts, Workers, InitState, SelftestState, Overtaken,
             FatalBlamed, NoShutdown
<1>3. (Sound /\ AbortJustified)'
      BY DEF ForceCheck, Go, mode, ghosts, Sound, AbortJustified
<1> QED BY <1>1, <1>2, <1>3 DEF Inv

\* A self-test, whatever its result, keeps the invariant.
LEMMA RunTestsInv ==
    ASSUME ProperUse, Inv, TypeOK', NEW t \in Threads, RunTests(t)
    PROVE  Inv'
<1> USE FsmAssumption DEF ProperUse, Inv, TypeOK, AllKinds, Busy
<1>1. (InitPhase /\ Workers /\ InitState /\ PlainPaths /\ MainOp)'
      BY DEF RunTests, Go, mode, ghosts, InitPhase, Workers, InitState, PlainPaths, MainOp
<1>2. (SelftestState /\ Overtaken /\ FatalBlamed /\ NoShutdown)'
      BY DEF RunTests, Go, mode, ghosts, Workers, InitState, SelftestState, Overtaken,
             FatalBlamed, NoShutdown
<1>3. (Sound /\ AbortJustified)'
      BY DEF RunTests, Go, mode, ghosts, Sound, AbortJustified
<1> QED BY <1>1, <1>2, <1>3 DEF Inv

\* The end of a public function keeps the invariant.
LEMMA EndServiceInv ==
    ASSUME ProperUse, Inv, TypeOK', NEW t \in Threads, EndService(t)
    PROVE  Inv'
<1> USE FsmAssumption DEF ProperUse, Inv, TypeOK, AllKinds, Busy
<1>1. (InitPhase /\ Workers /\ InitState /\ PlainPaths /\ MainOp)'
      BY DEF EndService, Go, mode, ghosts, InitPhase, Workers, InitState, PlainPaths, MainOp
<1>2. (SelftestState /\ Overtaken /\ FatalBlamed /\ NoShutdown)'
      BY DEF EndService, Go, mode, ghosts, Workers, InitState, SelftestState, Overtaken,
             FatalBlamed, NoShutdown
<1>3. (Sound /\ AbortJustified)'
      BY DEF EndService, Go, mode, ghosts, Sound, AbortJustified
<1> QED BY <1>1, <1>2, <1>3 DEF Inv

\* The end of the process keeps the invariant.
LEMMA DieInv ==
    ASSUME ProperUse, Inv, TypeOK', NEW t \in Threads, Die(t)
    PROVE  Inv'
<1> USE FsmAssumption DEF ProperUse, Inv, TypeOK, AllKinds, Busy
<1>1. (InitPhase /\ Workers /\ InitState /\ PlainPaths /\ MainOp)'
      BY DEF Die, mode, local, ghosts, InitPhase, Workers, InitState, PlainPaths, MainOp
<1>2. (SelftestState /\ Overtaken /\ FatalBlamed /\ NoShutdown)'
      BY DEF Die, mode, local, ghosts, Workers, InitState, SelftestState, Overtaken,
             FatalBlamed, NoShutdown
<1>3. (Sound /\ AbortJustified)'
      BY DEF Die, mode, local, ghosts, Sound, AbortJustified
<1> QED BY <1>1, <1>2, <1>3 DEF Inv

\* GCRYCTL_FORCE_FIPS_MODE keeps the invariant.
LEMMA CallForceInv ==
    ASSUME ProperUse, Inv, TypeOK', NEW t \in Threads, CallForce(t)
    PROVE  Inv'
<1> USE FsmAssumption DEF ProperUse, Inv, TypeOK, AllKinds, Busy
<1>1. (InitPhase /\ Workers /\ InitState /\ PlainPaths /\ MainOp)'
      BY DEF CallForce, MayCall, Started, Go, ghosts, InitPhase, Workers, InitState, PlainPaths, MainOp
<1>2. (SelftestState /\ Overtaken /\ FatalBlamed /\ NoShutdown)'
      BY DEF CallForce, MayCall, Started, Go, ghosts, Workers, InitState, SelftestState, Overtaken,
             FatalBlamed, NoShutdown
<1>3. (Sound /\ AbortJustified)'
      BY DEF CallForce, MayCall, Started, Go, ghosts, Sound, AbortJustified
<1> QED BY <1>1, <1>2, <1>3 DEF Inv

\* GCRYCTL_NO_FIPS_MODE keeps the invariant.
LEMMA CallNoFipsInv ==
    ASSUME ProperUse, Inv, TypeOK', NEW t \in Threads, CallNoFips(t)
    PROVE  Inv'
<1> USE FsmAssumption DEF ProperUse, Inv, TypeOK, AllKinds, Busy
<1>1. (InitPhase /\ Workers /\ InitState /\ PlainPaths /\ MainOp)'
      BY DEF CallNoFips, MayCall, Started, ghosts, InitPhase, Workers, InitState, PlainPaths, MainOp
<1>2. (SelftestState /\ Overtaken /\ FatalBlamed /\ NoShutdown)'
      BY DEF CallNoFips, MayCall, Started, ghosts, Workers, InitState, SelftestState, Overtaken,
             FatalBlamed, NoShutdown
<1>3. (Sound /\ AbortJustified)'
      BY DEF CallNoFips, MayCall, Started, ghosts, Sound, AbortJustified
<1> QED BY <1>1, <1>2, <1>3 DEF Inv

\* GCRYCTL_OPERATIONAL_P keeps the invariant.
LEMMA CallOperationalPInv ==
    ASSUME ProperUse, Inv, TypeOK', NEW t \in Threads, CallOperationalP(t)
    PROVE  Inv'
<1> USE FsmAssumption DEF ProperUse, Inv, TypeOK, AllKinds, Busy
<1>1. (InitPhase /\ Workers /\ InitState /\ PlainPaths /\ MainOp)'
      BY DEF CallOperationalP, MayCall, Started, mode, ghosts, InitPhase, Workers, InitState, PlainPaths, MainOp
<1>2. (SelftestState /\ Overtaken /\ FatalBlamed /\ NoShutdown)'
      BY DEF CallOperationalP, MayCall, Started, mode, ghosts, Workers, InitState, SelftestState, Overtaken,
             FatalBlamed, NoShutdown
<1>3. (Sound /\ AbortJustified)'
      BY DEF CallOperationalP, MayCall, Started, mode, ghosts, Sound, AbortJustified
<1> QED BY <1>1, <1>2, <1>3 DEF Inv

(* Self-tests start: only Main starts them, never inside its own tests. *)
LEMMA BeginTestsInv ==
    ASSUME ProperUse, Inv, TypeOK', NEW t \in Threads, BeginTests(t)
    PROVE  Inv'
<1> USE FsmAssumption, GrantedTo DEF Inv, TypeOK, AllKinds, Busy
<1>1. t = Main
      BY DEF BeginTests, Workers
<1>2. (InitPhase /\ Workers /\ InitState /\ PlainPaths /\ MainOp)'
      BY <1>1 DEF BeginTests, NewState, Go, mode, local,
         InitPhase, Workers, InitState, PlainPaths, MainOp
<1>3. (SelftestState /\ Overtaken /\ FatalBlamed /\ NoShutdown /\ Sound)'
      BY <1>1 DEF BeginTests, NewState, Go, mode, local,
         SelftestState, Overtaken, FatalBlamed, NoShutdown, Sound
<1>4. AbortJustified'
  <2>1. CASE noFips \/ <<state, "SELFTEST">> \in Granted
    <3>1. pc' = [pc EXCEPT ![Main] = "testing"] /\ blame' = blame
          BY <1>1, <2>1 DEF BeginTests, NewState, Go
    <3> QED BY <3>1 DEF AbortJustified
  <2>2. CASE ~noFips /\ <<state, "SELFTEST">> \notin Granted
    <3>1. state \in {"POWERON", "SELFTEST", "FATALERROR", "SHUTDOWN"}
          BY <2>2 DEF States
    <3>2. state = "FATALERROR"
          BY <1>1, <2>2, <3>1
          DEF BeginTests, InitPhase, SelftestState, NoShutdown
    <3> QED BY <3>2 DEF BeginTests, FatalBlamed, AbortJustified
  <2> QED BY <2>1, <2>2
<1> QED BY <1>2, <1>3, <1>4 DEF Inv

(* Self-tests end: from the Self-Test state the verdict is granted, and    *)
(* otherwise an error overtook the tests.                                  *)
LEMMA EndTestsInv ==
    ASSUME ProperUse, Inv, TypeOK', NEW t \in Threads, EndTests(t)
    PROVE  Inv'
<1> USE FsmAssumption DEF Inv, AllKinds, Busy
<1> DEFINE new == IF passed[Main] THEN "OPERATIONAL" ELSE "ERROR"
<1>1. t = Main /\ pc[Main] = "verdict" /\ ret[Main] \in {"idle", "gate", "regate"}
      BY DEF EndTests, Workers, TypeOK
<1>2. blame \subseteq blame'
      BY DEF EndTests, NoteError
<1>3. /\ noFips' = noFips /\ anyInit' = anyInit /\ initDone' = initDone
      /\ initFinished' = initFinished
      /\ op'[Main] = IF pc'[Main] = "idle" THEN "none" ELSE op[Main]
      /\ \A u \in Threads \ {Main} : op'[u] = op[u]
      BY <1>1 DEF EndTests, mode, TypeOK
<1>4. /\ \A u \in Threads \ {Main} : pc'[u] = pc[u]
      /\ pc'[Main] \in {ret[Main], "dying"}
      /\ noFips => pc'[Main] = ret[Main]
      BY <1>1 DEF EndTests, NewState, Go, TypeOK
<1>5. \/ state' = state /\ (noFips \/ <<state, new>> \notin Granted)
      \/ state' = new /\ ~noFips /\ <<state, new>> \in Granted
      BY <1>1 DEF EndTests, NewState
<1>6. state' = state \/ state' \in {"OPERATIONAL", "ERROR"}
      BY <1>5
<1>7. Workers'
      BY <1>3, <1>4 DEF Workers
<1>8. (InitPhase /\ InitState /\ MainOp)'
      BY <1>1, <1>3, <1>4, <1>6 DEF InitPhase, InitState, MainOp
<1>9. PlainPaths'
      BY <1>1, <1>3, <1>4 DEF PlainPaths
<1>10. (FatalBlamed /\ NoShutdown)'
      BY <1>2, <1>6 DEF FatalBlamed, NoShutdown
<1>11. state \in States
      BY DEF TypeOK
<1>12. (~noFips /\ state = "SELFTEST") => state' = new /\ pc'[Main] = ret[Main]
  <2>1. state = "SELFTEST" => <<state, new>> \in Granted
        BY <1>11, GrantedTo
  <2> QED BY <1>1, <2>1 DEF EndTests, NewState, Go, TypeOK
<1>13. (SelftestState /\ Overtaken)'
      BY <1>1, <1>3, <1>4, <1>6, <1>12 DEF SelftestState, Overtaken
<1>14. Sound'
  <2>1. CASE noFips
        BY <1>3, <2>1 DEF Sound
  <2>2. CASE ~noFips /\ state = "OPERATIONAL"
    <3>1. <<state, "OPERATIONAL">> \notin Granted
          BY <1>11, <2>2, GrantedTo
    <3>2. CASE passed[Main]
      <4>1. state' = state
            BY <1>5, <3>1, <3>2
      <4> QED BY <1>1, <1>3, <2>2, <3>2, <4>1 DEF EndTests, Sound
    <3>3. CASE ~passed[Main]
      <4>1. <<state, "ERROR">> \in Granted
            BY <1>11, <2>2, GrantedTo
      <4> QED BY <1>5, <2>2, <3>3, <4>1 DEF Sound
    <3> QED BY <3>2, <3>3
  <2>3. CASE ~noFips /\ state # "OPERATIONAL" /\ state' = "OPERATIONAL"
    <3>1. state = "SELFTEST" /\ passed[Main]
          BY <1>5, <1>11, <2>3, GrantedTo
    <3> QED BY <1>1, <2>3, <3>1 DEF EndTests, SelftestState, Sound
  <2> QED BY <1>5, <2>1, <2>2, <2>3 DEF Sound
<1>15. AbortJustified'
  <2>1. pc'[Main] = "dying" => ~noFips /\ state # "SELFTEST"
        BY <1>1, <1>4, <1>12
  <2> QED BY <1>1, <1>2, <1>4, <2>1 DEF Overtaken, AbortJustified
<1> QED BY <1>7, <1>8, <1>9, <1>10, <1>13, <1>14, <1>15

(* A refused call reports: in FIPS mode only, and granted unless the       *)
(* machine is in Fatal-Error already.                                      *)
LEMMA SignalRefusalInv ==
    ASSUME ProperUse, Inv, TypeOK', NEW t \in Threads, SignalRefusal(t)
    PROVE  Inv'
<1> USE FsmAssumption DEF Inv, AllKinds, Busy
<1> DEFINE new  == IF op[t] = "fatal" THEN "FATALERROR" ELSE "ERROR"
           next == CASE op[t] = "anyway" -> "serving"
                     [] op[t] = "fatal"  -> "dying"
                     [] OTHER            -> "idle"
<1>1. pc[t] = "signal" /\ ~noFips
      BY DEF SignalRefusal, PlainPaths
<1>2. NewState(t, new, next) /\ NoteError(t, op[t] = "fatal")
      BY <1>1 DEF SignalRefusal
<1>3. /\ noFips' = noFips /\ anyInit' = anyInit /\ initDone' = initDone
      /\ initFinished' = initFinished /\ ret' = ret
      /\ op'[t] = IF pc'[t] = "idle" THEN "none" ELSE op[t]
      /\ \A u \in Threads \ {t} : op'[u] = op[u]
      BY DEF SignalRefusal, mode, TypeOK
<1>4. /\ sound' = FALSE /\ blame \subseteq blame'
      /\ op[t] = "fatal" => blame' # {}
      /\ (t # Main /\ pc[Main] \in {"testing", "verdict"}) => blame' # {}
      BY <1>2 DEF NoteError, Testing
<1>5. \A s \in {"ERROR", "FATALERROR"} :
          <<state, s>> \in Granted <=> state # "FATALERROR"
      BY GrantedTo DEF TypeOK, NoShutdown
<1>6. \/ state # "FATALERROR" /\ state' \in {"ERROR", "FATALERROR"}
         /\ (state' = "FATALERROR" => op[t] = "fatal")
      \/ state = "FATALERROR" /\ state' = state /\ pc'[t] = "dying"
      BY <1>2, <1>5 DEF NewState, Go, TypeOK
<1>7. /\ \A u \in Threads \ {t} : pc'[u] = pc[u]
      /\ pc'[t] \in {"serving", "dying", "idle"}
      /\ pc'[t] = "serving" => op[t] = "anyway"
      /\ pc'[t] = "dying" => op[t] = "fatal" \/ state = "FATALERROR"
      BY <1>2, <1>5 DEF NewState, Go, TypeOK
<1>8. op'[t] \in {"none", op[t]} /\ (pc'[t] = "serving" => op'[t] = op[t])
      BY <1>3, <1>7
<1>9. (InitPhase /\ InitState)'
  <2>1. anyInit
        BY <1>1 DEF InitPhase, Workers
  <2>2. pc'[Main] = pc[Main] \/ pc'[Main] \in {"serving", "dying", "idle"}
        BY <1>7
  <2> QED BY <1>3, <1>6, <2>1, <2>2 DEF InitPhase, InitState
<1>10. Workers'
  <2>1. op'[Main] = "finish" => op[Main] = "finish"
        BY <1>3, <1>8
  <2> QED BY <1>1, <1>3, <1>7, <1>8, <2>1 DEF Workers
<1>11. MainOp'
  <2>1. CASE t = Main
        BY <1>1, <1>7, <1>8, <2>1 DEF MainOp
  <2>2. CASE t # Main
        BY <1>3, <1>7, <2>2 DEF MainOp
  <2> QED BY <2>1, <2>2
<1>12. PlainPaths'
      BY <1>1, <1>3 DEF PlainPaths
<1>13. (SelftestState /\ Sound)'
      BY <1>6 DEF SelftestState, Sound
<1>14. (FatalBlamed /\ NoShutdown)'
      BY <1>4, <1>6 DEF FatalBlamed, NoShutdown
<1>15. Overtaken'
      BY <1>1, <1>3, <1>4, <1>7 DEF Overtaken
<1>16. AbortJustified'
      BY <1>4, <1>7 DEF FatalBlamed, AbortJustified
<1> QED BY <1>9, <1>10, <1>11, <1>12, <1>13, <1>14, <1>15, <1>16

(* Running code reports an error. *)
LEMMA SignalInv ==
    ASSUME ProperUse, Inv, TypeOK', NEW t \in Threads, NEW fault \in Faults,
           Signal(t, fault)
    PROVE  Inv'
<1> USE FsmAssumption DEF Inv, AllKinds, Busy
<1>1. /\ fault \in {"error", "fatal"} /\ pc[t] \in {"serving", "testing"}
      /\ noFips' = noFips /\ anyInit' = anyInit /\ initDone' = initDone
      /\ initFinished' = initFinished /\ op' = op /\ ret' = ret
      BY DEF AllFaults, Signal, mode, local
<1>2. \A s \in {"ERROR", "FATALERROR"} :
          <<state, s>> \in Granted <=> state # "FATALERROR"
      BY GrantedTo DEF TypeOK, NoShutdown
<1>3. /\ \A u \in Threads \ {t} : pc'[u] = pc[u]
      /\ pc'[t] \in {pc[t], "dying"}
      BY <1>1, ZenonT(60) DEF Signal, NewState, Go, TypeOK
<1>4. /\ blame \subseteq blame'
      /\ fault = "fatal" => blame' # {}
      /\ (~noFips /\ pc[Main] \in {"testing", "verdict"}) => blame' # {}
      BY <1>1 DEF Signal, NoteError, Testing
<1>5. \/ noFips /\ state' = state /\ fault = "fatal"
      \/ /\ ~noFips /\ state # "FATALERROR"
         /\ state' = IF fault = "fatal" THEN "FATALERROR" ELSE "ERROR"
         /\ pc'[t] = IF fault = "fatal" THEN "dying" ELSE pc[t]
      \/ ~noFips /\ state = "FATALERROR" /\ state' = state
      BY <1>1, <1>2 DEF Signal, NewState, Go, TypeOK
<1>6. state' = state \/ state' \in {"ERROR", "FATALERROR"}
      BY <1>5
<1>7. (InitPhase /\ InitState)'
  <2>1. anyInit
        BY <1>1 DEF InitPhase, Workers
  <2>2. pc'[Main] \in {pc[Main], "dying"}
        BY <1>3
  <2> QED BY <1>1, <1>6, <2>1, <2>2 DEF InitPhase, InitState
<1>8. Workers'
      BY <1>1, <1>3 DEF Workers
<1>9. MainOp'
      BY <1>1, <1>3 DEF MainOp
<1>10. PlainPaths'
      BY <1>1, <1>3 DEF PlainPaths
<1>11. (SelftestState /\ Sound)'
      BY <1>1, <1>5 DEF SelftestState, Sound
<1>12. (FatalBlamed /\ NoShutdown)'
      BY <1>4, <1>5 DEF FatalBlamed, NoShutdown
<1>13. Overtaken'
      BY <1>1, <1>3, <1>4 DEF Overtaken
<1>14. AbortJustified'
  <2>1. pc'[t] = "dying" => blame' # {}
        BY <1>1, <1>4, <1>5 DEF FatalBlamed
  <2> QED BY <1>3, <1>4, <2>1 DEF AbortJustified
<1> QED BY <1>7, <1>8, <1>9, <1>10, <1>11, <1>12, <1>13, <1>14

(* global_init runs once, from Power-On, and ends in Init, outside FIPS    *)
(* mode, or on the way to abort() because of the system's setting.         *)
LEMMA GlobalInitFirst ==
    ASSUME Inv, ~anyInit, NEW force \in BOOLEAN, NEW next \in {"gate", "begin"},
           GlobalInit(Main, force, next)
    PROVE  /\ anyInit' /\ initDone'
           /\ fresh' = fresh /\ sound' = sound
           /\ \/ /\ state' = "INIT" /\ ~noFips'
                 /\ pc' = [pc EXCEPT ![Main] = next]
              \/ /\ state' = "POWERON" /\ noFips'
                 /\ pc' = [pc EXCEPT ![Main] = next]
              \/ /\ state' = "POWERON" /\ ~noFips' /\ blame' # {}
                 /\ pc' = [pc EXCEPT ![Main] = "dying"]
           /\ blame \subseteq blame'
<1>1. state = "POWERON" /\ ~noFips /\ ~initDone
      BY DEF Inv, InitPhase
<1>2. FipsModeChoice(force) \in {"die", "fips", "plain"}
      BY <1>1 DEF FipsModeChoice, Inv, TypeOK, AllSystems
<1>3. <<state, "INIT">> \in Granted
      BY <1>1, GrantedTo DEF States
<1>4. FipsModeChoice(force) = "die" => ~force /\ system = "broken"
      BY <1>1 DEF FipsModeChoice, Inv, TypeOK, AllSystems
<1> QED BY <1>1, <1>2, <1>3, <1>4 DEF GlobalInit, NewState, Go

(* A call of Main that initialises the library. *)
LEMMA FirstCallInv ==
    ASSUME ProperUse, Inv, TypeOK', ~anyInit,
           NEW force \in BOOLEAN, NEW next \in {"gate", "begin"},
           GlobalInit(Main, force, next),
           op'[Main] = "finish" => initFinished',
           initFinished' => op'[Main] = "finish" /\ next = "gate",
           \A u \in Threads \ {Main} : op'[u] = op[u],
           next = "begin" => ret'[Main] = "idle"
    PROVE  Inv'
<1> USE FsmAssumption DEF Inv, AllKinds, Busy
<1>1. ~initFinished /\ state = "POWERON" /\ ~noFips
      BY DEF InitPhase
<1>2. \A u \in Threads \ {Main} : pc[u] = "idle"
      BY <1>1 DEF Workers
<1>3. /\ anyInit' /\ initDone' /\ fresh' = fresh /\ sound' = sound
      /\ blame \subseteq blame'
      /\ \A u \in Threads \ {Main} : pc'[u] = "idle"
      /\ \/ state' = "INIT" /\ ~noFips' /\ pc'[Main] = next
         \/ state' = "POWERON" /\ noFips' /\ pc'[Main] = next
         \/ /\ state' = "POWERON" /\ ~noFips' /\ blame' # {}
            /\ pc'[Main] = "dying"
      BY <1>2, GlobalInitFirst DEF TypeOK
<1>4. (InitPhase /\ InitState /\ MainOp)'
      BY <1>3 DEF InitPhase, InitState, MainOp, TypeOK
<1>5. (Workers /\ PlainPaths)'
      BY <1>3 DEF Workers, PlainPaths
<1>6. (SelftestState /\ Overtaken /\ FatalBlamed /\ NoShutdown /\ Sound)'
      BY <1>3 DEF SelftestState, Overtaken, FatalBlamed, NoShutdown, Sound
<1>7. AbortJustified'
      BY <1>3 DEF AbortJustified
<1> QED BY <1>4, <1>5, <1>6, <1>7

\* The constructor of the library keeps the invariant.
LEMMA ConstructorInv ==
    ASSUME ProperUse, Inv, TypeOK', NEW t \in Threads, Constructor(t)
    PROVE  Inv'
<1> USE FsmAssumption DEF Inv, AllKinds, Busy
<1>1. t = Main /\ ~anyInit /\ ~initFinished
      BY DEF Constructor, Workers, InitPhase
<1>2. CASE system = "fips"
  <2>1. /\ GlobalInit(Main, TRUE, "begin") /\ initFinished' = initFinished
        /\ op'[Main] = "ctor" /\ ret'[Main] = "idle"
        /\ \A u \in Threads \ {Main} : op'[u] = op[u]
        BY <1>1, <1>2 DEF Constructor, TypeOK
  <2> QED BY <1>1, <2>1, FirstCallInv
<1>3. CASE system \in {"plain", "broken"}
  <2>1. /\ state' = state /\ noFips' = noFips /\ anyInit' = anyInit
        /\ initDone' = initDone /\ initFinished' = initFinished
        /\ op'[Main] = "none" /\ \A u \in Threads \ {Main} : op'[u] = op[u]
        /\ pc'[Main] \in {"idle", "dying"}
        /\ \A u \in Threads \ {Main} : pc'[u] = pc[u]
        /\ blame \subseteq blame' /\ (pc'[Main] = "dying" => blame' # {})
    <3>1. CASE system = "plain"
          BY <1>1, <3>1 DEF Constructor, Go, ghosts, TypeOK
    <3>2. CASE system = "broken"
          BY <1>1, <3>2 DEF Constructor, Go, TypeOK
    <3> QED BY <1>3, <3>1, <3>2
  <2>2. (InitPhase /\ InitState /\ MainOp /\ PlainPaths)'
        BY <1>1, <2>1 DEF InitPhase, InitState, MainOp, PlainPaths
  <2>3. Workers'
        BY <1>1, <2>1 DEF Workers
  <2>4. (SelftestState /\ Overtaken /\ FatalBlamed /\ NoShutdown /\ Sound)'
        BY <1>1, <2>1
        DEF InitPhase, SelftestState, Overtaken, FatalBlamed, NoShutdown, Sound
  <2>5. AbortJustified'
        BY <2>1 DEF AbortJustified
  <2> QED BY <2>2, <2>3, <2>4, <2>5
<1> QED BY <1>2, <1>3 DEF TypeOK, AllSystems

(* A call into the initialised library moves its thread to next. *)
LEMMA LaterCallInv ==
    ASSUME ProperUse, Inv, TypeOK', anyInit, NEW t \in Threads, MayCall(t),
           NEW next \in {"gate", "begin"},
           pc' = [pc EXCEPT ![t] = next],
           UNCHANGED <<state, noFips, anyInit, initDone, ghosts>>,
           t # Main => /\ next = "gate" /\ op'[t] \in AllKinds
                       /\ initFinished' = initFinished,
           \A u \in Threads \ {t} : op'[u] = op[u] /\ ret'[u] = ret[u],
           initFinished => initFinished',
           op'[t] = "finish" => ~initFinished /\ initFinished',
           op'[t] # "finish" => initFinished' = initFinished,
           op'[t] = "finish" => next = "gate",
           next = "begin" => ret'[t] = "idle"
    PROVE  Inv'
<1> USE FsmAssumption DEF Inv, AllKinds, Busy
<1>1. /\ pc[t] = "idle" /\ pc'[t] = next
      /\ \A u \in Threads \ {t} : pc'[u] = pc[u]
      /\ t # Main => initFinished /\ op[Main] # "finish"
      BY DEF MayCall, Started, ProperUse, TypeOK
<1>2. (InitPhase /\ MainOp)'
      BY <1>1 DEF InitPhase, MainOp, TypeOK
<1>3. (SelftestState /\ Overtaken /\ FatalBlamed /\ NoShutdown /\ Sound)'
      BY <1>1
      DEF SelftestState, Overtaken, FatalBlamed, NoShutdown, Sound, ghosts
<1>4. AbortJustified'
      BY <1>1 DEF AbortJustified, ghosts
<1>5. InitState'
      BY <1>1 DEF InitState, MainOp, TypeOK
<1>6. Workers'
      BY <1>1 DEF Workers
<1>7. PlainPaths'
      BY <1>1 DEF PlainPaths
<1> QED BY <1>2, <1>3, <1>4, <1>5, <1>6, <1>7

\* Every call keeps the invariant.
LEMMA CallInv ==
    ASSUME ProperUse, Inv, TypeOK', NEW t \in Threads, Call(t)
    PROVE  Inv'
<1> USE FsmAssumption
<1>1. forceFips \in BOOLEAN
      BY DEF Inv, TypeOK
<1>2. MayCall(t) /\ ~anyInit => t = Main
      BY DEF MayCall, Started, ProperUse, Inv, InitPhase
<1>3. ASSUME NEW kind \in Kinds, CallCrypto(t, kind)
      PROVE  Inv'
  <2>1. /\ MayCall(t) /\ initFinished' = initFinished /\ ret' = ret
        /\ op'[t] = kind /\ \A u \in Threads \ {t} : op'[u] = op[u]
        /\ kind \in AllKinds /\ kind # "finish"
        /\ GlobalInit(t, forceFips, "gate")
        BY <1>3 DEF CallCrypto, Inv, TypeOK, AllKinds
  <2>2. CASE anyInit
    <3>1. /\ pc' = [pc EXCEPT ![t] = "gate"]
          /\ UNCHANGED <<state, noFips, anyInit, initDone, ghosts>>
          BY <2>1, <2>2 DEF GlobalInit, Go
    <3> QED BY <2>1, <2>2, <3>1, LaterCallInv
  <2>3. CASE ~anyInit
    <3>1. t = Main /\ ~initFinished
          BY <1>2, <2>1, <2>3 DEF Inv, InitPhase
    <3> QED BY <1>1, <2>1, <2>3, <3>1, FirstCallInv
  <2> QED BY <2>2, <2>3
<1>4. CASE CallFinish(t)
  <2>1. /\ MayCall(t) /\ ~initFinished /\ initFinished' /\ ret' = ret /\ t = Main
        /\ op'[t] = "finish" /\ \A u \in Threads \ {t} : op'[u] = op[u]
        /\ GlobalInit(t, forceFips, "gate")
        BY <1>4 DEF CallFinish, ProperUse, Inv, TypeOK
  <2>2. CASE anyInit
    <3>1. /\ pc' = [pc EXCEPT ![t] = "gate"]
          /\ UNCHANGED <<state, noFips, anyInit, initDone, ghosts>>
          BY <2>1, <2>2 DEF GlobalInit, Go
    <3> QED BY <2>1, <2>2, <3>1, LaterCallInv
  <2>3. CASE ~anyInit
        BY <1>1, <2>1, <2>3, FirstCallInv
  <2> QED BY <2>2, <2>3
<1>5. CASE CallSelftest(t)
  <2>1. /\ MayCall(t) /\ initFinished' = initFinished /\ t = Main
        /\ ret'[t] = "idle" /\ \A u \in Threads \ {t} : ret'[u] = ret[u]
        /\ op'[t] = "selftest" /\ \A u \in Threads \ {t} : op'[u] = op[u]
        /\ GlobalInit(t, forceFips, "begin")
        BY <1>5 DEF CallSelftest, ProperUse, Inv, TypeOK
  <2>2. CASE anyInit
    <3>1. /\ pc' = [pc EXCEPT ![t] = "begin"]
          /\ UNCHANGED <<state, noFips, anyInit, initDone, ghosts>>
          BY <2>1, <2>2 DEF GlobalInit, Go
    <3> QED BY <2>1, <2>2, <3>1, LaterCallInv
  <2>3. CASE ~anyInit
    <3>1. ~initFinished
          BY <2>3 DEF Inv, InitPhase
    <3> QED BY <1>1, <2>1, <2>3, <3>1, FirstCallInv
  <2> QED BY <2>2, <2>3
<1> QED BY <1>3, <1>4, <1>5, CallForceInv, CallNoFipsInv, CallOperationalPInv
        DEF Call

----------------------------------------------------------------------------
\* Used as the manual asks, the library keeps the invariant.
LEMMA ProperInv ==
    ASSUME ProperUse
    PROVE  Spec => []Inv
<1>1. Init => Inv
  <2> HAVE Init
  <2>1. pc \in [Threads -> Places] /\ op \in [Threads -> Ops] /\ state \in States
        BY DEF Init, Places, Ops, States
  <2>2. hmac \in BOOLEAN /\ system \in AllSystems
        BY FsmAssumption DEF Init
  <2>3. TypeOK
        BY <2>1, <2>2 DEF Init, TypeOK
  <2>4. InitPhase /\ Workers /\ InitState /\ PlainPaths /\ MainOp
        BY FsmAssumption
        DEF Init, InitPhase, Workers, InitState, PlainPaths, MainOp, Busy
  <2>5. /\ SelftestState /\ Overtaken /\ FatalBlamed /\ NoShutdown
        /\ Sound /\ AbortJustified
        BY FsmAssumption
        DEF Init, SelftestState, Overtaken, FatalBlamed, NoShutdown, Sound,
            AbortJustified
  <2> QED BY <2>3, <2>4, <2>5 DEF Inv
<1>2. Inv /\ [Next]_vars => Inv'
  <2> SUFFICES ASSUME Inv, [Next]_vars PROVE Inv'
      OBVIOUS
  <2>1. TypeOK'
        BY StepType DEF Inv
  <2>2. ASSUME NEW t \in Threads, Step(t)
        PROVE  Inv'
        BY <2>1, <2>2, ConstructorInv, GateInv, RegateInv, ForceCheckInv,
           BeginTestsInv, RunTestsInv, EndTestsInv, SignalRefusalInv,
           EndServiceInv, DieInv DEF Step
  <2>3. CASE UNCHANGED vars
        BY <2>3 DEF vars, mode, env, local, ghosts, Inv, TypeOK, InitPhase,
           Workers, InitState, SelftestState, Overtaken, FatalBlamed,
           NoShutdown, PlainPaths, MainOp, Sound, AbortJustified
  <2> QED BY <2>1, <2>2, <2>3, CallInv, SignalInv DEF Next, Halted
<1> QED BY <1>1, <1>2, PTL DEF Spec

(* Sound for every properly initialised application with one thread that   *)
(* requests self-tests: in FIPS mode Operational is reached only through a *)
(* self-test that began after the last error and passed.                   *)
THEOREM FsmSound ==
    ASSUME ProperUse
    PROVE  Spec => []Sound
<1>1. Inv => Sound
      BY DEF Inv
<1> QED BY <1>1, ProperInv, PTL

(* AbortJustified for the same applications: abort() is reached only after *)
(* a fatal error, after an error during self-tests or because the system's *)
(* FIPS setting is unreadable.                                             *)
THEOREM FsmAbort ==
    ASSUME ProperUse
    PROVE  Spec => []AbortJustified
<1>1. Inv => AbortJustified
      BY DEF Inv
<1> QED BY <1>1, ProperInv, PTL

----------------------------------------------------------------------------
(* The mode, in builds with the integrity check. Until global_init has run *)
(* the constructor comes first and only Main can call, a request is kept   *)
(* in force_fips_mode, and the system does not ask for FIPS mode.          *)
ModePhase ==
    /\ \A t \in Threads : pc[t] = "ctor" => t = Main /\ ~anyInit /\ asked = "none"
    /\ ~anyInit =>
          /\ ~noFips /\ ~initDone /\ ~initFinished
          /\ \A t \in Threads \ {Main} : pc[t] = "idle"
          /\ pc[Main] \in {"ctor", "idle", "dying"}
          /\ pc[Main] = "idle" => system = "plain"
          /\ asked = "fips" => forceFips
          /\ asked = "plain" => ~forceFips

ModeInv == ModePhase /\ AskedHonoured

(* global_init serves the request that is on record, and runs once. *)
LEMMA ModeGlobalInit ==
    ASSUME TypeOK, ModeInv, NEW t \in Threads, NEW force \in BOOLEAN,
           NEW next \in {"gate", "begin"}, GlobalInit(t, force, next),
           pc[t] = "ctor" => ~anyInit, asked' = asked,
           ~anyInit => /\ t = Main
                       /\ \/ asked = "none"
                          \/ system = "plain" /\ force = forceFips
    PROVE  ModeInv'
<1> USE FsmAssumption
<1>1. CASE anyInit
  <2>1. /\ pc' = [pc EXCEPT ![t] = next] /\ anyInit' = anyInit /\ noFips' = noFips
        BY <1>1 DEF GlobalInit, Go
  <2>2. \A u \in Threads : pc'[u] = "ctor" => pc[u] = "ctor"
        BY <2>1 DEF TypeOK
  <2> QED BY <1>1, <2>1, <2>2 DEF ModeInv, ModePhase, AskedHonoured
<1>2. CASE ~anyInit
  <2>1. /\ anyInit' /\ noFips' = (noFips \/ FipsModeChoice(force) = "plain")
        /\ ~noFips /\ ~initDone
        BY <1>2 DEF GlobalInit, ModeInv, ModePhase
  <2>2. FipsModeChoice(force) \in {"die", "fips", "plain"}
        BY <2>1 DEF FipsModeChoice, TypeOK, AllSystems
  <2>3. \A u \in Threads : pc'[u] # "ctor"
    <3>1. pc' = [pc EXCEPT ![t] = next] \/ pc' = [pc EXCEPT ![t] = "dying"]
          BY <1>2, <2>2 DEF GlobalInit, NewState, Go
    <3>2. \A u \in Threads \ {t} : pc[u] # "ctor"
          BY <1>2 DEF ModeInv, ModePhase
    <3> QED BY <3>1, <3>2 DEF TypeOK
  <2>4. AskedHonoured'
    <3>1. CASE asked = "none"
          BY <3>1 DEF AskedHonoured
    <3>2. CASE system = "plain" /\ force = forceFips
      <4>1. FipsModeChoice(force) = IF force THEN "fips" ELSE "plain"
            BY <2>1, <3>2 DEF FipsModeChoice
      <4>2. /\ asked = "fips" => force
            /\ asked = "plain" => ~force
            BY <1>2, <3>2 DEF ModeInv, ModePhase
      <4> QED BY <2>1, <4>1, <4>2 DEF AskedHonoured
    <3> QED BY <1>2, <3>1, <3>2
  <2> QED BY <2>1, <2>3, <2>4 DEF ModeInv, ModePhase
<1> QED BY <1>1, <1>2

(* A step of a thread that is inside a call leaves the mode alone. *)
LEMMA ModeInside ==
    ASSUME TypeOK, ModeInv, NEW t \in Threads, pc[t] \notin {"ctor", "idle"},
           \A u \in Threads \ {t} : pc'[u] = pc[u],
           pc'[t] # "ctor", pc[t] = "dying" => pc'[t] = "dying",
           UNCHANGED <<mode, env, asked>>
    PROVE  ModeInv'
<1> USE FsmAssumption
<1>1. AskedHonoured'
      BY DEF ModeInv, AskedHonoured, mode
<1>2. ~anyInit => t = Main /\ pc[t] = "dying"
      BY DEF ModeInv, ModePhase
<1>3. \A u \in Threads : pc'[u] = "ctor" => pc[u] = "ctor"
      OBVIOUS
<1>4. anyInit' = anyInit /\ noFips' = noFips /\ initDone' = initDone
      /\ initFinished' = initFinished /\ system' = system /\ forceFips' = forceFips
      BY DEF mode, env
<1>5. ModePhase'
  <2>1. CASE anyInit
        BY <1>3, <1>4, <2>1 DEF ModeInv, ModePhase
  <2>2. CASE ~anyInit
        BY <1>2, <1>3, <1>4, <2>2 DEF ModeInv, ModePhase
  <2> QED BY <2>1, <2>2
<1> QED BY <1>1, <1>5 DEF ModeInv

\* The constructor leaves no request unserved.
LEMMA ModeConstructor ==
    ASSUME TypeOK, ModeInv, NEW t \in Threads, Constructor(t)
    PROVE  ModeInv'
<1> USE FsmAssumption
<1>1. pc[t] = "ctor" /\ t = Main /\ ~anyInit /\ asked = "none" /\ asked' = asked
      BY DEF Constructor, ModeInv, ModePhase
<1>2. CASE system = "fips"
      BY <1>1, <1>2, ModeGlobalInit DEF Constructor
<1>3. CASE system \in {"plain", "broken"}
  <2>1. /\ pc' = [pc EXCEPT ![t] = IF system = "plain" THEN "idle" ELSE "dying"]
        /\ anyInit' = anyInit /\ noFips' = noFips /\ initDone' = initDone
        /\ initFinished' = initFinished /\ system' = system
    <3>1. CASE system = "plain"
          BY <3>1 DEF Constructor, Go, env
    <3>2. CASE system = "broken"
          BY <3>2 DEF Constructor, Go, env
    <3> QED BY <1>3, <3>1, <3>2
  <2>2. /\ pc'[Main] = IF system = "plain" THEN "idle" ELSE "dying"
        /\ \A u \in Threads \ {Main} : pc'[u] = pc[u]
        BY <1>1, <2>1 DEF TypeOK
  <2>3. ModePhase'
        BY <1>1, <2>1, <2>2 DEF ModeInv, ModePhase
  <2> QED BY <1>1, <2>1, <2>3 DEF ModeInv, AskedHonoured
<1> QED BY <1>2, <1>3 DEF TypeOK, AllSystems

\* A command that is not refused leaves the library in the mode it asked for.
LEMMA ModeCall ==
    ASSUME TypeOK, ModeInv, NEW t \in Threads, Call(t)
    PROVE  ModeInv'
<1> USE FsmAssumption
<1>1. /\ pc[t] = "idle" /\ MayCall(t)
      /\ ~anyInit => t = Main /\ system = "plain"
  <2>1. MayCall(t)
        BY DEF Call, CallCrypto, CallFinish, CallSelftest, CallForce, CallNoFips,
           CallOperationalP
  <2>2. ~anyInit => t = Main
        BY <2>1 DEF MayCall, Started, ModeInv, ModePhase
  <2> QED BY <2>1, <2>2 DEF MayCall, ModeInv, ModePhase
<1>2. forceFips \in BOOLEAN
      BY DEF TypeOK
<1>3. ASSUME NEW next \in {"gate", "begin"}, GlobalInit(t, forceFips, next),
             asked' = asked
      PROVE  ModeInv'
      BY <1>1, <1>2, <1>3, ModeGlobalInit
<1>4. CASE CallForce(t)
  <2>1. CASE anyInit
    <3>1. /\ pc' = [pc EXCEPT ![t] = "force"] /\ anyInit' /\ noFips' = noFips
          /\ asked' = asked
          BY <1>4, <2>1 DEF CallForce, Go
    <3>2. \A u \in Threads : pc'[u] = "ctor" => pc[u] = "ctor"
          BY <3>1 DEF TypeOK
    <3> QED BY <2>1, <3>1, <3>2 DEF ModeInv, ModePhase, AskedHonoured
  <2>2. CASE ~anyInit
    <3>1. /\ pc' = pc /\ ~anyInit' /\ noFips' = noFips /\ asked' = "fips"
          /\ forceFips' = TRUE /\ initDone' = initDone
          /\ initFinished' = initFinished /\ system' = system
          BY <1>4, <2>2 DEF CallForce, env
    <3>2. \A u \in Threads : pc[u] # "ctor"
          BY <1>1, <2>2 DEF ModeInv, ModePhase
    <3> QED BY <2>2, <3>1, <3>2 DEF ModeInv, ModePhase, AskedHonoured
  <2> QED BY <2>1, <2>2
<1>5. CASE CallNoFips(t)
  <2>1. /\ forceFips' = (forceFips /\ anyInit)
        /\ noFips' = (noFips \/ (anyInit /\ ~initFinished))
        /\ asked' = IF anyInit /\ initFinished THEN asked ELSE "plain"
        /\ pc' = pc /\ anyInit' = anyInit /\ initDone' = initDone
        /\ initFinished' = initFinished /\ system' = system
        BY <1>5 DEF CallNoFips, env
  <2>2. CASE anyInit
        BY <2>1, <2>2 DEF ModeInv, ModePhase, AskedHonoured
  <2>3. CASE ~anyInit
    <3>1. \A u \in Threads : pc[u] # "ctor"
          BY <1>1, <2>3 DEF ModeInv, ModePhase
    <3> QED BY <2>1, <2>3, <3>1 DEF ModeInv, ModePhase, AskedHonoured
  <2> QED BY <2>2, <2>3
<1>6. CASE CallOperationalP(t)
      BY <1>6 DEF CallOperationalP, mode, env, ModeInv, ModePhase, AskedHonoured
<1>7. CASE \/ \E kind \in Kinds : CallCrypto(t, kind)
           \/ CallFinish(t) \/ CallSelftest(t)
      BY <1>3, <1>7 DEF CallCrypto, CallFinish, CallSelftest
<1> QED BY <1>4, <1>5, <1>6, <1>7 DEF Call

\* Every step keeps to the mode asked for.
LEMMA ModeStep ==
    ASSUME TypeOK, ModeInv, [Next]_vars
    PROVE  ModeInv'
<1> USE FsmAssumption
<1>1. CASE UNCHANGED vars
      BY <1>1 DEF vars, mode, env, ModeInv, ModePhase, AskedHonoured
<1>2. ASSUME NEW t \in Threads, Step(t)
      PROVE  ModeInv'
  <2>1. CASE Constructor(t)
        BY <2>1, ModeConstructor
  <2>2. CASE Gate(t) \/ Regate(t) \/ ForceCheck(t) \/ EndService(t) \/ RunTests(t)
             \/ Die(t)
    <3>1. /\ pc[t] \notin {"ctor", "idle"} /\ UNCHANGED <<mode, env, asked>>
          /\ \A u \in Threads \ {t} : pc'[u] = pc[u]
          /\ pc'[t] # "ctor" /\ (pc[t] = "dying" => pc'[t] = "dying")
          BY <2>2 DEF Gate, Regate, ForceCheck, EndService, RunTests, Die, Answer,
             Go, TypeOK
    <3> QED BY <3>1, ModeInside
  <2>3. CASE BeginTests(t) \/ EndTests(t)
    <3>1. /\ pc[t] \notin {"ctor", "idle", "dying"} /\ UNCHANGED <<mode, env, asked>>
          /\ \A u \in Threads \ {t} : pc'[u] = pc[u]
          /\ pc'[t] # "ctor"
      <4>1. /\ pc[t] \in {"begin", "verdict"} /\ UNCHANGED <<mode, env, asked>>
            /\ Go(t, "testing") \/ Go(t, ret[t]) \/ Go(t, "dying")
            BY <2>3 DEF BeginTests, EndTests, NewState
      <4>2. ret[t] # "ctor"
            BY DEF TypeOK
      <4> QED BY <4>1, <4>2 DEF Go, TypeOK
    <3> QED BY <3>1, ModeInside
  <2>4. CASE SignalRefusal(t)
    <3> DEFINE next == CASE op[t] = "anyway" -> "serving"
                         [] op[t] = "fatal"  -> "dying"
                         [] OTHER            -> "idle"
    <3>1. next # "ctor"
          OBVIOUS
    <3>2. /\ pc[t] = "signal" /\ UNCHANGED <<mode, env, asked>>
          /\ Go(t, next) \/ Go(t, "dying")
          BY <2>4 DEF SignalRefusal, NewState
    <3> HIDE DEF next
    <3>3. /\ \A u \in Threads \ {t} : pc'[u] = pc[u]
          /\ pc'[t] # "ctor"
          BY <3>1, <3>2 DEF Go, TypeOK
    <3> QED BY <3>2, <3>3, ModeInside
  <2> QED BY <1>2, <2>1, <2>2, <2>3, <2>4 DEF Step
<1>3. ASSUME NEW t \in Threads, NEW fault \in Faults, Signal(t, fault)
      PROVE  ModeInv'
  <2>1. /\ pc[t] \in {"serving", "testing"} /\ UNCHANGED <<mode, env, asked>>
        /\ Go(t, pc[t]) \/ Go(t, "dying")
        BY <1>3 DEF Signal, NewState, AllFaults
  <2>2. /\ \A u \in Threads \ {t} : pc'[u] = pc[u]
        /\ pc'[t] # "ctor"
        BY <2>1 DEF Go, TypeOK
  <2> QED BY <2>1, <2>2, ModeInside
<1> QED BY <1>1, <1>2, <1>3, ModeCall DEF Next, Halted

(* ModeHonoured for every application, properly initialised or not, any    *)
(* number of whose threads issue mode commands: in a build with the        *)
(* integrity check the last command that was not refused decides the mode. *)
THEOREM FsmMode == Spec => []ModeHonoured
<1>1. Init => (hmac => ModeInv)
      BY FsmAssumption DEF Init, ModeInv, ModePhase, AskedHonoured
<1>2. TypeOK /\ (hmac => ModeInv) /\ [Next]_vars => (hmac => ModeInv)'
  <2>1. [Next]_vars => hmac' = hmac
    <3>1. ASSUME NEW t \in Threads, Step(t) PROVE hmac' = hmac
          BY <3>1 DEF Step, Constructor, Gate, Regate, ForceCheck, BeginTests,
             RunTests, EndTests, SignalRefusal, EndService, Die, env
    <3>2. ASSUME NEW t \in Threads, Call(t) PROVE hmac' = hmac
          BY <3>2 DEF Call, CallCrypto, CallFinish, CallSelftest, CallForce,
             CallNoFips, CallOperationalP, env
    <3>3. ASSUME NEW t \in Threads, NEW fault, Signal(t, fault) PROVE hmac' = hmac
          BY <3>3 DEF Signal, env
    <3> QED BY <3>1, <3>2, <3>3 DEF Next, Halted, vars, env
  <2> QED BY <2>1, ModeStep
<1>3. (hmac => ModeInv) => ModeHonoured
      BY DEF ModeInv, ModeHonoured
<1> QED BY <1>1, <1>2, <1>3, FsmType, PTL DEF Spec
=============================================================================
