------------------------------- MODULE FipsFsm -------------------------------
(***************************************************************************)
(* The FIPS finite state machine of Libgcrypt: current_state and its       *)
(* transition table (src/src/fips.c), the self-tests, the gate that every  *)
(* public function passes (fips_is_operational, src/src/visibility.c) and  *)
(* the control commands that choose the mode (src/src/global.c).           *)
(*                                                                         *)
(* fsm_lock is held inside single functions only, so a step of the model   *)
(* is one critical section.  What a thread learned in one section may be   *)
(* stale in the next, which is where the machine is hard to get right.     *)
(* global_init is one step: it is documented to run before threads exist.  *)
(***************************************************************************)

CONSTANTS
    Threads,        \* the threads of the application
    Main,           \* the thread that initialises the library
    Admins,         \* the threads that issue gcry_control commands
    Proper,         \* TRUE: other threads start after INITIALIZATION_FINISHED
    Builds,         \* ENABLE_HMAC_BINARY_CHECK: a subset of BOOLEAN
    Systems,        \* what check_fips_system_setting may meet
    Kinds,          \* the kinds of public functions that are called
    Outcomes,       \* how a self-test may end: a subset of BOOLEAN
    Faults          \* the errors running code may signal

AllSystems == {"fips", "plain", "broken"}
AllKinds   == {"refuse", "anyway", "refusesignal", "fatal"}
AllFaults  == {"error", "fatal"}

ASSUME FsmAssumption ==
    /\ Main \in Threads
    /\ Admins \subseteq Threads
    /\ Proper \in BOOLEAN
    /\ Builds \subseteq BOOLEAN
    /\ Systems \subseteq AllSystems
    /\ Kinds \subseteq AllKinds
    /\ Outcomes \subseteq BOOLEAN
    /\ Faults \subseteq AllFaults

(* enum module_states. Nothing in the library asks for SHUTDOWN. *)
States == {"POWERON", "INIT", "SELFTEST", "OPERATIONAL", "ERROR",
           "FATALERROR", "SHUTDOWN"}

VARIABLES
    state,          \* current_state
    noFips,         \* _gcry_no_fips_mode_required
    forceFips,      \* force_fips_mode
    anyInit,        \* _gcry_global_any_init_done
    initDone,       \* the static done of _gcry_initialize_fips_mode
    initFinished,   \* init_finished
    aborted,        \* abort() has ended the process
    hmac,           \* the build: ENABLE_HMAC_BINARY_CHECK
    system,         \* the FIPS setting of the system
    pc,             \* where each thread is
    op,             \* the public function or command it runs
    ret,            \* where _gcry_fips_run_selftests returns to
    passed,         \* the result of its last self-test
    answer,         \* the result of its last gate, or its command's result
    fresh,          \* history: no error since its self-test began
    sound,          \* history: a fresh self-test passed, and no error since
    blame,          \* history: what may end the process
    asked           \* history: the mode the application asked for last

mode   == <<noFips, forceFips, anyInit, initDone, initFinished>>
env    == <<hmac, system>>
local  == <<op, ret, passed, answer>>
ghosts == <<fresh, sound, blame>>
vars   == <<state, mode, aborted, env, pc, local, ghosts, asked>>

Places == {"idle", "ctor", "gate", "begin", "testing", "verdict", "regate",
           "force", "signal", "serving", "dying"}
Ops    == AllKinds \cup {"none", "ctor", "finish", "force", "selftest"}

TypeOK ==
    /\ state \in States
    /\ noFips \in BOOLEAN /\ forceFips \in BOOLEAN
    /\ anyInit \in BOOLEAN /\ initDone \in BOOLEAN /\ initFinished \in BOOLEAN
    /\ aborted \in BOOLEAN /\ hmac \in BOOLEAN /\ system \in AllSystems
    /\ pc \in [Threads -> Places]
    /\ op \in [Threads -> Ops]
    /\ ret \in [Threads -> {"idle", "gate", "regate"}]
    /\ passed \in [Threads -> BOOLEAN]
    /\ answer \in [Threads -> BOOLEAN]
    /\ fresh \in [Threads -> BOOLEAN]
    /\ sound \in BOOLEAN
    /\ blame \subseteq {"fatal", "midtest", "config"}
    /\ asked \in {"none", "fips", "plain"}

Init ==
    /\ state = "POWERON"
    /\ noFips = FALSE /\ forceFips = FALSE
    /\ anyInit = FALSE /\ initDone = FALSE /\ initFinished = FALSE
    /\ aborted = FALSE
    /\ hmac \in Builds
    /\ system \in Systems
    /\ pc = [t \in Threads |-> IF t = Main /\ hmac THEN "ctor" ELSE "idle"]
    /\ op = [t \in Threads |-> "none"]
    /\ ret = [t \in Threads |-> "idle"]
    /\ passed = [t \in Threads |-> FALSE]
    /\ answer = [t \in Threads |-> FALSE]
    /\ fresh = [t \in Threads |-> FALSE]
    /\ sound = FALSE
    /\ blame = {}
    /\ asked = "none"

Go(t, place) == pc' = [pc EXCEPT ![t] = place]

----------------------------------------------------------------------------
(* fips_new_state.                                                         *)

(* Mutants of the table: an error is forgotten when the tests end, errors  *)
(* cannot be tested away, a fatal error can.                               *)
Granted_Forgets ==
    {<<"POWERON", "INIT">>, <<"INIT", "SELFTEST">>, <<"OPERATIONAL", "SELFTEST">>,
     <<"ERROR", "SELFTEST">>, <<"SELFTEST", "OPERATIONAL">>,
     <<"ERROR", "OPERATIONAL">>}
    \cup (States \ {"FATALERROR"}) \X {"ERROR", "FATALERROR"}

Granted_NoRetest ==
    {<<"POWERON", "INIT">>, <<"INIT", "SELFTEST">>, <<"OPERATIONAL", "SELFTEST">>,
     <<"SELFTEST", "OPERATIONAL">>}
    \cup (States \ {"FATALERROR"}) \X {"ERROR", "FATALERROR"}

Granted_FatalRetest ==
    {<<"POWERON", "INIT">>, <<"INIT", "SELFTEST">>, <<"OPERATIONAL", "SELFTEST">>,
     <<"ERROR", "SELFTEST">>, <<"SELFTEST", "OPERATIONAL">>,
     <<"FATALERROR", "SELFTEST">>}
    \cup (States \ {"FATALERROR"}) \X {"ERROR", "FATALERROR"}

(* The transitions the switch statement grants. *)
Granted ==
    {<<"POWERON", s>> : s \in {"INIT", "ERROR", "FATALERROR"}}
    \cup {<<"INIT", s>> : s \in {"SELFTEST", "ERROR", "FATALERROR"}}
    \cup {<<"SELFTEST", s>> : s \in {"OPERATIONAL", "ERROR", "FATALERROR"}}
    \cup {<<"OPERATIONAL", s>> :
             s \in {"SHUTDOWN", "SELFTEST", "ERROR", "FATALERROR"}}
    \cup {<<"ERROR", s>> :
             s \in {"SHUTDOWN", "ERROR", "FATALERROR", "SELFTEST"}}
    \cup {<<"FATALERROR", "SHUTDOWN">>}

(* A granted transition continues at next; a denied one leaves the state   *)
(* alone, lets the lock go and is on its way to abort().                   *)
NewState(t, new, next) ==
    IF <<state, new>> \in Granted
    THEN state' = new /\ Go(t, next)
    ELSE state' = state /\ Go(t, "dying")

(* The threads between the two transitions of _gcry_fips_run_selftests. *)
Testing == {u \in Threads : pc[u] \in {"testing", "verdict"}}

(* History: an error reaches the machine from thread t. *)
NoteError(t, fatal) ==
    /\ fresh' = [u \in Threads |-> FALSE]
    /\ sound' = FALSE
    /\ blame' = blame \cup (IF fatal THEN {"fatal"} ELSE {})
                      \cup (IF Testing \ {t} # {} \/ pc[t] = "testing"
                            THEN {"midtest"} ELSE {})

----------------------------------------------------------------------------
(* global_init and _gcry_initialize_fips_mode.                             *)

(* What _gcry_initialize_fips_mode decides: a second call in FIPS mode is  *)
(* a fatal error, an assertion or an unreadable setting ends the process,  *)
(* a request or the system's setting leads to INIT, and otherwise the      *)
(* library leaves FIPS mode.                                               *)
FipsModeChoice(force) ==
    CASE initDone /\ ~noFips -> "again"
      [] initDone \/ (noFips /\ (force \/ system = "fips")) -> "die"
      [] ~initDone /\ ~noFips /\ force -> "fips"
      [] OTHER -> CASE system = "broken" -> "die"
                    [] system = "fips"   -> "fips"
                    [] system = "plain"  -> "plain"

(* global_init, on its way to next. *)
GlobalInit(t, force, next) ==
    IF anyInit
    THEN /\ Go(t, next)
         /\ UNCHANGED <<state, anyInit, initDone, noFips, ghosts>>
    ELSE /\ anyInit' = TRUE
         /\ initDone' = TRUE
         /\ noFips' = (noFips \/ FipsModeChoice(force) = "plain")
         /\ blame' = blame \cup (IF ~force /\ system = "broken"
                               THEN {"config"} ELSE {})
         /\ UNCHANGED <<fresh, sound>>
         /\ CASE FipsModeChoice(force) = "fips"  -> NewState(t, "INIT", next)
              [] FipsModeChoice(force) = "plain" -> state' = state /\ Go(t, next)
              [] FipsModeChoice(force) = "again" ->
                    NewState(t, "FATALERROR", "dying")
              [] FipsModeChoice(force) = "die"   -> state' = state /\ Go(t, "dying")

(* _gcry_global_constructor, run by the loader in an HMAC build. *)
Constructor(t) ==
    /\ pc[t] = "ctor" /\ ~aborted
    /\ forceFips' = (system = "fips")
    /\ op' = [op EXCEPT ![t] = IF system = "fips" THEN "ctor" ELSE "none"]
    /\ ret' = [ret EXCEPT ![t] = "idle"]
    /\ CASE system = "fips" -> GlobalInit(t, TRUE, "begin")
         [] system = "plain" ->
               Go(t, "idle")
               /\ UNCHANGED <<state, anyInit, initDone, noFips, ghosts>>
         [] system = "broken" ->
               /\ Go(t, "dying")
               /\ blame' = blame \cup {"config"}
               /\ UNCHANGED <<state, anyInit, initDone, noFips, fresh, sound>>
    /\ UNCHANGED <<initFinished, aborted, env, passed, answer, asked>>

----------------------------------------------------------------------------
(* Calls. Main may call at any time; the other threads exist once Main has *)
(* initialised the library, as far as Proper asks for.                     *)

Started ==
    IF Proper
    THEN initFinished /\ op[Main] # "finish"
    ELSE anyInit

MayCall(t) == ~aborted /\ pc[t] = "idle" /\ (t = Main \/ Started)

(* A public function: fips_is_operational with its on the fly              *)
(* initialisation, _gcry_global_is_operational.                            *)
CallCrypto(t, kind) ==
    /\ MayCall(t)
    /\ GlobalInit(t, forceFips, "gate")
    /\ op' = [op EXCEPT ![t] = kind]
    /\ UNCHANGED <<forceFips, initFinished, aborted, env, ret, passed, answer,
                   asked>>

(* GCRYCTL_INITIALIZATION_FINISHED. *)
CallFinish(t) ==
    /\ MayCall(t) /\ t \in Admins
    /\ ~initFinished
    /\ GlobalInit(t, forceFips, "gate")
    /\ initFinished' = TRUE
    /\ op' = [op EXCEPT ![t] = "finish"]
    /\ UNCHANGED <<forceFips, aborted, env, ret, passed, answer, asked>>

(* GCRYCTL_SELFTEST. *)
CallSelftest(t) ==
    /\ MayCall(t) /\ t \in Admins
    /\ GlobalInit(t, forceFips, "begin")
    /\ op' = [op EXCEPT ![t] = "selftest"]
    /\ ret' = [ret EXCEPT ![t] = "idle"]
    /\ UNCHANGED <<forceFips, initFinished, aborted, env, passed, answer, asked>>

(* GCRYCTL_FORCE_FIPS_MODE. *)
CallForce(t) ==
    /\ MayCall(t) /\ t \in Admins
    /\ IF ~anyInit
       THEN /\ forceFips' = TRUE
            /\ asked' = "fips"
            /\ UNCHANGED <<pc, op>>
       ELSE /\ Go(t, "force")
            /\ op' = [op EXCEPT ![t] = "force"]
            /\ UNCHANGED <<forceFips, asked>>
    /\ UNCHANGED <<state, anyInit, initDone, noFips, initFinished, aborted, env,
                   ret, passed, answer, ghosts>>

(* Mutant: NO_FIPS_MODE only clears the request, also after global_init. *)
CallNoFips_FlagOnly(t) ==
    /\ MayCall(t) /\ t \in Admins
    /\ forceFips' = FALSE
    /\ asked' = IF anyInit /\ initFinished THEN asked ELSE "plain"
    /\ UNCHANGED <<state, noFips, anyInit, initDone, initFinished, aborted, env,
                   pc, op, ret, passed, answer, ghosts>>

(* GCRYCTL_NO_FIPS_MODE. answer is FALSE where it returns an error. *)
CallNoFips(t) ==
    /\ MayCall(t) /\ t \in Admins
    /\ forceFips' = (forceFips /\ anyInit)
    /\ noFips' = (noFips \/ (anyInit /\ ~initFinished))
    /\ asked' = IF anyInit /\ initFinished THEN asked ELSE "plain"
    /\ answer' = [answer EXCEPT ![t] = ~(anyInit /\ initFinished)]
    /\ UNCHANGED <<state, anyInit, initDone, initFinished, aborted, env, pc, op,
                   ret, passed, ghosts>>

(* GCRYCTL_OPERATIONAL_P: _gcry_fips_test_operational. *)
CallOperationalP(t) ==
    /\ MayCall(t) /\ t \in Admins
    /\ answer' = [answer EXCEPT ![t] = noFips \/ state = "OPERATIONAL"]
    /\ UNCHANGED <<state, mode, aborted, env, pc, op, ret, passed, ghosts, asked>>

----------------------------------------------------------------------------
(* The steps of a running call.                                            *)

(* The gate answers. A public function that is refused returns an error,   *)
(* or signals one and serves anyway (gcry_md_hash_buffer), or signals one  *)
(* and returns (gcry_md_get_algo), or dies (gcry_randomize).               *)
Answer(t, yes) ==
    /\ answer' = [answer EXCEPT ![t] = yes]
    /\ LET refused == op[t] \in AllKinds /\ ~yes
           served  == op[t] \in AllKinds /\ yes
           place   == CASE served -> "serving"
                        [] refused /\ op[t] # "refuse" -> "signal"
                        [] OTHER -> "idle"
       IN /\ Go(t, place)
          /\ op' = [op EXCEPT ![t] = IF place = "idle" THEN "none" ELSE op[t]]

(* Mutant: the gate waits while self-tests run. *)
Gate_Waits(t) ==
    /\ pc[t] = "gate" /\ ~aborted
    /\ noFips \/ state # "SELFTEST"
    /\ IF ~noFips /\ state = "INIT"
       THEN /\ Go(t, "begin")
            /\ ret' = [ret EXCEPT ![t] = "regate"]
            /\ UNCHANGED <<op, answer>>
       ELSE /\ Answer(t, noFips \/ state = "OPERATIONAL")
            /\ UNCHANGED ret
    /\ UNCHANGED <<state, mode, aborted, env, passed, ghosts, asked>>

(* _gcry_fips_is_operational, up to the on demand self-tests. *)
Gate(t) ==
    /\ pc[t] = "gate" /\ ~aborted
    /\ IF ~noFips /\ state = "INIT"
       THEN /\ Go(t, "begin")
            /\ ret' = [ret EXCEPT ![t] = "regate"]
            /\ UNCHANGED <<op, answer>>
       ELSE /\ Answer(t, noFips \/ state = "OPERATIONAL")
            /\ UNCHANGED ret
    /\ UNCHANGED <<state, mode, aborted, env, passed, ghosts, asked>>

(* _gcry_fips_is_operational, after the on demand self-tests. *)
Regate(t) ==
    /\ pc[t] = "regate" /\ ~aborted
    /\ Answer(t, state = "OPERATIONAL")
    /\ UNCHANGED <<state, mode, aborted, env, ret, passed, ghosts, asked>>

(* GCRYCTL_FORCE_FIPS_MODE on an initialised library looks at the state    *)
(* (_gcry_fips_test_error_or_operational) before it starts self-tests.     *)
ForceCheck(t) ==
    /\ pc[t] = "force" /\ ~aborted
    /\ Go(t, IF noFips \/ state \in {"OPERATIONAL", "ERROR"}
             THEN "begin" ELSE "gate")
    /\ ret' = [ret EXCEPT ![t] = "gate"]
    /\ UNCHANGED <<state, mode, aborted, env, op, passed, answer, ghosts, asked>>

(* _gcry_fips_run_selftests enters the Self-Test state, *)
BeginTests(t) ==
    /\ pc[t] = "begin" /\ ~aborted
    /\ fresh' = [fresh EXCEPT ![t] = TRUE]
    /\ IF noFips
       THEN state' = state /\ Go(t, "testing")
       ELSE NewState(t, "SELFTEST", "testing")
    /\ UNCHANGED <<mode, aborted, env, local, sound, blame, asked>>

(* runs the tests in turn up to the first that fails, *)
RunTests(t) ==
    /\ pc[t] = "testing" /\ ~aborted
    /\ \E ok \in Outcomes : passed' = [passed EXCEPT ![t] = ok]
    /\ Go(t, "verdict")
    /\ UNCHANGED <<state, mode, aborted, env, op, ret, answer, ghosts, asked>>

(* and enters the Operational or the Error state. Its variables are gone. *)
EndTests(t) ==
    /\ pc[t] = "verdict" /\ ~aborted
    /\ IF noFips
       THEN state' = state /\ Go(t, ret[t])
       ELSE NewState(t, IF passed[t] THEN "OPERATIONAL" ELSE "ERROR", ret[t])
    /\ op' = [op EXCEPT ![t] = IF pc'[t] = "idle" THEN "none" ELSE op[t]]
    /\ answer' = [answer EXCEPT ![t] = passed[t]]
    /\ ret' = [ret EXCEPT ![t] = "idle"]
    /\ passed' = [passed EXCEPT ![t] = FALSE]
    /\ IF ~noFips /\ ~passed[t]
       THEN NoteError(t, FALSE)
       ELSE /\ sound' = IF state # "OPERATIONAL" /\ state' = "OPERATIONAL"
                        THEN fresh[t] ELSE sound
            /\ fresh' = [fresh EXCEPT ![t] = FALSE]
            /\ UNCHANGED blame
    /\ UNCHANGED <<mode, aborted, env, asked>>

(* Mutant: gcry_randomize and its kin return after the fatal error. *)
SignalRefusal_Returns(t) ==
    /\ pc[t] = "signal" /\ ~aborted
    /\ IF noFips
       THEN state' = state /\ Go(t, "idle") /\ UNCHANGED ghosts
       ELSE /\ NewState(t, IF op[t] = "fatal" THEN "FATALERROR" ELSE "ERROR", "idle")
            /\ NoteError(t, op[t] = "fatal")
    /\ op' = [op EXCEPT ![t] = "none"]
    /\ UNCHANGED <<mode, aborted, env, ret, passed, answer, asked>>

(* A refused function that reports its refusal with fips_signal_error or   *)
(* fips_signal_fatal_error.                                                *)
SignalRefusal(t) ==
    /\ pc[t] = "signal" /\ ~aborted
    /\ LET fatal == op[t] = "fatal"
           next  == CASE op[t] = "anyway" -> "serving"
                      [] op[t] = "fatal"  -> "dying"
                      [] OTHER            -> "idle"
       IN /\ IF noFips
             THEN state' = state /\ Go(t, next) /\ UNCHANGED ghosts
             ELSE /\ NewState(t, IF fatal THEN "FATALERROR" ELSE "ERROR", next)
                  /\ NoteError(t, fatal)
          /\ op' = [op EXCEPT ![t] = IF pc'[t] = "idle" THEN "none" ELSE op[t]]
    /\ UNCHANGED <<mode, aborted, env, ret, passed, answer, asked>>

(* The code behind the gate returns. *)
EndService(t) ==
    /\ pc[t] = "serving" /\ ~aborted
    /\ Go(t, "idle")
    /\ op' = [op EXCEPT ![t] = "none"]
    /\ UNCHANGED <<state, mode, aborted, env, ret, passed, answer, ghosts, asked>>

(* _gcry_fips_signal_error from code behind the gate, or from a self-test. *)
(* The callers that signal a fatal error, log_fatal and log_bug, then      *)
(* end the process whatever the mode is.                                   *)
Signal(t, fault) ==
    /\ pc[t] \in {"serving", "testing"} /\ ~aborted
    /\ CASE ~noFips /\ fault = "error" ->
               NewState(t, "ERROR", pc[t]) /\ NoteError(t, FALSE)
         [] ~noFips /\ fault = "fatal" ->
               NewState(t, "FATALERROR", "dying") /\ NoteError(t, TRUE)
         [] noFips ->
               /\ fault = "fatal"
               /\ Go(t, "dying")
               /\ blame' = blame \cup {"fatal"}
               /\ UNCHANGED <<state, fresh, sound>>
    /\ UNCHANGED <<mode, aborted, env, local, asked>>

(* _gcry_fips_noreturn, or the abort() after a fatal error. *)
Die(t) ==
    /\ pc[t] = "dying" /\ ~aborted
    /\ aborted' = TRUE
    /\ UNCHANGED <<state, mode, env, pc, local, ghosts, asked>>

----------------------------------------------------------------------------
(* The steps a thread takes by itself once it is in a call. *)
Step(t) ==
    \/ Constructor(t) \/ Gate(t) \/ Regate(t) \/ ForceCheck(t)
    \/ BeginTests(t) \/ RunTests(t) \/ EndTests(t)
    \/ SignalRefusal(t) \/ EndService(t) \/ Die(t)

Call(t) ==
    \/ \E kind \in Kinds : CallCrypto(t, kind)
    \/ CallFinish(t) \/ CallSelftest(t) \/ CallForce(t) \/ CallNoFips(t)
    \/ CallOperationalP(t)

(* The process is gone. *)
Halted == aborted /\ UNCHANGED vars

Next ==
    \/ \E t \in Threads :
          Step(t) \/ Call(t) \/ \E fault \in Faults : Signal(t, fault)
    \/ Halted

(* A thread inside a call is scheduled until the call returns. *)
Fairness == \A t \in Threads : WF_vars(Step(t))

Spec == Init /\ [][Next]_vars /\ Fairness

----------------------------------------------------------------------------
(* Properties.                                                             *)

(* In FIPS mode the library is operational only on the strength of a       *)
(* self-test that began after the last error and passed: no error that     *)
(* reached the machine while or after the tests ran is lost.               *)
(* (_gcry_fips_run_selftests, fips_new_state.)                             *)
Sound == (~noFips /\ state = "OPERATIONAL") => sound

(* A thread is sent to abort() only after a fatal error, after an error    *)
(* that was signalled while self-tests were running, or because the        *)
(* system's FIPS setting cannot be read: no legal sequence of requested    *)
(* self-tests, failed self-tests and refused calls ends the process.       *)
AbortJustified == \A t \in Threads : pc[t] = "dying" => blame # {}

(* Fatal-Error is final: the machine stays there, and no further call is   *)
(* served although other threads still run until abort() is reached.       *)
FatalClosed ==
    [][(state = "FATALERROR" /\ ~noFips) =>
          /\ state' = "FATALERROR"
          /\ \A t \in Threads : pc'[t] = "serving" => pc[t] = "serving"]_vars

(* The mode the application asked for last, and was not refused, is the    *)
(* mode the library runs in. (GCRYCTL_FORCE_FIPS_MODE, GCRYCTL_NO_FIPS_MODE *)
(* against _gcry_initialize_fips_mode.)  A GCRYCTL_NO_FIPS_MODE before the  *)
(* initialisation breaks it: see the README.                               *)
AskedHonoured ==
    anyInit => /\ asked = "fips"  => ~noFips
               /\ asked = "plain" => noFips

(* Once the constructor has initialised the library (builds with the       *)
(* integrity check), a mode command that was not refused is honoured,      *)
(* whatever the system's setting and the commands before it.               *)
ModeHonoured == hmac => AskedHonoured

(* Every call returns, unless the process ends. *)
Returns == \A t \in Threads : pc[t] # "idle" ~> (pc[t] = "idle" \/ aborted)

(* The Fatal-Error state ends the process. *)
FatalDies == (state = "FATALERROR") ~> aborted
=============================================================================
