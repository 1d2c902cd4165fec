-------------------------- MODULE UnityFpsLimit_proofs --------------------------
(* Safety of unity_fps_limit for any range of the settings, any texts in      *)
(* config.ini and any failures of the backends.                               *)
EXTENDS UnityFpsLimit, TLAPS

USE DEF WorkerUnchanged, unityVars, settingVars

-------------------------------------------------------------------------------
LEMMA ReadConfigInt ==
  ASSUME NEW text, NEW fallback \in {DEFAULT_FPS, DEFAULT_VSYNC}
  PROVE  read_config_int(text, fallback) \in INT_MIN..INT_MAX
BY UnityFpsLimitAssumption DEF read_config_int, DEFAULT_FPS, DEFAULT_VSYNC

LEMMA InitTypeUnity == Init => TypeOK
<1> SUFFICES ASSUME Init PROVE TypeOK
  OBVIOUS
<1>1. config \in [Settings -> INT_MIN..INT_MAX]
  BY UnityFpsLimitAssumption
     DEF Init, Settings, Defaults, DEFAULT_FPS, DEFAULT_VSYNC
<1>2. exports \in [Backends -> BOOLEAN]
  BY DEF Init
<1> QED
  BY <1>1, <1>2 DEF Init, TypeOK, Backends, Stages

LEMMA NextTypeUnity == TypeOK /\ [Next]_vars => TypeOK'
<1> SUFFICES ASSUME TypeOK, [Next]_vars PROVE TypeOK'
  OBVIOUS
<1> USE DEF TypeOK
<1>1. CASE UNCHANGED vars
  BY <1>1 DEF vars
<1>2. CASE on_mod_load
  BY <1>2 DEF on_mod_load
<1>3. CASE ReadConfig
  <2>1. config' \in [Settings -> INT_MIN..INT_MAX]
    BY <1>3, ReadConfigInt DEF ReadConfig, Settings
  <2> QED
    BY <1>3, <2>1 DEF ReadConfig
<1>4. CASE TryBackend
  BY <1>4 DEF TryBackend, FindSetters, AfterFailure, Mono, Backends
<1>5. ASSUME NEW s \in Settings, NEW from, NEW to \in {"fps", "done"}, Invoke(s, from, to)
      PROVE  TypeOK'
  BY <1>5 DEF Invoke, AfterFailure
<1>6. CASE Wake
  BY <1>6 DEF Wake
<1>7. CASE BackendComesUp
  BY <1>7 DEF BackendComesUp, Stages
<1>8. CASE GameWrites
  BY <1>8 DEF GameWrites
<1> QED
  BY <1>1, <1>2, <1>3, <1>4, <1>5, <1>6, <1>7, <1>8
     DEF Next, WorkerStep, InvokeSetters, Settings

(* The configuration that the worker of unity_fps_limit applies is always a   *)
(* pair of numbers in range, whatever config.ini holds, and its attempts go   *)
(* through the search in the order of the code.                               *)
THEOREM TypeCorrect == Spec => []TypeOK
BY InitTypeUnity, NextTypeUnity, PTL DEF Spec

-------------------------------------------------------------------------------
(* A setting that the attempt in progress has written, unless the game has    *)
(* written it since. The attempt starts over at every failure, so that what   *)
(* an earlier backend wrote never counts.                                     *)
Applied(s) == writer[s] = "game" \/ (writer[s] = backend /\ setting[s] = config[s])

AttemptInv ==
  /\ writer["fps"] \in Backends => writer["vsync"] # "unity"
  /\ pc \in {"fps", "done"} => Applied("vsync")
  /\ pc = "done" => Applied("fps")

LEMMA NextAttempt == TypeOK /\ AttemptInv /\ [Next]_vars => AttemptInv'
<1> SUFFICES ASSUME TypeOK, AttemptInv, [Next]_vars PROVE AttemptInv'
  OBVIOUS
<1>t. /\ backend \in Backends /\ "unity" \notin Backends /\ "game" \notin Backends
      /\ DOMAIN writer = Settings /\ DOMAIN setting = Settings
      /\ writer = [s \in Settings |-> writer[s]] /\ setting = [s \in Settings |-> setting[s]]
      /\ Settings = {"vsync", "fps"}
  BY DEF TypeOK, Backends, Settings
<1> USE DEF AttemptInv, Applied
<1>1. CASE UNCHANGED vars
  BY <1>1 DEF vars
<1>2. CASE on_mod_load \/ ReadConfig \/ Wake
  BY <1>2 DEF on_mod_load, ReadConfig, Wake
<1>3. CASE TryBackend
  BY <1>3 DEF TryBackend, FindSetters, AfterFailure
<1>4. CASE Invoke("vsync", "vsync", "fps")
  BY <1>4, <1>t DEF Invoke, AfterFailure
<1>5. CASE Invoke("fps", "fps", "done")
  BY <1>5, <1>t DEF Invoke, AfterFailure
<1>6. CASE BackendComesUp
  BY <1>6 DEF BackendComesUp
<1>7. CASE GameWrites
  BY <1>7, <1>t DEF GameWrites
<1> QED
  BY <1>1, <1>2, <1>3, <1>4, <1>5, <1>6, <1>7 DEF Next, WorkerStep, InvokeSetters

(* The frame rate is never limited under the vertical synchronisation that    *)
(* the mod found, and when fps_worker reports success both settings went      *)
(* through one backend, whatever attempts failed between their two setters    *)
(* before (invoke_il2cpp_setters, invoke_mono_setters).                       *)
THEOREM SettingsAreAppliedTogether == Spec => []AppliedTogether
<1>1. Init => AttemptInv
  BY DEF Init, AttemptInv, Settings, Backends
<1>2. TypeOK /\ AttemptInv => AppliedTogether
  BY DEF TypeOK, AttemptInv, Applied, AppliedTogether, Settings
<1> QED
  BY <1>1, <1>2, NextAttempt, TypeCorrect, PTL DEF Spec

-------------------------------------------------------------------------------
(* The setters that the attempt in progress calls are those of its backend,   *)
(* all found.                                                                 *)
SettersFound == pc \in {"vsync", "fps"} => exports[backend] /\ stage[backend] = 3

WritesThroughBackend ==
  \A s \in Settings :
    setting'[s] # setting[s]
      => \/ writer'[s] = "game"
         \/ /\ writer'[s] = backend /\ setting'[s] = config[s]
            /\ exports[backend] /\ stage[backend] = 3

LEMMA NextFound == TypeOK /\ SettersFound /\ [Next]_vars => SettersFound'
<1> SUFFICES ASSUME TypeOK, SettersFound, [Next]_vars PROVE SettersFound'
  OBVIOUS
<1> USE DEF SettersFound
<1>t. backend \in Backends /\ stage \in [Backends -> Stages]
  BY DEF TypeOK
<1>1. CASE UNCHANGED vars
  BY <1>1 DEF vars
<1>2. CASE on_mod_load \/ ReadConfig \/ Wake
  BY <1>2 DEF on_mod_load, ReadConfig, Wake
<1>3. CASE TryBackend
  BY <1>3 DEF TryBackend, FindSetters, AfterFailure
<1>4. CASE InvokeSetters
  BY <1>4 DEF InvokeSetters, Invoke, AfterFailure
<1>5. CASE BackendComesUp
  <2>1. PICK b \in Backends : stage[b] < 3 /\ stage' = [stage EXCEPT ![b] = @ + 1]
    BY <1>5 DEF BackendComesUp
  <2>2. UNCHANGED <<pc, backend, exports>>
    BY <1>5 DEF BackendComesUp
  <2>3. pc \in {"vsync", "fps"} => b # backend
    BY <2>1
  <2> QED
    BY <1>t, <2>1, <2>2, <2>3
<1>6. CASE GameWrites
  BY <1>6 DEF GameWrites
<1> QED
  BY <1>1, <1>2, <1>3, <1>4, <1>5, <1>6 DEF Next, WorkerStep

(* No setting is changed, unless by the game, before the backend of the       *)
(* attempt has all its exports, its domain and the image of Unity; what was   *)
(* found for one backend is never used with another (invoke_il2cpp_setters,   *)
(* invoke_mono_setters).                                                      *)
THEOREM SettersAreFoundFirst == Spec => [][WritesThroughBackend]_vars
<1>1. Init => SettersFound
  BY DEF Init, SettersFound
<1>2. TypeOK /\ SettersFound /\ [Next]_vars => [WritesThroughBackend]_vars
  <2> SUFFICES ASSUME TypeOK, SettersFound, Next PROVE WritesThroughBackend
    OBVIOUS
  <2>t. /\ setting = [s \in Settings |-> setting[s]]
        /\ writer = [s \in Settings |-> writer[s]]
    BY DEF TypeOK
  <2>1. CASE UNCHANGED setting
    BY <2>1 DEF WritesThroughBackend
  <2>2. CASE InvokeSetters
    BY <2>t, <2>2 DEF InvokeSetters, Invoke, WritesThroughBackend, SettersFound, settingVars
  <2>3. CASE GameWrites
    BY <2>t, <2>3 DEF GameWrites, WritesThroughBackend
  <2> QED
    BY <2>1, <2>2, <2>3
       DEF Next, WorkerStep, on_mod_load, ReadConfig, TryBackend, Wake, BackendComesUp
<1> QED
  BY <1>1, <1>2, NextFound, TypeCorrect, PTL DEF Spec

AppliedOnce ==
  pc = "done" =>
    /\ pc' = "done"
    /\ \A s \in Settings : setting'[s] # setting[s] => writer'[s] = "game"

(* The settings are applied once: when the worker is done it never calls a    *)
(* setter again, and what the game writes afterwards stays (fps_worker).      *)
THEOREM TheGameHasTheLastWord == Spec => [][AppliedOnce]_vars
<1>1. TypeOK /\ [Next]_vars => [AppliedOnce]_vars
  <2> SUFFICES ASSUME TypeOK, Next, pc = "done" PROVE AppliedOnce
    BY DEF AppliedOnce
  <2>t. /\ setting = [s \in Settings |-> setting[s]]
        /\ writer = [s \in Settings |-> writer[s]]
    BY DEF TypeOK
  <2>1. BackendComesUp \/ GameWrites
    BY DEF Next, WorkerStep, on_mod_load, ReadConfig, TryBackend, InvokeSetters, Invoke, Wake
  <2> QED
    BY <2>t, <2>1 DEF BackendComesUp, GameWrites, AppliedOnce
<1> QED
  BY <1>1, TypeCorrect, PTL DEF Spec
===============================================================================
