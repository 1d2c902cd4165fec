------------------------ MODULE DynamicFpsLimit_proofs ------------------------
(* Safety of dynamic_fps_limit for any number of game threads and options     *)
(* objects, any rates and any combination of failing calls.                   *)
EXTENDS DynamicFpsLimit, FrameLimit_proofs

(* The definitions that only group or abbreviate.                             *)
USE DEF At, Goto, May, Threads, AllObjects

-------------------------------------------------------------------------------
(* Type correctness.                                                          *)

LEMMA InitType == Init => TypeOK
<1> SUFFICES ASSUME Init PROVE TypeOK
  OBVIOUS
<1> USE StreamlineAssumption, RtssAssumption, FrameLimitAssumption, DynamicFpsLimitAssumption
<1>1. options \in [AllObjects -> OptionsType]
  BY DEF Init, InitStreamline, OptionsType
<1>2. /\ pc \in [Threads -> Labels]
      /\ arg \in [Threads -> AllObjects]
      /\ original_frame_limit_us \in [Threads -> Nat]
  BY DEF Init, InitStreamline, Labels, WorkerLabels, HookLabels
<1>3. /\ working \in ProfileType /\ disk \in ProfileType /\ applied \in ProfileType
  BY DEF Init, InitRtss, ProfileType, Others
<1>4. config \in [off : Fps, on : Fps, limiter : {"reflex", "rtss"}]
  BY DEF Init, DefaultConfig, Fps, DEFAULT_FRAME_GENERATION_OFF_FPS,
         DEFAULT_FRAME_GENERATION_ON_FPS
<1>5. /\ minhook = "uninitialized" /\ set_options_lock = NoThread
      /\ frame_limit_us = 0 /\ frame_generation_state = "error" /\ presented = 1
      /\ rtss_hooks = "absent" /\ current_fps \in Fps
  BY DEF Init, InitStreamline, InitRtss, Fps
<1>6. /\ set_options_lock_initialized \in BOOLEAN /\ original_set_options \in BOOLEAN
      /\ result \in BOOLEAN /\ get_state \in BOOLEAN
      /\ reflex_ready \in BOOLEAN /\ dlssg_ready \in BOOLEAN
      /\ load_profile \in BOOLEAN /\ profile \in BOOLEAN
      /\ incompatible \in BOOLEAN /\ edited \in BOOLEAN /\ writable \in BOOLEAN
      /\ has_current_fps \in BOOLEAN
      /\ frame_generation_active \in BOOLEAN /\ active_seen \in BOOLEAN
  BY DEF Init, InitStreamline, InitRtss, Outcomes
<1>7. driver \in [limit : Nat, settings : Settings, next : {"null", "game_chain"},
                 via : {"none", "direct", "hook"}]
  BY DEF Init, InitStreamline
<1> QED
  BY <1>1, <1>2, <1>3, <1>4, <1>5, <1>6, <1>7 DEF TypeOK

LEMMA TargetInRange == TypeOK => target_fps \in Fps /\ config.off \in Fps
  BY DEF TypeOK, target_fps

LEMMA MicrosecondsAreNat ==
  ASSUME NEW fps \in Fps PROVE fps_to_frame_limit_us(fps) \in Nat
  BY FrameLimitBounded, FrameLimitAssumption, SecondInMicroseconds DEF Fps

LEMMA HookStepType ==
  ASSUME TypeOK, NEW t \in Threads, HookStep(t), UNCHANGED <<vars_rtss, vars_plugin>>
  PROVE  TypeOK'
<1> USE DEF TypeOK, OptionsType, lockVars, hookVars, callVars, pollVars,
            streamlineVars, apiVars, vars_rtss, progressVars, vars_plugin,
            Labels, WorkerLabels, HookLabels
<1>1. CASE EnterHook(t)
  BY <1>1 DEF EnterHook
<1>2. CASE SaveOptions(t)
  BY <1>2 DEF SaveOptions, CacheOptions
<1>3. CASE OverrideLimit(t)
  BY <1>3 DEF OverrideLimit
<1>4. CASE CallOriginal(t)
  <2>1. PICK ok \in BOOLEAN :
          /\ driver' = IF ok THEN Accepted(arg[t], "hook") ELSE driver
          /\ result' = IF t = Worker THEN ok ELSE result
    BY <1>4 DEF CallOriginal, Outcomes
  <2>2. result' \in BOOLEAN
    BY <2>1
  <2>3. driver' \in [limit : Nat, settings : Settings, next : {"null", "game_chain"},
                    via : {"none", "direct", "hook"}]
    BY <2>1 DEF Accepted
  <2>4. pc' \in [Threads -> Labels]
    BY <1>4 DEF CallOriginal
  <2> QED
    BY <1>4, <2>2, <2>3, <2>4 DEF CallOriginal
<1>5. CASE RestoreOptions(t)
  BY <1>5, StreamlineAssumption DEF RestoreOptions
<1> QED
  BY <1>1, <1>2, <1>3, <1>4, <1>5 DEF HookStep

LEMMA GameStepType ==
  ASSUME TypeOK, NEW t \in GameThreads, GameStep(t), UNCHANGED <<vars_rtss, vars_plugin>>
  PROVE  TypeOK'
<1> USE DEF TypeOK, OptionsType, lockVars, hookVars, callVars, pollVars,
            streamlineVars, apiVars, vars_rtss, progressVars, vars_plugin,
            Labels, WorkerLabels, HookLabels
<1>1. CASE GameDirect(t)
  BY <1>1 DEF GameDirect, Accepted
<1>2. ASSUME NEW o \in Objects, GameCall(t, o) PROVE TypeOK'
  BY <1>2 DEF GameCall
<1> QED
  BY <1>1, <1>2 DEF GameStep

LEMMA InstallStepType ==
  ASSUME TypeOK, InstallStep(config.off), UNCHANGED <<vars_rtss, vars_plugin>>
  PROVE  TypeOK'
<1> USE DEF TypeOK, OptionsType, lockVars, hookVars, callVars, pollVars,
            streamlineVars, apiVars, vars_rtss, progressVars, vars_plugin,
            Labels, WorkerLabels, HookLabels
<1>1. CASE FindReflex
  BY <1>1 DEF FindReflex
<1>2. CASE InitializeMinHook
  BY <1>2 DEF InitializeMinHook
<1>3. CASE PrepareHook(config.off)
  BY <1>3, MicrosecondsAreNat DEF PrepareHook
<1>4. CASE CreateHook
  <2>1. original_set_options' \in BOOLEAN
    BY <1>4 DEF CreateHook
  <2>2. /\ minhook' \in {"absent", "created", minhook}
        /\ pc' \in [Threads -> Labels]
    BY <1>4 DEF CreateHook
  <2>3. UNCHANGED <<lockVars, callVars, pollVars, streamlineVars, frame_limit_us,
                    options, result, driver>>
    BY <1>4 DEF CreateHook
  <2> QED
    BY <2>1, <2>2, <2>3
<1>5. CASE EnableHook
  BY <1>5 DEF EnableHook
<1>6. CASE EnableHookFails
  <2>1. original_set_options' \in BOOLEAN
    BY <1>6 DEF EnableHookFails, remove_reflex_hook
  <2>2. /\ minhook' \in {"absent", minhook}
        /\ pc' \in [Threads -> Labels]
    BY <1>6 DEF EnableHookFails, remove_reflex_hook
  <2>3. UNCHANGED <<lockVars, callVars, pollVars, streamlineVars, frame_limit_us,
                    options, result, driver>>
    BY <1>6 DEF EnableHookFails
  <2> QED
    BY <2>1, <2>2, <2>3
<1> QED
  BY <1>1, <1>2, <1>3, <1>4, <1>5, <1>6 DEF InstallStep

LEMMA StreamlineCodeType ==
  ASSUME TypeOK, StreamlineCode, UNCHANGED <<vars_rtss, vars_plugin>>
  PROVE  TypeOK'
<1> USE DEF TypeOK, OptionsType, lockVars, hookVars, callVars, pollVars,
            streamlineVars, apiVars, vars_rtss, progressVars, vars_plugin,
            Labels, WorkerLabels, HookLabels
<1>1. CASE SetReflexFpsLimit(target_fps)
  BY <1>1, MicrosecondsAreNat, TargetInRange DEF SetReflexFpsLimit
<1>2. CASE GetFrameGenerationState
  BY <1>2 DEF GetFrameGenerationState, initialize_dlssg, find_feature_function,
              FrameGeneration
<1>3. CASE StreamlineChanges
  <2>1. reflex_ready' \in BOOLEAN /\ dlssg_ready' \in BOOLEAN
    BY <1>3 DEF StreamlineChanges, ReflexBecomesReady, DlssgChanges, PresentedChanges
  <2>2. presented' \in 1..2
    BY <1>3 DEF StreamlineChanges, ReflexBecomesReady, DlssgChanges, PresentedChanges
  <2>3. UNCHANGED <<lockVars, hookVars, callVars, pollVars, frame_limit_us, options,
                    pc, result, driver>>
    BY <1>3 DEF StreamlineChanges
  <2> QED
    BY <2>1, <2>2, <2>3
<1> QED
  BY <1>1, <1>2, <1>3, HookStepType, GameStepType, InstallStepType DEF StreamlineCode

LEMMA RtssCodeType ==
  ASSUME TypeOK, RtssCode, UNCHANGED vars_plugin
  PROVE  TypeOK'
<1> USE DEF TypeOK, ProfileType, RateType, lockVars, hookVars, callVars, pollVars,
            streamlineVars, apiVars, vars_rtss, progressVars, vars_plugin,
            Labels, WorkerLabels, HookLabels, RtssUnchanged, Return
<1>1. CASE Initialize
  <2>1. /\ load_profile' \in BOOLEAN /\ incompatible' \in BOOLEAN
        /\ result' \in BOOLEAN
    BY <1>1 DEF Initialize
  <2>2. pc' \in [Threads -> Labels]
    BY <1>1 DEF Initialize
  <2>3. UNCHANGED <<rtss_hooks, profile, writable, working, disk, applied, edited>>
        /\ RtssUnchanged
    BY <1>1 DEF Initialize
  <2> QED
    BY <2>1, <2>2, <2>3
<1>2. CASE ProfileNameFails \/ SetPropertyFails
  <2>1. result' \in BOOLEAN /\ UNCHANGED vars_rtss /\ RtssUnchanged
    BY <1>2 DEF ProfileNameFails, SetPropertyFails
  <2>2. pc' \in [Threads -> Labels]
    BY <1>2 DEF ProfileNameFails, SetPropertyFails
  <2> QED
    BY <2>1, <2>2
<1>3. CASE LoadProfile
  <2>1. profile' \in BOOLEAN /\ edited' \in BOOLEAN
    BY <1>3 DEF LoadProfile
  <2>2. working' = disk /\ pc' \in [Threads -> Labels]
    BY <1>3 DEF LoadProfile
  <2>3. UNCHANGED <<rtss_hooks, load_profile, incompatible, writable, disk, applied, result>>
        /\ RtssUnchanged
    BY <1>3 DEF LoadProfile
  <2> QED
    BY <2>1, <2>2, <2>3
<1>4. CASE SetDenominator
  BY <1>4 DEF SetDenominator
<1>5. CASE SetLimit(target_fps)
  BY <1>5, TargetInRange, FrameLimitAssumption DEF SetLimit, Fps
<1>6. CASE SaveProfile
  BY <1>6 DEF SaveProfile
<1>7. CASE UpdateProfiles
  BY <1>7 DEF UpdateProfiles
<1>8. CASE RtssChanges
  <2> USE DEF vars_streamline
  <2>1. CASE RtssInjects
    BY <1>8, <2>1 DEF RtssChanges, RtssInjects
  <2>2. CASE UserEdits
    <3>1. PICK other \in Others : disk' = [disk EXCEPT !.other = other]
      BY <2>2 DEF UserEdits
    <3>2. disk' \in ProfileType /\ applied' = disk'
      BY <2>2, <3>1 DEF UserEdits
    <3>3. edited' = TRUE /\ UNCHANGED <<apiVars, working>>
      BY <2>2 DEF UserEdits
    <3> QED
      BY <1>8, <3>2, <3>3 DEF RtssChanges
  <2> QED
    BY <1>8, <2>1, <2>2 DEF RtssChanges
<1> QED
  BY <1>1, <1>2, <1>3, <1>4, <1>5, <1>6, <1>7, <1>8 DEF RtssCode, RtssStep

LEMMA PluginCodeType ==
  ASSUME TypeOK, PluginCode
  PROVE  TypeOK'
<1> USE DEF TypeOK, lockVars, hookVars, callVars, pollVars, streamlineVars, apiVars,
            vars_rtss, progressVars, Labels, WorkerLabels, HookLabels, WorkerOnly
<1>1. CASE on_mod_load
  BY <1>1 DEF on_mod_load
<1>2. CASE ReadConfig
  <2>1. config' \in [off : Fps, on : Fps, limiter : {"reflex", "rtss"}]
    BY <1>2, FrameLimitAssumption, DynamicFpsLimitAssumption
    DEF ReadConfig, read_config, read_config_limiter, read_config_fps, DefaultConfig,
        Fps, DEFAULT_FRAME_GENERATION_OFF_FPS, DEFAULT_FRAME_GENERATION_ON_FPS
  <2> QED
    BY <1>2, <2>1 DEF ReadConfig
<1>3. CASE RetryInstall \/ Wake
  BY <1>3 DEF RetryInstall, Wake
<1>4. CASE ChooseTarget
  <2>1. frame_generation_active' \in BOOLEAN /\ active_seen' \in BOOLEAN
    BY <1>4 DEF ChooseTarget
  <2>2. pc' \in [Threads -> Labels]
    BY <1>4 DEF ChooseTarget, set_fps_limit
  <2>3. WorkerOnly /\ UNCHANGED <<current_fps, has_current_fps>>
    BY <1>4 DEF ChooseTarget
  <2> QED
    BY <2>1, <2>2, <2>3
<1>5. CASE SetReturned
  BY <1>5, TargetInRange DEF SetReturned
<1> QED
  BY <1>1, <1>2, <1>3, <1>4, <1>5 DEF PluginCode

LEMMA NextType == TypeOK /\ [Next]_vars => TypeOK'
<1> SUFFICES ASSUME TypeOK, [Next]_vars PROVE TypeOK'
  OBVIOUS
<1>1. CASE UNCHANGED vars
  BY <1>1 DEF TypeOK, vars, vars_streamline, vars_rtss, vars_plugin, lockVars, hookVars,
              callVars, pollVars, streamlineVars, apiVars, progressVars
<1> QED
  BY <1>1, StreamlineCodeType, RtssCodeType, PluginCodeType DEF Next

(* The variables of the hook, the worker and the RTSS profile keep their      *)
(* types whatever fails and however the threads interleave.                   *)
THEOREM TypeCorrect == Spec => []TypeOK
<1>1. Init => TypeOK
  BY InitType
<1>2. TypeOK /\ [Next]_vars => TypeOK'
  BY NextType
<1> QED
  BY <1>1, <1>2, PTL DEF Spec

-------------------------------------------------------------------------------
(* GameOptionsIntact.                                                         *)

LEMMA InitIntact == Init => IntactInv
<1> SUFFICES ASSUME Init PROVE IntactInv
  OBVIOUS
<1>1. /\ set_options_lock = NoThread
      /\ \A t \in Threads : pc[t] \notin InsideLabels
  BY DEF Init, InitStreamline, InsideLabels, HookLabels
<1>2. \A o \in Objects : options[o] = GameOptions[o] /\ GameOptions[o] \in OptionsType
  BY StreamlineAssumption DEF Init, InitStreamline
<1>3. LockInv /\ SavedInv
  BY <1>1, StreamlineAssumption DEF LockInv, SavedInv
<1>4. OnlyLimitTouched /\ GameOptionsIntact
  BY <1>2 DEF OnlyLimitTouched, GameOptionsIntact, OptionsType
<1> QED
  BY <1>3, <1>4 DEF IntactInv

(* The steps that touch neither the lock nor an options object only move one  *)
(* thread between places outside the lock.                                    *)
LEMMA OutsideKeepsIntact ==
  ASSUME TypeOK, IntactInv,
         UNCHANGED <<set_options_lock, options, original_frame_limit_us>>,
         NEW t \in Threads, NEW label,
         pc' = [pc EXCEPT ![t] = label],
         pc[t] \notin InsideLabels, label \notin InsideLabels,
         \A u \in Threads \ {t} : arg'[u] = arg[u]
  PROVE  IntactInv'
<1>1. \A u \in Threads : pc'[u] \in InsideLabels => pc[u] \in InsideLabels /\ u # t
  BY DEF TypeOK
<1>2. \A u \in Threads : pc[u] \in InsideLabels => pc'[u] = pc[u] /\ u # t
  BY DEF TypeOK
<1>3. LockInv'
  BY <1>1, <1>2 DEF IntactInv, LockInv
<1>4. SavedInv'
  BY <1>1, <1>2 DEF IntactInv, SavedInv
<1>5. OnlyLimitTouched'
  BY DEF IntactInv, OnlyLimitTouched
<1>6. \A u \in Threads : Overriding(u) => Overriding(u)' /\ arg'[u] = arg[u]
  BY <1>2 DEF Overriding, InsideLabels, HookLabels
<1>7. GameOptionsIntact'
  BY <1>6 DEF IntactInv, GameOptionsIntact
<1> QED
  BY <1>3, <1>4, <1>5, <1>7 DEF IntactInv

LEMMA HookKeepsIntact ==
  ASSUME TypeOK, IntactInv, NEW t \in Threads, HookStep(t)
  PROVE  IntactInv'
<1> USE DEF TypeOK, InsideLabels, HookLabels, lockVars, callVars
<1>1. CASE EnterHook(t)
  <2>1. LockInv'
    BY <1>1, StreamlineAssumption DEF EnterHook, IntactInv, LockInv
  <2>2. SavedInv' /\ OnlyLimitTouched'
    BY <1>1 DEF EnterHook, IntactInv, SavedInv, OnlyLimitTouched
  <2>3. \A u \in Threads : Overriding(u)' <=> Overriding(u)
    BY <1>1 DEF EnterHook, Overriding
  <2>4. GameOptionsIntact'
    BY <1>1, <2>3 DEF EnterHook, IntactInv, GameOptionsIntact
  <2> QED
    BY <2>1, <2>2, <2>4 DEF IntactInv
<1>2. CASE SaveOptions(t)
  <2>1. \A o \in Objects : options'[o] = options[o]
    BY <1>2, StreamlineAssumption DEF SaveOptions, CacheOptions
  <2>2. \A u \in Threads : ~Overriding(u)
    BY <1>2 DEF SaveOptions, IntactInv, LockInv, Overriding
  <2>3. \A u \in Threads : Overriding(u)' => Overriding(u)
    BY <1>2 DEF SaveOptions, Overriding
  <2>4. \A o \in Objects : options[o] = GameOptions[o]
    BY <2>2 DEF IntactInv, GameOptionsIntact
  <2>5. LockInv'
    BY <1>2 DEF SaveOptions, IntactInv, LockInv
  <2>6. SavedInv'
    BY <1>2, <2>4 DEF SaveOptions, IntactInv, SavedInv
  <2>7. OnlyLimitTouched' /\ GameOptionsIntact'
    BY <2>1, <2>4 DEF IntactInv, OnlyLimitTouched, GameOptionsIntact
  <2> QED
    BY <2>5, <2>6, <2>7 DEF IntactInv
<1>3. CASE OverrideLimit(t)
  <2>1. \A o \in Objects : o # arg[t] => options'[o] = options[o]
    BY <1>3 DEF OverrideLimit
  <2>2. \A u \in Threads : Overriding(u) => u = t
    BY <1>3 DEF OverrideLimit, IntactInv, LockInv, Overriding
  <2>3. Overriding(t)' /\ arg' = arg
    BY <1>3 DEF OverrideLimit, Overriding
  <2>4. GameOptionsIntact'
    BY <1>3, <2>1, <2>2, <2>3 DEF IntactInv, GameOptionsIntact, OverrideLimit, Overriding
  <2>5. LockInv' /\ SavedInv'
    BY <1>3 DEF OverrideLimit, IntactInv, LockInv, SavedInv
  <2>6. OnlyLimitTouched'
    BY <1>3 DEF OverrideLimit, IntactInv, OnlyLimitTouched, OptionsType
  <2> QED
    BY <2>4, <2>5, <2>6 DEF IntactInv
<1>4. CASE CallOriginal(t)
  <2>1. UNCHANGED <<set_options_lock, arg, original_frame_limit_us, options>>
    BY <1>4 DEF CallOriginal
  <2>2. pc[t] = "call" /\ pc' = [pc EXCEPT ![t] = "restore"]
    BY <1>4 DEF CallOriginal
  <2>3. \A u \in Threads : Overriding(u)' <=> Overriding(u)
    BY <2>2 DEF Overriding
  <2>4. LockInv' /\ SavedInv'
    BY <2>1, <2>2 DEF IntactInv, LockInv, SavedInv
  <2>5. OnlyLimitTouched' /\ GameOptionsIntact'
    BY <2>1, <2>3 DEF IntactInv, OnlyLimitTouched, GameOptionsIntact
  <2> QED
    BY <2>4, <2>5 DEF IntactInv
<1>5. CASE RestoreOptions(t)
  <2>1. \A u \in Threads : pc[u] \in InsideLabels => u = t
    BY <1>5 DEF RestoreOptions, IntactInv, LockInv
  <2>2. \A u \in Threads : pc'[u] \notin InsideLabels
    BY <1>5, <2>1 DEF RestoreOptions
  <2>3. LockInv'
    BY <1>5, <2>2, StreamlineAssumption DEF RestoreOptions, LockInv
  <2>4. SavedInv'
    BY <2>2 DEF SavedInv
  <2>5. \A o \in Objects : o # arg[t] => options'[o] = options[o]
    BY <1>5 DEF RestoreOptions
  <2>6. OnlyLimitTouched'
    BY <1>5 DEF RestoreOptions, IntactInv, OnlyLimitTouched, OptionsType
  <2>7. \A o \in Objects : options'[o] = GameOptions[o]
    <3> TAKE o \in Objects
    <3>1. CASE o = arg[t]
      <4>1. options'[o].limit = GameOptions[o].limit
        BY <1>5, <3>1 DEF RestoreOptions, IntactInv, SavedInv, OptionsType
      <4>2. GameOptions[o] \in OptionsType
        BY StreamlineAssumption
      <4> QED
        BY <2>6, <4>1, <4>2 DEF OnlyLimitTouched, OptionsType
    <3>2. CASE o # arg[t]
      <4>1. \A u \in Threads : arg[u] = o => ~Overriding(u)
        BY <2>1, <3>2 DEF Overriding
      <4> QED
        BY <2>5, <3>2, <4>1 DEF IntactInv, GameOptionsIntact
    <3> QED
      BY <3>1, <3>2
  <2>8. GameOptionsIntact'
    BY <2>7 DEF GameOptionsIntact
  <2> QED
    BY <2>3, <2>4, <2>6, <2>8 DEF IntactInv
<1> QED
  BY <1>1, <1>2, <1>3, <1>4, <1>5 DEF HookStep

LEMMA StreamlineCodeKeepsIntact ==
  ASSUME TypeOK, IntactInv, StreamlineCode
  PROVE  IntactInv'
<1> USE DEF InsideLabels, HookLabels, lockVars, callVars
<1>1. ASSUME NEW t \in GameThreads, GameStep(t) PROVE IntactInv'
  <2>1. CASE GameDirect(t)
    BY <2>1, OutsideKeepsIntact DEF GameDirect, TypeOK
  <2>2. ASSUME NEW o \in Objects, GameCall(t, o) PROVE IntactInv'
    BY <2>2, OutsideKeepsIntact DEF GameCall, TypeOK
  <2> QED
    BY <1>1, <2>1, <2>2 DEF GameStep
<1>2. CASE InstallStep(config.off)
  <2>1. UNCHANGED <<set_options_lock, options, arg, original_frame_limit_us>>
    BY <1>2 DEF InstallStep, FindReflex, InitializeMinHook, PrepareHook, CreateHook,
                EnableHook, EnableHookFails
  <2>2. PICK label \in {"delay", "retry", "prepare", "create", "enable", "poll"} :
          pc' = [pc EXCEPT ![Worker] = label]
    BY <1>2 DEF InstallStep, FindReflex, InitializeMinHook, PrepareHook, CreateHook,
                EnableHook, EnableHookFails
  <2>3. pc[Worker] \in {"install", "delay", "prepare", "create", "enable"}
    BY <1>2 DEF InstallStep, FindReflex, InitializeMinHook, PrepareHook, CreateHook,
                EnableHook, EnableHookFails
  <2> QED
    BY <2>1, <2>2, <2>3, OutsideKeepsIntact
<1>3. CASE SetReflexFpsLimit(target_fps)
  BY <1>3, OutsideKeepsIntact DEF SetReflexFpsLimit, TypeOK
<1>4. CASE GetFrameGenerationState
  BY <1>4, OutsideKeepsIntact DEF GetFrameGenerationState
<1>5. CASE StreamlineChanges
  <2>1. UNCHANGED <<pc, set_options_lock, options, arg, original_frame_limit_us>>
    BY <1>5 DEF StreamlineChanges
  <2> QED
    BY <2>1 DEF IntactInv, LockInv, SavedInv, OnlyLimitTouched, GameOptionsIntact,
                Overriding
<1> QED
  BY <1>1, <1>2, <1>3, <1>4, <1>5, HookKeepsIntact DEF StreamlineCode

LEMMA OtherCodeKeepsIntact ==
  ASSUME TypeOK, IntactInv, RtssCode \/ PluginCode
  PROVE  IntactInv'
<1> USE DEF InsideLabels, HookLabels, lockVars, callVars, RtssUnchanged, WorkerOnly
<1>1. CASE RtssChanges
  <2>1. UNCHANGED <<pc, set_options_lock, options, arg, original_frame_limit_us>>
    BY <1>1 DEF RtssChanges, vars_streamline
  <2> QED
    BY <2>1 DEF IntactInv, LockInv, SavedInv, OnlyLimitTouched, GameOptionsIntact,
                Overriding
<1>2. CASE RtssStep(target_fps)
  <2> USE DEF RtssStep, Initialize, ProfileNameFails, LoadProfile, SetDenominator,
              SetLimit, SetPropertyFails, SaveProfile, UpdateProfiles, Return
  <2>1. UNCHANGED <<set_options_lock, options, arg, original_frame_limit_us>>
    BY <1>2
  <2>2. PICK label \in {"rtss_load", "rtss_denominator", "rtss_limit", "rtss_save",
                       "rtss_update", "set_returned"} :
          pc' = [pc EXCEPT ![Worker] = label]
    BY <1>2
  <2>3. pc[Worker] \in {"rtss", "rtss_load", "rtss_denominator", "rtss_limit",
                       "rtss_save", "rtss_update"}
    BY <1>2
  <2> QED
    BY <2>1, <2>2, <2>3, OutsideKeepsIntact
<1>3. CASE PluginCode
  <2> USE DEF PluginCode, on_mod_load, ReadConfig, RetryInstall, ChooseTarget,
              SetReturned, Wake, set_fps_limit
  <2>1. UNCHANGED <<set_options_lock, options, arg, original_frame_limit_us>>
    BY <1>3
  <2>2. PICK label \in {"config", "stopped", "install", "poll", "set_reflex", "rtss",
                       "sleep"} :
          pc' = [pc EXCEPT ![Worker] = label]
    BY <1>3
  <2>3. pc[Worker] \in {"load", "config", "retry", "target", "set_returned", "sleep"}
    BY <1>3
  <2> QED
    BY <2>1, <2>2, <2>3, OutsideKeepsIntact
<1> QED
  BY <1>1, <1>2, <1>3 DEF RtssCode

LEMMA NextIntact == TypeOK /\ IntactInv /\ [Next]_vars => IntactInv'
<1> SUFFICES ASSUME TypeOK, IntactInv, [Next]_vars PROVE IntactInv'
  OBVIOUS
<1>1. CASE UNCHANGED vars
  BY <1>1 DEF vars, vars_streamline, lockVars, callVars, IntactInv, LockInv, SavedInv,
              OnlyLimitTouched, GameOptionsIntact, Overriding
<1> QED
  BY <1>1, StreamlineCodeKeepsIntact, OtherCodeKeepsIntact DEF Next

(* No call leaves the mod's limit in an options object of the game, however   *)
(* many threads pass the same object (hooked_reflex_set_options).             *)
THEOREM GameOptionsStayIntact == Spec => []GameOptionsIntact
<1>1. Init => IntactInv
  BY InitIntact
<1>2. TypeOK /\ TypeOK' /\ IntactInv /\ [Next]_vars => IntactInv'
  BY NextIntact
<1>3. IntactInv => GameOptionsIntact
  BY DEF IntactInv
<1> QED
  BY <1>1, <1>2, <1>3, TypeCorrect, PTL DEF Spec

-------------------------------------------------------------------------------
(* HookIsReady.                                                               *)

LEMMA InitReady == Init => ReadyInv
  BY StreamlineAssumption
  DEF Init, InitStreamline, InitRtss, ReadyInv, InstallLabels, BeforeLoop, RtssLabels,
      HookLabels

LEMMA StreamlineCodeKeepsReady ==
  ASSUME TypeOK, ReadyInv, StreamlineCode, UNCHANGED <<vars_rtss, vars_plugin>>
  PROVE  ReadyInv'
<1> USE DEF ReadyInv, InstallLabels, BeforeLoop, RtssLabels, HookLabels, lockVars,
            hookVars, vars_plugin
<1>1. ASSUME NEW t \in Threads, HookStep(t) PROVE ReadyInv'
  <2>1. UNCHANGED <<minhook, original_set_options, set_options_lock_initialized, config>>
    BY <1>1 DEF HookStep, EnterHook, SaveOptions, OverrideLimit, CallOriginal,
                RestoreOptions
  <2>2. PICK label \in HookLabels \cup {"idle", "set_returned"} :
          pc' = [pc EXCEPT ![t] = label] /\ (t = Worker => label # "idle")
    BY <1>1 DEF HookStep, EnterHook, SaveOptions, OverrideLimit, CallOriginal,
                RestoreOptions
  <2>3. pc[t] \in HookLabels
    BY <1>1 DEF HookStep, EnterHook, SaveOptions, OverrideLimit, CallOriginal,
                RestoreOptions
  <2>4. minhook = "enabled"
    BY <2>3
  <2> QED
    BY <2>1, <2>2, <2>3, <2>4 DEF TypeOK
<1>2. ASSUME NEW t \in GameThreads, GameStep(t) PROVE ReadyInv'
  <2>1. UNCHANGED <<minhook, original_set_options, set_options_lock_initialized, config>>
    BY <1>2 DEF GameStep, GameDirect, GameCall
  <2>2. PICK label \in {"idle", "direct", "enter"} :
          pc' = [pc EXCEPT ![t] = label] /\ (label = "enter" => minhook = "enabled")
    BY <1>2 DEF GameStep, GameDirect, GameCall
  <2>3. t # Worker
    BY StreamlineAssumption
  <2> QED
    BY <2>1, <2>2, <2>3 DEF TypeOK
<1>3. CASE FindReflex \/ InitializeMinHook
  <2>1. UNCHANGED <<original_set_options, set_options_lock_initialized, config>>
    BY <1>3 DEF FindReflex, InitializeMinHook
  <2>2. minhook' = minhook \/ (minhook = "uninitialized" /\ minhook' = "absent")
    BY <1>3 DEF FindReflex, InitializeMinHook
  <2>3. PICK label \in {"delay", "prepare", "retry"} :
          pc' = [pc EXCEPT ![Worker] = label]
    BY <1>3 DEF FindReflex, InitializeMinHook
  <2>4. pc[Worker] \in {"install", "delay"}
    BY <1>3 DEF FindReflex, InitializeMinHook
  <2> QED
    BY <2>1, <2>2, <2>3, <2>4 DEF TypeOK
<1>4. CASE PrepareHook(config.off)
  BY <1>4 DEF PrepareHook, TypeOK
<1>5. CASE CreateHook
  BY <1>5 DEF CreateHook, TypeOK
<1>6. CASE EnableHook
  BY <1>6 DEF EnableHook, TypeOK
<1>7. CASE EnableHookFails
  <2>1. /\ pc[Worker] = "enable" /\ pc' = [pc EXCEPT ![Worker] = "retry"]
        /\ UNCHANGED <<set_options_lock_initialized, config>>
    BY <1>7 DEF EnableHookFails
  <2>2. CASE minhook' = "absent"
    BY <2>1, <2>2 DEF TypeOK
  <2>3. CASE UNCHANGED <<minhook, original_set_options>>
    BY <2>1, <2>3 DEF TypeOK
  <2> QED
    BY <1>7, <2>2, <2>3 DEF EnableHookFails, remove_reflex_hook
<1>8. CASE SetReflexFpsLimit(target_fps)
  BY <1>8 DEF SetReflexFpsLimit, TypeOK
<1>9. CASE GetFrameGenerationState
  BY <1>9 DEF GetFrameGenerationState, TypeOK
<1>10. CASE StreamlineChanges
  BY <1>10 DEF StreamlineChanges
<1> QED
  BY <1>1, <1>2, <1>3, <1>4, <1>5, <1>6, <1>7, <1>8, <1>9, <1>10
  DEF StreamlineCode, InstallStep

LEMMA OtherCodeKeepsReady ==
  ASSUME TypeOK, ReadyInv, (RtssCode /\ UNCHANGED vars_plugin) \/ PluginCode
  PROVE  ReadyInv'
<1> USE DEF ReadyInv, InstallLabels, BeforeLoop, RtssLabels, HookLabels, lockVars,
            hookVars, vars_plugin, RtssUnchanged, WorkerOnly
<1>1. CASE RtssChanges /\ UNCHANGED vars_plugin
  BY <1>1 DEF RtssChanges, vars_streamline
<1>2. CASE RtssStep(target_fps) /\ UNCHANGED vars_plugin
  <2> USE DEF RtssStep, Initialize, ProfileNameFails, LoadProfile, SetDenominator,
              SetLimit, SetPropertyFails, SaveProfile, UpdateProfiles, Return
  <2>1. UNCHANGED <<minhook, original_set_options, set_options_lock_initialized, config>>
    BY <1>2
  <2>2. PICK label \in RtssLabels \cup {"set_returned"} :
          pc' = [pc EXCEPT ![Worker] = label]
    BY <1>2
  <2>3. pc[Worker] \in RtssLabels
    BY <1>2
  <2> QED
    BY <2>1, <2>2, <2>3 DEF TypeOK
<1>3. CASE on_mod_load \/ RetryInstall
  BY <1>3 DEF on_mod_load, RetryInstall, TypeOK
<1>4. CASE ReadConfig
  <2>1. UNCHANGED <<minhook, original_set_options, set_options_lock_initialized>>
        /\ pc[Worker] = "config"
    BY <1>4 DEF ReadConfig
  <2>2. \/ config'.limiter = "reflex" /\ pc' = [pc EXCEPT ![Worker] = "install"]
        \/ config'.limiter # "reflex" /\ pc' = [pc EXCEPT ![Worker] = "poll"]
    BY <1>4 DEF ReadConfig
  <2> QED
    BY <2>1, <2>2 DEF TypeOK
<1>5. CASE ChooseTarget
  <2>1. UNCHANGED <<minhook, original_set_options, set_options_lock_initialized, config>>
        /\ pc[Worker] = "target"
    BY <1>5 DEF ChooseTarget
  <2>2. \/ pc' = [pc EXCEPT ![Worker] = "sleep"]
        \/ config.limiter = "reflex" /\ pc' = [pc EXCEPT ![Worker] = "set_reflex"]
        \/ config.limiter = "rtss" /\ pc' = [pc EXCEPT ![Worker] = "rtss"]
    BY <1>5 DEF ChooseTarget, set_fps_limit, TypeOK
  <2> QED
    BY <2>1, <2>2 DEF TypeOK
<1>6. CASE SetReturned \/ Wake
  BY <1>6 DEF SetReturned, Wake, TypeOK
<1> QED
  BY <1>1, <1>2, <1>3, <1>4, <1>5, <1>6 DEF RtssCode, PluginCode

LEMMA NextReady == TypeOK /\ ReadyInv /\ [Next]_vars => ReadyInv'
<1> SUFFICES ASSUME TypeOK, ReadyInv, [Next]_vars PROVE ReadyInv'
  OBVIOUS
<1>1. CASE UNCHANGED vars
  BY <1>1 DEF vars, vars_streamline, lockVars, hookVars, vars_plugin, ReadyInv
<1> QED
  BY <1>1, StreamlineCodeKeepsReady, OtherCodeKeepsReady DEF Next

(* The hook never runs without its lock or its trampoline, after any sequence *)
(* of failed installations (install_reflex_hook, remove_reflex_hook).         *)
THEOREM HookIsAlwaysReady == Spec => []HookIsReady
<1>1. Init => ReadyInv
  BY InitReady
<1>2. TypeOK /\ ReadyInv /\ [Next]_vars => ReadyInv'
  BY NextReady
<1>3. ReadyInv => HookIsReady
  BY DEF ReadyInv, HookIsReady
<1> QED
  BY <1>1, <1>2, <1>3, TypeCorrect, PTL DEF Spec

-------------------------------------------------------------------------------
(* From here on: which limit is in force, that is, what the driver or the     *)
(* RTSS profile holds against what the worker set, what the worker's own call *)
(* repeats, and how the hook implements LimitedSetter.                        *)
(*                                                                            *)
(* One limiter at a time: without Reflex no attempt to install the hook is    *)
(* ever made, and no rate is set before the loop.                             *)
OneLimiter ==
  /\ pc[Worker] \in {"load", "config"} \/ config.limiter = "rtss"
       => minhook = "uninitialized"
  /\ has_current_fps => pc[Worker] \notin BeforeLoop

(* What the worker does while it runs streamline.cpp.                         *)
LEMMA StreamlineMovesWorker ==
  ASSUME TypeOK, ReadyInv, OneLimiter, StreamlineCode,
         UNCHANGED <<vars_rtss, vars_plugin>>
  PROVE  /\ \/ pc'[Worker] = pc[Worker]
            \/ pc[Worker] = "poll" /\ pc'[Worker] = "target"
            \/ /\ config.limiter = "reflex"
               /\ pc'[Worker] \notin RtssLabels \cup {"load", "config"}
               /\ pc'[Worker] \in BeforeLoop => pc[Worker] \in BeforeLoop
         /\ result' = result \/ config.limiter = "reflex"
         /\ minhook' = minhook \/ pc[Worker] \in InstallLabels
<1> USE DEF ReadyInv, OneLimiter, InstallLabels, BeforeLoop, RtssLabels, HookLabels,
            hookVars
<1>t. /\ pc \in [Threads -> Labels] /\ Worker \notin GameThreads
      /\ config.limiter \in {"reflex", "rtss"}
  BY StreamlineAssumption DEF TypeOK
<1>1. ASSUME NEW t \in Threads, HookStep(t) 
      PROVE  /\ pc[t] \in HookLabels /\ UNCHANGED minhook
             /\ result' = result \/ t = Worker
             /\ \E label \in HookLabels \cup {"idle", "set_returned"} :
                  pc' = [pc EXCEPT ![t] = label] /\ (t = Worker => label # "idle")
  BY <1>1 DEF HookStep, EnterHook, SaveOptions, OverrideLimit, CallOriginal,
              RestoreOptions
<1>2. ASSUME NEW t \in GameThreads, GameStep(t)
      PROVE  /\ UNCHANGED <<minhook, result>>
             /\ \E label \in {"idle", "direct", "enter"} : pc' = [pc EXCEPT ![t] = label]
  BY <1>2 DEF GameStep, GameDirect, GameCall
<1>3. CASE InstallStep(config.off)
  <2>1. /\ pc[Worker] \in InstallLabels /\ UNCHANGED result
        /\ \E label \in InstallLabels \cup {"poll"} : pc' = [pc EXCEPT ![Worker] = label]
    BY <1>3 DEF InstallStep, FindReflex, InitializeMinHook, PrepareHook, CreateHook,
                EnableHook, EnableHookFails
  <2> QED
    BY <1>t, <2>1
<1>4. CASE SetReflexFpsLimit(target_fps)
  BY <1>4, <1>t DEF SetReflexFpsLimit
<1>5. CASE GetFrameGenerationState
  BY <1>5, <1>t DEF GetFrameGenerationState
<1>6. CASE StreamlineChanges
  BY <1>6 DEF StreamlineChanges
<1>7. CASE \E t \in Threads : HookStep(t)
  <2>1. PICK t \in Threads : HookStep(t)
    BY <1>7
  <2>2. PICK label \in HookLabels \cup {"idle", "set_returned"} :
          pc' = [pc EXCEPT ![t] = label] /\ (t = Worker => label # "idle")
    BY <1>1, <2>1
  <2>3. CASE t = Worker
    <3>1. minhook = "enabled" /\ config.limiter = "reflex"
      BY <1>1, <1>t, <2>1, <2>3
    <3> QED
      BY <1>1, <1>t, <2>1, <2>2, <2>3, <3>1
  <2>4. CASE t # Worker
    BY <1>1, <1>t, <2>1, <2>2, <2>4
  <2> QED
    BY <2>3, <2>4
<1>8. CASE \E t \in GameThreads : GameStep(t)
  BY <1>2, <1>8, <1>t
<1> QED
  BY <1>3, <1>4, <1>5, <1>6, <1>7, <1>8 DEF StreamlineCode

LEMMA NextOneLimiter ==
  TypeOK /\ ReadyInv /\ OneLimiter /\ [Next]_vars => OneLimiter'
<1> SUFFICES ASSUME TypeOK, ReadyInv, OneLimiter, [Next]_vars PROVE OneLimiter'
  OBVIOUS
<1> USE DEF OneLimiter, BeforeLoop, InstallLabels
<1>t. pc \in [Threads -> Labels] /\ config.limiter \in {"reflex", "rtss"}
  BY DEF TypeOK
<1>1. CASE UNCHANGED vars
  BY <1>1 DEF vars, vars_streamline, hookVars, vars_plugin, progressVars
<1>2. CASE StreamlineCode /\ UNCHANGED <<vars_rtss, vars_plugin>>
  <2>1. UNCHANGED <<config, has_current_fps>>
    BY <1>2 DEF vars_plugin, progressVars
  <2> QED
    BY <1>2, <1>t, <2>1, StreamlineMovesWorker DEF ReadyInv
<1>3. CASE RtssCode /\ UNCHANGED vars_plugin
  <2>1. UNCHANGED <<config, has_current_fps, minhook>>
    BY <1>3 DEF vars_plugin, progressVars, RtssCode, RtssStep, Initialize,
      ProfileNameFails, LoadProfile, SetDenominator, SetLimit, SetPropertyFails,
      SaveProfile, UpdateProfiles, RtssChanges, RtssUnchanged, hookVars, vars_streamline
  <2>2. \/ UNCHANGED pc
        \/ \E label \in RtssLabels \cup {"set_returned"} : pc' = [pc EXCEPT ![Worker] = label]
    BY <1>3 DEF vars_plugin, RtssCode, RtssStep, Initialize, Return, RtssLabels,
      ProfileNameFails, LoadProfile, SetDenominator, SetLimit, SetPropertyFails,
      SaveProfile, UpdateProfiles, RtssChanges, vars_streamline
  <2> QED
    BY <1>t, <2>1, <2>2 DEF RtssLabels
<1>4. CASE PluginCode
  BY <1>4, <1>t DEF PluginCode, on_mod_load, ReadConfig, RetryInstall, ChooseTarget,
      SetReturned, Wake, set_fps_limit, WorkerOnly, hookVars, progressVars
<1> QED
  BY <1>1, <1>2, <1>3, <1>4 DEF Next

-------------------------------------------------------------------------------
(* The RTSS profile. Between LoadProfile and SaveProfile the working copy is  *)
(* what will be written: the user's other properties unless the file was      *)
(* edited meanwhile, and both parts of the new rate before the save.          *)
Rate(fps) == [limit |-> fps, denominator |-> 1]
InForce(fps) == disk.rate = Rate(fps) /\ applied.rate = Rate(fps)

WorkingCopy ==
  /\ At(Worker, "rtss_limit") => working.rate.denominator = 1
  /\ At(Worker, "rtss_save") => working.rate = Rate(target_fps)
  /\ pc[Worker] \in {"rtss_denominator", "rtss_limit", "rtss_save"} /\ ~edited
       => working.other = disk.other
  /\ pc[Worker] \in BeforeLoop => disk.rate = InitialRate

BelievedRate ==
  writable /\ config.limiter = "rtss" =>
    /\ has_current_fps /\ pc[Worker] \notin {"rtss_update", "set_returned"}
         => InForce(current_fps)
    /\ At(Worker, "rtss_update") => disk.rate = Rate(target_fps)
    /\ At(Worker, "set_returned") /\ result => InForce(target_fps)
    /\ At(Worker, "set_returned") /\ ~result /\ has_current_fps => InForce(current_fps)

ProfileInv == WorkingCopy /\ ProfileNeverTorn /\ BelievedRate

LEMMA InitProfile == Init => OneLimiter /\ ProfileInv
<1> SUFFICES ASSUME Init PROVE OneLimiter /\ ProfileInv
  OBVIOUS
<1>1. /\ pc[Worker] = "load" /\ minhook = "uninitialized" /\ disk.rate = InitialRate
      /\ has_current_fps = FALSE /\ config.limiter = "reflex"
  BY StreamlineAssumption DEF Init, InitStreamline, InitRtss, DefaultConfig
<1> QED
  BY <1>1 DEF OneLimiter, ProfileInv, WorkingCopy, ProfileNeverTorn, BelievedRate

LEMMA RtssKeepsProfile ==
  ASSUME TypeOK, ReadyInv, OneLimiter, ProfileInv,
         RtssStep(target_fps), UNCHANGED vars_plugin
  PROVE  ProfileInv'
<1> USE DEF vars_plugin, progressVars, WorkingCopy, BelievedRate, Rate, InForce,
            BeforeLoop, InstallLabels, RtssUnchanged, apiVars, ProfileInv
<1>t. /\ pc \in [Threads -> Labels]
      /\ working \in ProfileType /\ disk \in ProfileType
      /\ target_fps \in Fps /\ UNCHANGED <<target_fps, config, current_fps, has_current_fps>>
  BY TargetInRange DEF TypeOK, target_fps
<1>n. UNCHANGED disk => ProfileNeverTorn'
  BY <1>t DEF ProfileNeverTorn
<1>1. CASE Initialize
  BY <1>1, <1>t, <1>n DEF Initialize, Return
<1>2. CASE ProfileNameFails \/ SetPropertyFails
  BY <1>2, <1>t, <1>n DEF ProfileNameFails, SetPropertyFails, Return, vars_rtss
<1>3. CASE LoadProfile
  BY <1>3, <1>t, <1>n DEF LoadProfile
<1>4. CASE SetDenominator
  BY <1>4, <1>t, <1>n DEF SetDenominator, ProfileType, RateType
<1>5. CASE SetLimit(target_fps)
  BY <1>5, <1>t, <1>n DEF SetLimit, ProfileType, RateType
<1>6. CASE SaveProfile
  BY <1>6, <1>t, <1>n DEF SaveProfile, ProfileNeverTorn, target_fps
<1>7. CASE UpdateProfiles
  BY <1>7, <1>t, <1>n DEF UpdateProfiles, Return
<1> QED
  BY <1>1, <1>2, <1>3, <1>4, <1>5, <1>6, <1>7 DEF RtssStep

LEMMA NextProfile ==
  TypeOK /\ ReadyInv /\ OneLimiter /\ ProfileInv /\ [Next]_vars => ProfileInv'
<1> SUFFICES ASSUME TypeOK, ReadyInv, OneLimiter, ProfileInv, [Next]_vars
             PROVE  ProfileInv'
  OBVIOUS
<1> USE DEF vars_plugin, progressVars, WorkingCopy, BelievedRate, Rate, InForce,
            BeforeLoop, InstallLabels, apiVars, vars_rtss, ProfileInv, ProfileNeverTorn,
            target_fps
<1>t. /\ pc \in [Threads -> Labels] /\ disk \in ProfileType
      /\ config.limiter \in {"reflex", "rtss"}
  BY DEF TypeOK
<1>1. CASE UNCHANGED vars
  BY <1>1 DEF vars, vars_streamline
<1>2. CASE StreamlineCode /\ UNCHANGED <<vars_rtss, vars_plugin>>
  BY <1>2, <1>t, StreamlineMovesWorker DEF RtssLabels
<1>3. CASE RtssChanges /\ UNCHANGED vars_plugin
  <2>1. UNCHANGED <<pc, result, working, config, writable>>
        /\ disk'.rate = disk.rate /\ (applied' = applied \/ applied' = disk')
        /\ (UNCHANGED <<disk, edited>> \/ edited' = TRUE)
    BY <1>3, <1>t DEF RtssChanges, RtssInjects, UserEdits, vars_streamline, ProfileType
  <2> QED
    BY <1>3, <1>t, <2>1
<1>4. CASE on_mod_load \/ RetryInstall \/ Wake
  BY <1>4, <1>t DEF on_mod_load, RetryInstall, Wake, WorkerOnly
<1>5. CASE ReadConfig
  BY <1>5, <1>t DEF ReadConfig, OneLimiter
<1>6. CASE ChooseTarget
  BY <1>6, <1>t DEF ChooseTarget, WorkerOnly, set_fps_limit
<1>7. CASE SetReturned
  BY <1>7, <1>t DEF SetReturned, WorkerOnly
<1> QED
  BY <1>1, <1>2, <1>3, <1>4, <1>5, <1>6, <1>7, RtssKeepsProfile
  DEF Next, RtssCode, PluginCode

(* Three theorems from one invariant: whatever call fails and whatever the    *)
(* user edits, the profile on disk has the user's rate or a complete one of   *)
(* the mod, a save keeps the user's other properties, and a rate that the     *)
(* worker believes set is applied, unless the profile cannot be written       *)
(* (set_rtss_fps_limit, SaveProfile's missing result).                        *)
LEMMA ProfileInvariant == Spec => [](OneLimiter /\ ProfileInv)
<1>1. Init => OneLimiter /\ ProfileInv /\ ReadyInv
  BY InitProfile, InitReady
<1>2. /\ TypeOK /\ ReadyInv /\ OneLimiter /\ ProfileInv /\ [Next]_vars
      => ReadyInv' /\ OneLimiter' /\ ProfileInv'
  BY NextReady, NextOneLimiter, NextProfile
<1> QED
  BY <1>1, <1>2, TypeCorrect, PTL DEF Spec

(* Whatever call fails, the profile on disk has the user's rate or one that   *)
(* the mod wrote completely (set_fps_limit, SaveProfile).                     *)
THEOREM ProfileIsNeverTorn == Spec => []ProfileNeverTorn
<1>1. ProfileInv => ProfileNeverTorn
  BY DEF ProfileInv
<1> QED
  BY <1>1, ProfileInvariant, PTL

(* No save writes other properties that are older than the user's last edit   *)
(* before LoadProfile.                                                        *)
THEOREM NoStaleSave == Spec => []NoStaleOverwrite
<1>1. ProfileInv => NoStaleOverwrite
  BY DEF ProfileInv, WorkingCopy, NoStaleOverwrite
<1> QED
  BY <1>1, ProfileInvariant, PTL

(* The rate that the worker believes set is the one that RTSS applies, if the *)
(* profile can be written at all.                                             *)
THEOREM BelievedRateIsApplied == Spec => []AppliedProfileHolds
<1>1. ProfileInv => AppliedProfileHolds
  BY DEF ProfileInv, BelievedRate, AppliedProfileHolds, InForce, Rate
<1> QED
  BY <1>1, ProfileInvariant, PTL

-------------------------------------------------------------------------------
(* The limit of intercepted calls. What a call is about to deliver is the     *)
(* limit that is set, unless the worker has just stored a new one and waits   *)
(* for the lock: then the calls in flight are over before it delivers it.     *)
Delivered == driver.via = "hook" => driver.limit = frame_limit_us

LimitInv ==
  /\ driver.via = "hook" => minhook = "enabled"
  /\ \A t \in Threads :
       At(t, "call") /\ ~At(Worker, "enter") => options[arg[t]].limit = frame_limit_us
  /\ config.limiter = "reflex" =>
       /\ pc[Worker] \in HookLabels \cup {"set_returned"}
            => frame_limit_us = Us(target_fps)
       /\ pc[Worker] \in {"restore", "set_returned"} /\ result => Delivered
       /\ /\ has_current_fps /\ result
          /\ pc[Worker] \in {"poll", "target", "set_reflex", "sleep"}
          => frame_limit_us = Us(current_fps) /\ Delivered

(* Until frame generation was active the only limit there is comes from       *)
(* initial_fps, stored before the hook can be created.                        *)
InitialInv ==
  ~active_seen =>
    /\ ~frame_generation_active
    /\ minhook = "enabled" \/ pc[Worker] \in {"create", "enable"}
         => frame_limit_us = Us(config.off)
    /\ \A t \in Threads : At(t, "call") => options[arg[t]].limit = Us(config.off)
    /\ driver.via = "hook" => driver.limit = Us(config.off)

InForceInv == LimitInv /\ InitialInv

LEMMA InitInForce == Init => InForceInv
  BY StreamlineAssumption
  DEF Init, InitStreamline, InitRtss, InForceInv, LimitInv, InitialInv, HookLabels

LEMMA HookKeepsInForce ==
  ASSUME TypeOK, IntactInv, ReadyInv, OneLimiter, InForceInv, NEW t \in Threads,
         HookStep(t), UNCHANGED <<vars_rtss, vars_plugin>>
  PROVE  InForceInv'
<1> USE DEF InForceInv, LimitInv, InitialInv, Delivered, HookLabels, lockVars, hookVars,
            callVars, vars_plugin, progressVars, target_fps, Us
<1>t. /\ pc \in [Threads -> Labels] /\ options \in [AllObjects -> OptionsType]
      /\ arg \in [Threads -> AllObjects] /\ Worker \in Threads
  BY DEF TypeOK
<1>l. /\ \A u \in Threads : pc[u] \in {"save", "override", "call", "restore"}
                              => set_options_lock = u
      /\ NoThread \notin Threads
  BY StreamlineAssumption DEF IntactInv, LockInv, InsideLabels
<1>1. CASE EnterHook(t)
  BY <1>1, <1>t, <1>l DEF EnterHook
<1>2. CASE SaveOptions(t)
  <2>1. \A u \in Threads : u # t => pc[u] # "call"
    BY <1>2, <1>t, <1>l DEF SaveOptions
  <2> QED
    BY <1>2, <2>1, <1>t DEF SaveOptions
<1>3. CASE OverrideLimit(t)
  <2>1. \A u \in Threads : u # t => pc[u] # "call"
    BY <1>3, <1>t, <1>l DEF OverrideLimit
  <2>2. options'[arg[t]].limit = frame_limit_us
    BY <1>3, <1>t DEF OverrideLimit, OptionsType
  <2>3. minhook = "enabled"
    BY <1>3 DEF OverrideLimit, ReadyInv
  <2> QED
    BY <1>3, <2>1, <2>2, <2>3, <1>t DEF OverrideLimit
<1>4. CASE CallOriginal(t)
  <2>1. \A u \in Threads : u # t => pc[u] # "call"
    BY <1>4, <1>t, <1>l DEF CallOriginal
  <2>2. minhook = "enabled"
    BY <1>4 DEF CallOriginal, ReadyInv
  <2>3. PICK ok \in BOOLEAN :
          /\ driver' = IF ok THEN Accepted(arg[t], "hook") ELSE driver
          /\ result' = IF t = Worker THEN ok ELSE result
    BY <1>4 DEF CallOriginal, Outcomes
  <2>4. ok => driver'.limit = options[arg[t]].limit /\ driver'.via = "hook"
    BY <2>3 DEF Accepted
  <2> QED
    BY <1>4, <2>1, <2>2, <2>3, <2>4, <1>t DEF CallOriginal
<1>5. CASE RestoreOptions(t)
  <2>1. \A u \in Threads : u # t => pc[u] # "call"
    BY <1>5, <1>t, <1>l DEF RestoreOptions
  <2> QED
    BY <1>5, <2>1, <1>t DEF RestoreOptions
<1> QED
  BY <1>1, <1>2, <1>3, <1>4, <1>5 DEF HookStep

LEMMA InstallKeepsInForce ==
  ASSUME TypeOK, ReadyInv, OneLimiter, InForceInv,
         InstallStep(config.off), UNCHANGED <<vars_rtss, vars_plugin>>
  PROVE  InForceInv'
<1> USE DEF InForceInv, LimitInv, InitialInv, Delivered, HookLabels, lockVars, hookVars,
            callVars, vars_plugin, progressVars, target_fps, Us
<1>t. /\ pc \in [Threads -> Labels] /\ Worker \in Threads
      /\ pc[Worker] \in InstallLabels
  BY DEF TypeOK, InstallStep, FindReflex, InitializeMinHook, PrepareHook, CreateHook,
         EnableHook, EnableHookFails, InstallLabels
<1>0. /\ minhook # "enabled" /\ driver.via # "hook" /\ ~has_current_fps
      /\ \A t \in Threads : pc[t] # "call"
  BY <1>t DEF ReadyInv, BeforeLoop, OneLimiter
<1>1. CASE FindReflex
  BY <1>1, <1>t, <1>0 DEF FindReflex
<1>2. CASE InitializeMinHook
  BY <1>2, <1>t, <1>0 DEF InitializeMinHook
<1>3. CASE PrepareHook(config.off)
  BY <1>3, <1>t, <1>0 DEF PrepareHook
<1>4. CASE CreateHook
  BY <1>4, <1>t, <1>0 DEF CreateHook
<1>5. CASE EnableHook
  BY <1>5, <1>t, <1>0 DEF EnableHook
<1>6. CASE EnableHookFails
  BY <1>6, <1>t, <1>0 DEF EnableHookFails, remove_reflex_hook
<1> QED
  BY <1>1, <1>2, <1>3, <1>4, <1>5, <1>6 DEF InstallStep

LEMMA StreamlineCodeKeepsInForce ==
  ASSUME TypeOK, IntactInv, ReadyInv, OneLimiter, InForceInv, StreamlineCode,
         UNCHANGED <<vars_rtss, vars_plugin>>
  PROVE  InForceInv'
<1> USE DEF InForceInv, LimitInv, InitialInv, Delivered, HookLabels, lockVars, hookVars,
            callVars, vars_plugin, progressVars, target_fps, Us
<1>t. /\ pc \in [Threads -> Labels] /\ Worker \in Threads /\ Worker \notin GameThreads
      /\ arg \in [Threads -> AllObjects]
  BY StreamlineAssumption DEF TypeOK
<1>1. ASSUME NEW t \in GameThreads, GameStep(t) PROVE InForceInv'
  <2>1. CASE GameDirect(t)
    BY <2>1, <1>t DEF GameDirect, Accepted
  <2>2. ASSUME NEW o \in Objects, GameCall(t, o) PROVE InForceInv'
    BY <2>2, <1>t DEF GameCall
  <2> QED
    BY <1>1, <2>1, <2>2 DEF GameStep
<1>2. CASE SetReflexFpsLimit(target_fps)
  <2>1. minhook = "enabled" /\ config.limiter = "reflex"
    BY <1>2 DEF SetReflexFpsLimit, ReadyInv, OneLimiter, TypeOK
  <2> QED
    BY <1>2, <1>t, <2>1 DEF SetReflexFpsLimit
<1>3. CASE GetFrameGenerationState
  BY <1>3, <1>t DEF GetFrameGenerationState
<1>4. CASE StreamlineChanges
  BY <1>4 DEF StreamlineChanges
<1> QED
  BY <1>1, <1>2, <1>3, <1>4, HookKeepsInForce, InstallKeepsInForce DEF StreamlineCode

LEMMA OtherCodeKeepsInForce ==
  ASSUME TypeOK, ReadyInv, OneLimiter, InForceInv,
         (RtssCode /\ UNCHANGED vars_plugin) \/ PluginCode
  PROVE  InForceInv'
<1> USE DEF InForceInv, LimitInv, InitialInv, Delivered, HookLabels, lockVars, hookVars,
            callVars, vars_plugin, progressVars, target_fps, Us, RtssUnchanged, WorkerOnly
<1>t. /\ pc \in [Threads -> Labels] /\ Worker \in Threads
      /\ config.limiter \in {"reflex", "rtss"}
  BY DEF TypeOK
<1>1. CASE RtssChanges /\ UNCHANGED vars_plugin
  BY <1>1 DEF RtssChanges, vars_streamline
<1>2. CASE RtssStep(target_fps) /\ UNCHANGED vars_plugin
  <2> USE DEF RtssStep, Initialize, ProfileNameFails, LoadProfile, SetDenominator,
              SetLimit, SetPropertyFails, SaveProfile, UpdateProfiles, Return
  <2>1. UNCHANGED <<minhook, options, arg, frame_limit_us, driver, vars_plugin>>
    BY <1>2
  <2>2. /\ pc[Worker] \in RtssLabels
        /\ \E label \in RtssLabels \cup {"set_returned"} :
             pc' = [pc EXCEPT ![Worker] = label]
    BY <1>2 DEF RtssLabels
  <2>3. config.limiter = "rtss"
    BY <1>2 DEF ReadyInv, RtssLabels
  <2>4. driver.via # "hook"
    BY <2>3 DEF OneLimiter
  <2> QED
    BY <1>t, <2>1, <2>2, <2>3, <2>4 DEF RtssLabels
<1>3. CASE on_mod_load \/ RetryInstall \/ Wake
  BY <1>3, <1>t DEF on_mod_load, RetryInstall, Wake
<1>4. CASE ReadConfig
  <2>1. /\ minhook = "uninitialized" /\ ~has_current_fps
        /\ \A t \in Threads : pc[t] # "call"
    BY <1>4 DEF ReadConfig, OneLimiter, BeforeLoop, ReadyInv
  <2> QED
    BY <1>4, <1>t, <2>1 DEF ReadConfig
<1>5. CASE ChooseTarget
  BY <1>5, <1>t DEF ChooseTarget, set_fps_limit
<1>6. CASE SetReturned
  BY <1>6, <1>t DEF SetReturned
<1> QED
  BY <1>1, <1>2, <1>3, <1>4, <1>5, <1>6 DEF RtssCode, PluginCode

LEMMA NextInForce ==
  /\ TypeOK /\ IntactInv /\ ReadyInv /\ OneLimiter /\ InForceInv /\ [Next]_vars
  => InForceInv'
<1> SUFFICES ASSUME TypeOK, IntactInv, ReadyInv, OneLimiter, InForceInv, [Next]_vars
             PROVE  InForceInv'
  OBVIOUS
<1>1. CASE UNCHANGED vars
  BY <1>1 DEF vars, vars_streamline, vars_plugin, progressVars, hookVars, callVars,
              InForceInv, LimitInv, InitialInv, Delivered, target_fps
<1> QED
  BY <1>1, StreamlineCodeKeepsInForce, OtherCodeKeepsInForce DEF Next

(* All that is known of the limit in force, as one invariant.                 *)
LEMMA InForceInvariant == Spec => [](IntactInv /\ ReadyInv /\ OneLimiter /\ InForceInv)
<1>1. Init => IntactInv /\ ReadyInv /\ OneLimiter /\ InForceInv
  BY InitIntact, InitReady, InitProfile, InitInForce
<1>2. /\ TypeOK /\ TypeOK'
      /\ IntactInv /\ ReadyInv /\ OneLimiter /\ InForceInv /\ [Next]_vars
      => IntactInv' /\ ReadyInv' /\ OneLimiter' /\ InForceInv'
  BY NextIntact, NextReady, NextOneLimiter, NextInForce
<1> QED
  BY <1>1, <1>2, TypeCorrect, PTL DEF Spec

(* Whatever calls were in flight when the worker changed the limit, the last  *)
(* intercepted call gave the driver the limit that the worker believes set,   *)
(* for any number of threads of the game (set_reflex_fps_limit).              *)
THEOREM BelievedLimitIsApplied == Spec => []AppliedLimitHolds
<1>1. OneLimiter /\ ReadyInv /\ TypeOK /\ InForceInv => AppliedLimitHolds
  BY DEF OneLimiter, ReadyInv, TypeOK, InForceInv, LimitInv, Delivered, AppliedLimitHolds
<1> QED
  BY <1>1, InForceInvariant, TypeCorrect, PTL

(* No intercepted call gets another limit than initial_fps before frame       *)
(* generation was seen active, after any failed installations                 *)
(* (install_reflex_hook).                                                     *)
THEOREM EarlyCallsGetInitialLimit == Spec => []InitialLimitUntilActive
<1>1. InForceInv => InitialLimitUntilActive
  BY DEF InForceInv, InitialInv, InitialLimitUntilActive
<1> QED
  BY <1>1, InForceInvariant, PTL

-------------------------------------------------------------------------------
(* What the worker's own call hands to Streamline. Its object is always the   *)
(* mod's, which never carries a chain of the game.                            *)
OwnObject ==
  /\ arg[Worker] = Cache
  /\ options[Cache].next = "null"
  /\ \A t \in GameThreads : pc[t] # "idle" => arg[t] \in Objects

(* The mod's object repeats the settings of the latest intercepted call of    *)
(* the game once that call was accepted, or of the one that is in progress.   *)
Choosing(t) == pc[t] \in {"override", "call"}
SettingsInv ==
  /\ driver.via = "hook" /\ (\A t \in GameThreads : ~Choosing(t))
       => driver.settings = options[Cache].settings
  /\ \A t \in Threads : Choosing(t) => options[arg[t]].settings = options[Cache].settings

LEMMA InitReplay == Init => OwnObject /\ SettingsInv
  BY StreamlineAssumption DEF Init, InitStreamline, OwnObject, SettingsInv, Choosing

LEMMA HookKeepsOwnObject ==
  ASSUME TypeOK, OwnObject, NEW t \in Threads, HookStep(t)
  PROVE  OwnObject'
<1> USE DEF OwnObject, callVars
<1>t. /\ pc \in [Threads -> Labels] /\ options \in [AllObjects -> OptionsType]
      /\ arg \in [Threads -> AllObjects] /\ Worker \in Threads
  BY DEF TypeOK
<1>1. CASE EnterHook(t)
  BY <1>1, <1>t DEF EnterHook
<1>2. CASE SaveOptions(t)
  BY <1>2, <1>t DEF SaveOptions, CacheOptions
<1>3. CASE OverrideLimit(t)
  BY <1>3, <1>t DEF OverrideLimit, OptionsType
<1>4. CASE CallOriginal(t)
  BY <1>4, <1>t DEF CallOriginal
<1>5. CASE RestoreOptions(t)
  BY <1>5, <1>t DEF RestoreOptions, OptionsType
<1> QED
  BY <1>1, <1>2, <1>3, <1>4, <1>5 DEF HookStep

LEMMA NextOwnObject == TypeOK /\ OwnObject /\ [Next]_vars => OwnObject'
<1> SUFFICES ASSUME TypeOK, OwnObject, [Next]_vars PROVE OwnObject'
  OBVIOUS
<1> USE DEF OwnObject, callVars
<1>t. /\ pc \in [Threads -> Labels] /\ arg \in [Threads -> AllObjects]
      /\ Worker \in Threads /\ Worker \notin GameThreads
  BY StreamlineAssumption DEF TypeOK
<1>1. CASE UNCHANGED vars
  BY <1>1 DEF vars, vars_streamline
<1>2. ASSUME NEW t \in GameThreads, GameStep(t) PROVE OwnObject'
  <2>1. CASE GameDirect(t)
    BY <2>1, <1>t DEF GameDirect
  <2>2. ASSUME NEW o \in Objects, GameCall(t, o) PROVE OwnObject'
    BY <2>2, <1>t DEF GameCall
  <2> QED
    BY <1>2, <2>1, <2>2 DEF GameStep
<1>3. CASE InstallStep(config.off) \/ GetFrameGenerationState \/ StreamlineChanges
  <2>1. /\ UNCHANGED <<options, arg>>
        /\ UNCHANGED pc \/ \E label \in Labels : pc' = [pc EXCEPT ![Worker] = label]
    BY <1>3 DEF InstallStep, FindReflex, InitializeMinHook, PrepareHook, CreateHook,
                EnableHook, EnableHookFails, GetFrameGenerationState, StreamlineChanges,
                Labels, WorkerLabels
  <2> QED
    BY <1>t, <2>1
<1>4. CASE SetReflexFpsLimit(target_fps)
  BY <1>4, <1>t DEF SetReflexFpsLimit
<1>5. CASE RtssCode
  <2>1. /\ UNCHANGED <<options, arg>>
        /\ UNCHANGED pc \/ \E label \in Labels : pc' = [pc EXCEPT ![Worker] = label]
    BY <1>5 DEF RtssCode, RtssChanges, RtssStep, Initialize, ProfileNameFails,
      LoadProfile, SetDenominator, SetLimit, SetPropertyFails, SaveProfile,
      UpdateProfiles, Return, RtssUnchanged, vars_streamline, Labels, WorkerLabels
  <2> QED
    BY <1>t, <2>1
<1>6. CASE PluginCode
  <2>1. /\ UNCHANGED <<options, arg>>
        /\ \E label \in Labels : pc' = [pc EXCEPT ![Worker] = label]
    BY <1>6 DEF PluginCode, on_mod_load, ReadConfig, RetryInstall, ChooseTarget,
      SetReturned, Wake, set_fps_limit, WorkerOnly, Labels, WorkerLabels
  <2> QED
    BY <1>t, <2>1
<1> QED
  BY <1>1, <1>2, <1>3, <1>4, <1>5, <1>6, HookKeepsOwnObject DEF Next, StreamlineCode

LEMMA HookKeepsSettings ==
  ASSUME ~May("game_set"), TypeOK, IntactInv, OwnObject, SettingsInv,
         NEW t \in Threads, HookStep(t)
  PROVE  SettingsInv'
<1> USE DEF SettingsInv, Choosing, callVars
<1>t. /\ pc \in [Threads -> Labels] /\ options \in [AllObjects -> OptionsType]
      /\ arg \in [Threads -> AllObjects] /\ Worker \in Threads
  BY DEF TypeOK
<1>l. \A u, v \in Threads :
        /\ pc[u] \in {"save", "override", "call", "restore"}
        /\ pc[v] \in {"save", "override", "call", "restore"}
        => u = v
  BY DEF IntactInv, LockInv, InsideLabels, HookLabels
<1>1. CASE EnterHook(t)
  BY <1>1, <1>t DEF EnterHook
<1>2. CASE SaveOptions(t)
  <2>1. \A u \in Threads : u # t => ~Choosing(u)
    BY <1>2, <1>l DEF SaveOptions
  <2>2. /\ options'[Cache].settings = options[arg[t]].settings
        /\ options'[arg[t]].settings = options[arg[t]].settings
    BY <1>2, <1>t DEF SaveOptions, CacheOptions
  <2>3. t = Worker => options'[Cache].settings = options[Cache].settings
    BY <2>2 DEF OwnObject
  <2>4. t \in GameThreads => Choosing(t)'
    BY <1>2, <1>t DEF SaveOptions
  <2> QED
    BY <1>2, <1>t, <2>1, <2>2, <2>3, <2>4 DEF SaveOptions
<1>3. CASE OverrideLimit(t)
  <2>1. \A o \in AllObjects : options'[o].settings = options[o].settings
    BY <1>3, <1>t DEF OverrideLimit, OptionsType
  <2> QED
    BY <1>3, <1>t, <2>1 DEF OverrideLimit
<1>4. CASE CallOriginal(t)
  <2>1. \A u \in Threads : u # t => ~Choosing(u)
    BY <1>4, <1>l DEF CallOriginal
  <2>2. \/ driver' = driver /\ t = Worker
        \/ driver'.settings = options[arg[t]].settings
    <3>1. PICK ok \in Outcomes(IF t = Worker THEN "set" ELSE "game_set") :
            driver' = IF ok THEN Accepted(arg[t], "hook") ELSE driver
      BY <1>4 DEF CallOriginal
    <3>2. t # Worker => ok = TRUE
      BY <3>1 DEF Outcomes
    <3> QED
      BY <3>1, <3>2 DEF Accepted, Outcomes
  <2>3. driver'.settings = options[Cache].settings \/ (driver' = driver /\ t = Worker)
    BY <1>4, <2>2 DEF CallOriginal
  <2> QED
    BY <1>4, <1>t, <2>1, <2>3, StreamlineAssumption DEF CallOriginal
<1>5. CASE RestoreOptions(t)
  <2>1. \A o \in AllObjects : options'[o].settings = options[o].settings
    BY <1>5, <1>t DEF RestoreOptions, OptionsType
  <2>2. \A u \in Threads : ~Choosing(u)
    BY <1>5, <1>l DEF RestoreOptions
  <2>3. \A u \in Threads : ~Choosing(u)'
    BY <1>5, <1>t, <2>2 DEF RestoreOptions
  <2> QED
    BY <1>5, <1>t, <2>1, <2>2, <2>3 DEF RestoreOptions
<1> QED
  BY <1>1, <1>2, <1>3, <1>4, <1>5 DEF HookStep

LEMMA NextSettings ==
  ASSUME ~May("game_set")
  PROVE  TypeOK /\ IntactInv /\ OwnObject /\ SettingsInv /\ [Next]_vars => SettingsInv'
<1> SUFFICES ASSUME TypeOK, IntactInv, OwnObject, SettingsInv, [Next]_vars
             PROVE  SettingsInv'
  OBVIOUS
<1> USE DEF SettingsInv, Choosing, callVars
<1>t. /\ pc \in [Threads -> Labels] /\ arg \in [Threads -> AllObjects]
      /\ Worker \in Threads /\ Worker \notin GameThreads
  BY StreamlineAssumption DEF TypeOK
<1>1. CASE UNCHANGED vars
  BY <1>1 DEF vars, vars_streamline
<1>2. ASSUME NEW t \in GameThreads, GameStep(t) PROVE SettingsInv'
  <2>1. CASE GameDirect(t)
    BY <2>1, <1>t DEF GameDirect, Accepted
  <2>2. ASSUME NEW o \in Objects, GameCall(t, o) PROVE SettingsInv'
    BY <2>2, <1>t DEF GameCall
  <2> QED
    BY <1>2, <2>1, <2>2 DEF GameStep
<1>m. ASSUME UNCHANGED <<options, driver, arg>>,
             \/ UNCHANGED pc
             \/ \E label \in Labels \ {"override", "call"} :
                  pc' = [pc EXCEPT ![Worker] = label] /\ ~Choosing(Worker)
      PROVE SettingsInv'
  BY <1>t, <1>m
<1>3. CASE InstallStep(config.off) \/ GetFrameGenerationState \/ StreamlineChanges
  BY <1>3, <1>m DEF InstallStep, FindReflex, InitializeMinHook, PrepareHook, CreateHook,
     EnableHook, EnableHookFails, GetFrameGenerationState, StreamlineChanges, Labels,
     WorkerLabels
<1>4. CASE SetReflexFpsLimit(target_fps)
  BY <1>4, <1>t DEF SetReflexFpsLimit
<1>5. CASE RtssCode
  BY <1>5, <1>m DEF RtssCode, RtssChanges, RtssStep, Initialize, ProfileNameFails,
     LoadProfile, SetDenominator, SetLimit, SetPropertyFails, SaveProfile,
     UpdateProfiles, Return, RtssUnchanged, vars_streamline, Labels, WorkerLabels
<1>6. CASE PluginCode
  BY <1>6, <1>m DEF PluginCode, on_mod_load, ReadConfig, RetryInstall, ChooseTarget,
     SetReturned, Wake, set_fps_limit, WorkerOnly, Labels, WorkerLabels
<1> QED
  BY <1>1, <1>2, <1>3, <1>4, <1>5, <1>6, HookKeepsSettings DEF Next, StreamlineCode

(* The worker leaves the call of the trampoline in no other step.             *)
LEMMA WorkerDelivers ==
  ASSUME TypeOK, OwnObject, [Next]_vars, At(Worker, "call"), ~At(Worker, "call")'
  PROVE  /\ CallOriginal(Worker)
         /\ result' => /\ driver'.next = "null"
                       /\ driver'.settings = options[Cache].settings
<1>t. /\ pc \in [Threads -> Labels] /\ Worker \in Threads /\ Worker \notin GameThreads
  BY StreamlineAssumption DEF TypeOK
<1>1. ~UNCHANGED pc
  OBVIOUS
<1>2. StreamlineCode
  <2>1. ~PluginCode
    BY DEF PluginCode, on_mod_load, ReadConfig, RetryInstall, ChooseTarget,
           SetReturned, Wake
  <2>2. ~RtssCode
    BY <1>1 DEF RtssCode, RtssChanges, RtssStep, Initialize, ProfileNameFails,
      LoadProfile, SetDenominator, SetLimit, SetPropertyFails, SaveProfile,
      UpdateProfiles, vars_streamline
  <2> QED
    BY <1>1, <2>1, <2>2 DEF Next, vars, vars_streamline
<1>3. ~\E t \in GameThreads : GameStep(t)
  BY <1>t DEF GameStep, GameDirect, GameCall
<1>4. ~(InstallStep(config.off) \/ SetReflexFpsLimit(target_fps)
        \/ GetFrameGenerationState \/ StreamlineChanges)
  BY <1>1 DEF InstallStep, FindReflex, InitializeMinHook, PrepareHook, CreateHook,
     EnableHook, EnableHookFails, SetReflexFpsLimit, GetFrameGenerationState,
     StreamlineChanges
<1>5. PICK t \in Threads : HookStep(t)
  BY <1>2, <1>3, <1>4 DEF StreamlineCode
<1>6. t = Worker
  BY <1>t, <1>5 DEF HookStep, EnterHook, SaveOptions, OverrideLimit, CallOriginal,
                    RestoreOptions
<1>7. CallOriginal(Worker)
  BY <1>5, <1>6 DEF HookStep, EnterHook, SaveOptions, OverrideLimit, RestoreOptions
<1>8. result' => driver' = Accepted(Cache, "hook")
  BY <1>7 DEF CallOriginal, OwnObject
<1> QED
  BY <1>7, <1>8 DEF Accepted, OwnObject

(* A change of the limit while the game runs never passes a chain of the game *)
(* to Streamline a second time, whatever fails (set_reflex_fps_limit).        *)
THEOREM WorkerPassesNoChain ==
  Spec => [][At(Worker, "call") /\ ~At(Worker, "call")' /\ result'
               => driver'.next = "null"]_vars
<1>1. Init => OwnObject
  BY InitReplay
<1>2. TypeOK /\ OwnObject /\ [Next]_vars => OwnObject'
  BY NextOwnObject
<1>3. TypeOK /\ OwnObject /\ [Next]_vars
      => [At(Worker, "call") /\ ~At(Worker, "call")' /\ result'
            => driver'.next = "null"]_vars
  BY WorkerDelivers
<1> QED
  BY <1>1, <1>2, <1>3, TypeCorrect, PTL DEF Spec

(* If Streamline refuses no call of the game, a change of the limit leaves    *)
(* every other setting that the game made in force (last_options). When it    *)
(* does refuse one, the mod repeats settings that never were in force.        *)
THEOREM WorkerRepeatsTheGame ==
  ASSUME ~May("game_set")
  PROVE  Spec => WorkerReplaysGameOptions
<1>1. Init => IntactInv /\ OwnObject /\ SettingsInv
  BY InitIntact, InitReplay
<1>2. /\ TypeOK /\ TypeOK' /\ IntactInv /\ OwnObject /\ SettingsInv /\ [Next]_vars
      => IntactInv' /\ OwnObject' /\ SettingsInv'
  BY NextIntact, NextOwnObject, NextSettings
<1>3. /\ TypeOK /\ IntactInv /\ OwnObject /\ SettingsInv /\ [Next]_vars
      => [At(Worker, "call") /\ ~At(Worker, "call")' /\ result' =>
            /\ driver'.next = "null"
            /\ driver.via = "hook" => driver'.settings = driver.settings]_vars
  <2> SUFFICES ASSUME TypeOK, IntactInv, OwnObject, SettingsInv, [Next]_vars,
                      At(Worker, "call"), ~At(Worker, "call")', result'
               PROVE  /\ driver'.next = "null"
                      /\ driver.via = "hook" => driver'.settings = driver.settings
    OBVIOUS
  <2>1. \A t \in GameThreads : ~Choosing(t)
    BY StreamlineAssumption
    DEF IntactInv, LockInv, InsideLabels, HookLabels, Choosing
  <2> QED
    BY <2>1, WorkerDelivers DEF SettingsInv
<1> QED
  BY <1>1, <1>2, <1>3, TypeCorrect, PTL DEF Spec, WorkerReplaysGameOptions

-------------------------------------------------------------------------------
(* The refinement of LimitedSetter. What the abstract objects hold never      *)
(* changes: an override is hidden by the limit that its call has saved.       *)
GameLimitsFixed == GameLimits = [o \in Objects |-> GameOptions[o].limit]

LEMMA LimitsAreTheGames == TypeOK /\ IntactInv => GameLimitsFixed
<1> SUFFICES ASSUME TypeOK, IntactInv, NEW o \in Objects
             PROVE  GameLimits[o] = GameOptions[o].limit
  BY DEF GameLimits, GameLimitsFixed
<1>1. CASE UsedBy(o) = {}
  <2>1. options[o] = GameOptions[o]
    BY <1>1 DEF UsedBy, IntactInv, GameOptionsIntact
  <2> QED
    BY <1>1, <2>1 DEF GameLimits
<1>2. CASE UsedBy(o) # {}
  <2> DEFINE u == CHOOSE t \in UsedBy(o) : TRUE
  <2>1. u \in UsedBy(o)
    BY <1>2
  <2>2. GameLimits[o] = original_frame_limit_us[u]
    BY <1>2 DEF GameLimits
  <2> QED
    BY <2>1, <2>2
    DEF UsedBy, Overriding, IntactInv, SavedInv, InsideLabels, HookLabels
<1> QED
  BY <1>1, <1>2

LEMMA InitRefines == Init => Setter!Init
<1> SUFFICES ASSUME Init PROVE Setter!Init
  OBVIOUS
<1>1. TypeOK /\ IntactInv
  BY InitType, InitIntact
<1>2. GameLimits \in [Objects -> Nat]
  BY <1>1, LimitsAreTheGames, StreamlineAssumption DEF GameLimitsFixed, OptionsType
<1>3. Held = [t \in Threads |-> {}]
  BY DEF Init, InitStreamline, Held, Overriding
<1>4. frame_limit_us \in Nat /\ LastAccepted.via = "none"
  BY DEF Init, InitStreamline, LastAccepted
<1> QED
  BY <1>2, <1>3, <1>4 DEF Setter!Init

Fixed == GameLimitsFixed /\ GameLimitsFixed'

(* The steps of a call in the hook.                                           *)
LEMMA HookRefines ==
  ASSUME TypeOK, IntactInv, Fixed, NEW t \in Threads, HookStep(t)
  PROVE  [Setter!Next]_<<frame_limit_us, GameLimits, Held, LastAccepted>>
<1>t. /\ pc \in [Threads -> Labels] /\ options \in [AllObjects -> OptionsType]
      /\ arg \in [Threads -> AllObjects]
  BY DEF TypeOK
<1>f. UNCHANGED GameLimits
  BY DEF Fixed, GameLimitsFixed
<1>l. \A u \in Threads :
        u # t /\ pc[t] \in {"save", "override", "call", "restore"} => ~Overriding(u)
  BY DEF IntactInv, LockInv, InsideLabels, HookLabels, Overriding
<1>1. CASE EnterHook(t)
  <2>1. UNCHANGED Held
    BY <1>1, <1>t DEF EnterHook, Held, Overriding, callVars
  <2> QED
    BY <1>1, <1>f, <2>1 DEF EnterHook, LastAccepted
<1>2. CASE SaveOptions(t)
  <2>1. \A u \in Threads : ~Overriding(u) /\ ~Overriding(u)'
    BY <1>2, <1>t, <1>l DEF SaveOptions, Overriding
  <2>2. UNCHANGED Held
    BY <2>1 DEF Held
  <2> QED
    BY <1>2, <1>f, <2>2 DEF SaveOptions, LastAccepted
<1>3. CASE OverrideLimit(t)
  <2>1. \A u \in Threads : ~Overriding(u) /\ (u # t => ~Overriding(u)')
    BY <1>3, <1>t, <1>l DEF OverrideLimit, Overriding
  <2>2. options'[arg[t]].limit = frame_limit_us /\ pc'[t] = "call" /\ UNCHANGED arg
    BY <1>3, <1>t DEF OverrideLimit, OptionsType, callVars
  <2>3. Held = [u \in Threads |-> {}]
    BY <2>1 DEF Held
  <2>4. Held' = [Held EXCEPT ![t] = {[limit |-> frame_limit_us, delivered |-> FALSE]}]
    BY <2>1, <2>2, <2>3 DEF Held, Overriding
  <2>5. Setter!Choose(t)
    BY <1>3, <1>f, <2>3, <2>4 DEF Setter!Choose, OverrideLimit, LastAccepted
  <2> QED
    BY <2>5 DEF Setter!Next
<1>4. CASE CallOriginal(t)
  <2>1. \A u \in Threads : u # t => ~Overriding(u) /\ ~Overriding(u)'
    BY <1>4, <1>t, <1>l DEF CallOriginal, Overriding
  <2>2. /\ pc[t] = "call" /\ pc'[t] = "restore"
        /\ UNCHANGED <<options, arg, frame_limit_us>>
    BY <1>4, <1>t DEF CallOriginal, callVars
  <2> DEFINE choice == [limit |-> options[arg[t]].limit, delivered |-> FALSE]
  <2>3. Held[t] = {choice}
    BY <2>2 DEF Held, Overriding
  <2>4. Held' = [Held EXCEPT ![t] = {[limit |-> choice.limit, delivered |-> TRUE]}]
    <3>1. Held'[t] = {[limit |-> options[arg[t]].limit, delivered |-> TRUE]}
      BY <2>2 DEF Held, Overriding
    <3>2. \A u \in Threads : u # t => Held'[u] = {} /\ Held[u] = {}
      BY <2>1 DEF Held
    <3>3. /\ Held = [u \in Threads |-> Held[u]]
          /\ Held' = [u \in Threads |-> Held'[u]]
      BY DEF Held
    <3> QED
      BY <3>1, <3>2, <3>3
  <2>5. LastAccepted' \in {LastAccepted, [limit |-> choice.limit, via |-> "hook"]}
    BY <1>4 DEF CallOriginal, Accepted, LastAccepted
  <2>6. Setter!Deliver(t)
    BY <1>f, <2>2, <2>3, <2>4, <2>5 DEF Setter!Deliver
  <2> QED
    BY <2>6 DEF Setter!Next
<1>5. CASE RestoreOptions(t)
  <2>1. \A u \in Threads : (u # t => ~Overriding(u)) /\ ~Overriding(u)'
    BY <1>5, <1>t, <1>l DEF RestoreOptions, Overriding
  <2>2. Held[t] = {[limit |-> options[arg[t]].limit, delivered |-> TRUE]}
    BY <1>5 DEF RestoreOptions, Held, Overriding
  <2>3. Held' = [Held EXCEPT ![t] = {}]
    BY <2>1 DEF Held
  <2>4. Setter!Finish(t)
    BY <1>5, <1>f, <2>2, <2>3 DEF Setter!Finish, RestoreOptions, LastAccepted
  <2> QED
    BY <2>4 DEF Setter!Next
<1> QED
  BY <1>1, <1>2, <1>3, <1>4, <1>5 DEF HookStep

(* Only the calls that pass the hook by are seen by the driver besides.       *)
LEMMA GameRefines ==
  ASSUME TypeOK, OwnObject, Fixed, NEW t \in GameThreads, GameStep(t)
  PROVE  [Setter!Next]_<<frame_limit_us, GameLimits, Held, LastAccepted>>
<1>t. /\ pc \in [Threads -> Labels] /\ arg \in [Threads -> AllObjects]
  BY DEF TypeOK
<1>f. UNCHANGED GameLimits
  BY DEF Fixed, GameLimitsFixed
<1>1. CASE GameDirect(t)
  <2> DEFINE o == arg[t]
  <2>1. o \in Objects
    BY <1>1 DEF GameDirect, OwnObject
  <2>2. UNCHANGED <<Held, frame_limit_us>>
    BY <1>1, <1>t DEF GameDirect, Held, Overriding
  <2>3. LastAccepted' = [limit |-> options[o].limit, via |-> "direct"]
    BY <1>1 DEF GameDirect, Accepted, LastAccepted
  <2>4. CASE UsedBy(o) = {}
    <3>1. options[o].limit = GameLimits[o]
      BY <2>1, <2>4 DEF GameLimits
    <3> QED
      BY <1>f, <2>1, <2>2, <2>3, <3>1 DEF Setter!Next, Setter!PassBy
  <2>5. CASE UsedBy(o) # {}
    <3>1. PICK u \in Threads : Overriding(u) /\ arg[u] = o
      BY <2>5 DEF UsedBy
    <3>2. \E choice \in Held[u] : choice.limit = options[o].limit
      BY <3>1 DEF Held
    <3>3. options[o].limit \in {choice.limit : choice \in UNION {Held[v] : v \in Threads}}
      BY <3>2
    <3> QED
      BY <1>f, <2>2, <2>3, <3>3 DEF Setter!Next, Setter!PassBy
  <2> QED
    BY <2>4, <2>5
<1>2. ASSUME NEW o \in Objects, GameCall(t, o) PROVE UNCHANGED Held
  <2>1. \A u \in Threads :
          /\ Overriding(u)' <=> Overriding(u)
          /\ Overriding(u) => pc'[u] = pc[u] /\ arg'[u] = arg[u]
    BY <1>2, <1>t DEF GameCall, Overriding
  <2> QED
    BY <1>2, <2>1 DEF GameCall, Held
<1>3. ASSUME NEW o \in Objects, GameCall(t, o)
      PROVE  UNCHANGED <<frame_limit_us, LastAccepted>>
  BY <1>3 DEF GameCall, LastAccepted
<1> QED
  BY <1>1, <1>2, <1>3, <1>f DEF GameStep

(* Every other step is one of the worker outside the hook: at most it sets    *)
(* the limit.                                                                 *)
LEMMA OutsideRefines ==
  ASSUME TypeOK, Fixed, UNCHANGED <<options, driver>>, frame_limit_us' \in Nat,
         NEW label \in Labels, ~Overriding(Worker), label \notin {"call", "restore"},
         pc' = [pc EXCEPT ![Worker] = label],
         \A u \in Threads \ {Worker} : arg'[u] = arg[u]
  PROVE  [Setter!Next]_<<frame_limit_us, GameLimits, Held, LastAccepted>>
<1>1. UNCHANGED <<GameLimits, LastAccepted>>
  BY DEF Fixed, GameLimitsFixed, LastAccepted
<1>2. \A u \in Threads :
        /\ Overriding(u)' <=> Overriding(u)
        /\ Overriding(u) => pc'[u] = pc[u] /\ arg'[u] = arg[u]
  BY DEF TypeOK, Overriding
<1>3. UNCHANGED Held
  BY <1>2 DEF Held
<1>4. Setter!SetLimit
  BY <1>1, <1>3 DEF Setter!SetLimit
<1> QED
  BY <1>4 DEF Setter!Next

LEMMA NextRefines ==
  TypeOK /\ TypeOK' /\ IntactInv /\ OwnObject /\ Fixed /\ [Next]_vars
    => [Setter!Next]_<<frame_limit_us, GameLimits, Held, LastAccepted>>
<1> SUFFICES ASSUME TypeOK, TypeOK', IntactInv, OwnObject, Fixed, [Next]_vars
             PROVE  [Setter!Next]_<<frame_limit_us, GameLimits, Held, LastAccepted>>
  OBVIOUS
<1> USE DEF Overriding
<1>t. /\ arg \in [Threads -> AllObjects] /\ frame_limit_us' \in Nat
      /\ frame_limit_us \in Nat
  BY DEF TypeOK
<1>s. ASSUME UNCHANGED <<options, driver, pc, arg, frame_limit_us>>
      PROVE  UNCHANGED <<frame_limit_us, GameLimits, Held, LastAccepted>>
  BY <1>s DEF Fixed, GameLimitsFixed, Held, LastAccepted
<1>1. CASE UNCHANGED vars \/ StreamlineChanges \/ RtssChanges
  BY <1>1, <1>s DEF vars, vars_streamline, callVars, StreamlineChanges, RtssChanges
<1>2. CASE InstallStep(config.off) \/ GetFrameGenerationState
  <2>1. /\ UNCHANGED <<options, driver, arg>> /\ ~Overriding(Worker)
        /\ \E label \in Labels \ {"call", "restore"} : pc' = [pc EXCEPT ![Worker] = label]
    BY <1>2 DEF InstallStep, FindReflex, InitializeMinHook, PrepareHook, CreateHook,
                EnableHook, EnableHookFails, GetFrameGenerationState, callVars, Labels,
                WorkerLabels
  <2> QED
    BY <1>t, <2>1, OutsideRefines
<1>3. CASE SetReflexFpsLimit(target_fps)
  <2>1. /\ UNCHANGED <<options, driver>> /\ ~Overriding(Worker)
        /\ \A u \in Threads \ {Worker} : arg'[u] = arg[u]
        /\ pc' = [pc EXCEPT ![Worker] = "enter"] /\ "enter" \in Labels
    BY <1>t, <1>3 DEF SetReflexFpsLimit, Labels, HookLabels
  <2> QED
    BY <1>t, <2>1, OutsideRefines
<1>4. CASE RtssStep(target_fps)
  <2>1. /\ UNCHANGED <<options, driver, arg>> /\ ~Overriding(Worker)
        /\ \E label \in Labels \ {"call", "restore"} : pc' = [pc EXCEPT ![Worker] = label]
    BY <1>4 DEF RtssStep, Initialize, ProfileNameFails, LoadProfile, SetDenominator,
      SetLimit, SetPropertyFails, SaveProfile, UpdateProfiles, Return, RtssUnchanged,
      callVars, Labels, WorkerLabels
  <2> QED
    BY <1>t, <2>1, OutsideRefines
<1>5. CASE PluginCode
  <2>1. /\ UNCHANGED <<options, driver, arg>> /\ ~Overriding(Worker)
        /\ \E label \in Labels \ {"call", "restore"} : pc' = [pc EXCEPT ![Worker] = label]
    BY <1>5 DEF PluginCode, on_mod_load, ReadConfig, RetryInstall, ChooseTarget,
      SetReturned, Wake, set_fps_limit, WorkerOnly, callVars, Labels, WorkerLabels
  <2> QED
    BY <1>t, <2>1, OutsideRefines
<1> QED
  BY <1>1, <1>2, <1>3, <1>4, <1>5, HookRefines, GameRefines
  DEF Next, StreamlineCode, RtssCode

(* The hook, its installation and the worker implement LimitedSetter: each    *)
(* intercepted call delivers the limit that was set when it chose, one call   *)
(* at a time, and hides its override from the game                            *)
(* (hooked_reflex_set_options).                                               *)
THEOREM HookImplementsLimitedSetter == Spec => ImplementsLimitedSetter
<1>1. Init => Setter!Init /\ IntactInv /\ OwnObject
  BY InitRefines, InitIntact, InitReplay
<1>2. /\ TypeOK /\ TypeOK' /\ IntactInv /\ OwnObject /\ [Next]_vars
      => IntactInv' /\ OwnObject'
  BY NextIntact, NextOwnObject
<1>3. TypeOK /\ IntactInv => GameLimitsFixed
  BY LimitsAreTheGames
<1>4. /\ TypeOK /\ TypeOK' /\ IntactInv /\ OwnObject /\ GameLimitsFixed
      /\ GameLimitsFixed' /\ [Next]_vars
      => [Setter!Next]_<<frame_limit_us, GameLimits, Held, LastAccepted>>
  BY NextRefines DEF Fixed
<1> QED
  BY <1>1, <1>2, <1>3, <1>4, TypeCorrect, PTL
  DEF Spec, ImplementsLimitedSetter, Setter!Spec

-------------------------------------------------------------------------------
(* The limiter that config.ini did not choose.                                *)
NeverReflex ==
  minhook = "uninitialized" /\ frame_limit_us = 0 /\ driver.via # "hook"

NeverRtss ==
  /\ working.rate = InitialRate /\ disk.rate = InitialRate /\ applied.rate = InitialRate

OtherLimiterUntouched ==
  /\ config.limiter = "rtss" => NeverReflex
  /\ config.limiter = "reflex" => NeverRtss

UntouchedInv ==
  /\ pc[Worker] \in {"load", "config"} \/ config.limiter = "rtss" => NeverReflex
  /\ pc[Worker] \in {"load", "config"} \/ config.limiter = "reflex" => NeverRtss

LEMMA StreamlineKeepsUntouched ==
  ASSUME TypeOK, ReadyInv, OneLimiter, OneLimiter', UntouchedInv, StreamlineCode,
         UNCHANGED <<vars_rtss, vars_plugin>>
  PROVE  UntouchedInv'
<1> USE DEF UntouchedInv
<1>t. config.limiter \in {"reflex", "rtss"}
  BY DEF TypeOK
<1>1. UNCHANGED <<config, working, disk, applied>>
  BY DEF vars_plugin, vars_rtss
<1>2. pc'[Worker] \in {"load", "config"} => pc'[Worker] = pc[Worker]
  BY StreamlineMovesWorker
<1>3. NeverRtss' <=> NeverRtss
  BY <1>1 DEF NeverRtss
<1>4. ASSUME pc[Worker] \in {"load", "config"} \/ config.limiter = "rtss", NeverReflex
      PROVE  frame_limit_us' = 0 /\ driver'.via # "hook"
  <2>1. /\ \A t \in Threads : pc[t] \notin HookLabels \cup {"set_reflex"}
        /\ pc[Worker] \notin InstallLabels
    BY <1>4 DEF NeverReflex, ReadyInv, InstallLabels
  <2>2. ~\E t \in Threads : HookStep(t)
    BY <2>1 DEF HookStep, EnterHook, SaveOptions, OverrideLimit, CallOriginal,
                RestoreOptions, HookLabels
  <2>3. ~InstallStep(config.off) /\ ~SetReflexFpsLimit(target_fps)
    BY <2>1 DEF InstallStep, FindReflex, InitializeMinHook, PrepareHook, CreateHook,
                EnableHook, EnableHookFails, InstallLabels, SetReflexFpsLimit
  <2>4. ASSUME NEW t \in GameThreads, GameStep(t)
        PROVE  frame_limit_us' = 0 /\ driver'.via # "hook"
    BY <1>4, <2>4 DEF GameStep, GameDirect, GameCall, Accepted, NeverReflex
  <2>5. CASE GetFrameGenerationState \/ StreamlineChanges
    BY <1>4, <2>5 DEF GetFrameGenerationState, StreamlineChanges, NeverReflex
  <2> QED
    BY <2>2, <2>3, <2>4, <2>5 DEF StreamlineCode
<1>5. pc'[Worker] \in {"load", "config"} \/ config.limiter = "rtss" => minhook' = "uninitialized"
  BY <1>1 DEF OneLimiter
<1> QED
  BY <1>t, <1>1, <1>2, <1>3, <1>4, <1>5 DEF NeverReflex

LEMMA RtssKeepsUntouched ==
  ASSUME TypeOK, ReadyInv, UntouchedInv, RtssCode, UNCHANGED vars_plugin
  PROVE  UntouchedInv'
<1> USE DEF UntouchedInv
<1>t. pc \in [Threads -> Labels] /\ disk \in ProfileType
  BY DEF TypeOK
<1>1. config' = config
  BY DEF vars_plugin
<1>2. CASE RtssChanges
  <2>1. UNCHANGED <<pc, minhook, frame_limit_us, driver, working>>
    BY <1>2 DEF RtssChanges, RtssInjects, UserEdits, vars_streamline, hookVars
  <2>2. /\ disk'.rate = disk.rate
        /\ applied' = applied \/ applied'.rate = disk.rate
    BY <1>2, <1>t DEF RtssChanges, RtssInjects, UserEdits, ProfileType
  <2> QED
    BY <1>1, <2>1, <2>2 DEF NeverReflex, NeverRtss
<1>3. CASE RtssStep(target_fps)
  <2> USE DEF RtssStep, Initialize, ProfileNameFails, LoadProfile, SetDenominator, SetLimit,
              SetPropertyFails, SaveProfile, UpdateProfiles, Return
  <2>1. pc[Worker] \in RtssLabels /\ config.limiter = "rtss"
    BY <1>3 DEF ReadyInv, RtssLabels
  <2>2. pc'[Worker] \in RtssLabels \cup {"set_returned"}
    BY <1>3, <1>t DEF RtssLabels
  <2>3. UNCHANGED <<minhook, frame_limit_us, driver>>
    BY <1>3 DEF RtssUnchanged, hookVars
  <2> QED
    BY <1>1, <2>1, <2>2, <2>3 DEF NeverReflex, RtssLabels
<1> QED
  BY <1>2, <1>3 DEF RtssCode

LEMMA PluginKeepsUntouched ==
  ASSUME TypeOK, UntouchedInv, PluginCode
  PROVE  UntouchedInv'
<1> USE DEF UntouchedInv
<1>t. pc \in [Threads -> Labels]
  BY DEF TypeOK
<1>1. UNCHANGED <<minhook, frame_limit_us, driver, working, disk, applied>>
  BY DEF PluginCode, on_mod_load, ReadConfig, RetryInstall, ChooseTarget, SetReturned, Wake,
         WorkerOnly, hookVars, vars_rtss
<1>2. (NeverReflex' <=> NeverReflex) /\ (NeverRtss' <=> NeverRtss)
  BY <1>1 DEF NeverReflex, NeverRtss
<1>3. CASE on_mod_load
  BY <1>2, <1>3, <1>t DEF on_mod_load, WorkerOnly
<1>4. CASE ReadConfig
  BY <1>2, <1>4, <1>t DEF ReadConfig
<1>5. CASE RetryInstall \/ ChooseTarget \/ SetReturned \/ Wake
  <2>1. config' = config /\ pc'[Worker] \notin {"load", "config"}
    BY <1>5, <1>t DEF RetryInstall, ChooseTarget, SetReturned, Wake, WorkerOnly, set_fps_limit
  <2> QED
    BY <1>2, <2>1
<1> QED
  BY <1>3, <1>4, <1>5 DEF PluginCode

LEMMA NextUntouched ==
  TypeOK /\ ReadyInv /\ OneLimiter /\ OneLimiter' /\ UntouchedInv /\ [Next]_vars
    => UntouchedInv'
<1> SUFFICES ASSUME TypeOK, ReadyInv, OneLimiter, OneLimiter', UntouchedInv, [Next]_vars
             PROVE  UntouchedInv'
  OBVIOUS
<1>1. CASE UNCHANGED vars
  BY <1>1 DEF vars, vars_streamline, vars_rtss, vars_plugin, hookVars, UntouchedInv,
              NeverReflex, NeverRtss
<1> QED
  BY <1>1, StreamlineKeepsUntouched, RtssKeepsUntouched, PluginKeepsUntouched DEF Next

(* config.ini chooses one limiter, and the other one is never touched: with   *)
(* RTSS no hook is installed and no call of the game is intercepted; with     *)
(* Reflex the rate in the profile stays the user's, on disk and in force      *)
(* (set_fps_limit, worker).                                                   *)
THEOREM OnlyTheChosenLimiter == Spec => []OtherLimiterUntouched
<1>1. Init => UntouchedInv
  BY DEF Init, InitStreamline, InitRtss, UntouchedInv, NeverReflex, NeverRtss
<1>2. TypeOK /\ ReadyInv /\ OneLimiter /\ OneLimiter' /\ UntouchedInv /\ [Next]_vars
        => UntouchedInv'
  BY NextUntouched
<1>3. UntouchedInv => OtherLimiterUntouched
  BY DEF UntouchedInv, OtherLimiterUntouched
<1> QED
  BY <1>1, <1>2, <1>3, InForceInvariant, TypeCorrect, PTL DEF Spec

HookStaysEnabled == minhook = "enabled" => minhook' = "enabled"

(* A hook that was enabled stays enabled: no attempt of the installation, and *)
(* so no failing one that removes the hook, comes after one that succeeded    *)
(* (worker, install_reflex_hook).                                             *)
THEOREM TheHookStaysEnabled == Spec => [][HookStaysEnabled]_vars
<1>1. TypeOK /\ ReadyInv /\ OneLimiter /\ [Next]_vars => [HookStaysEnabled]_vars
  <2> SUFFICES ASSUME TypeOK, ReadyInv, OneLimiter, Next, minhook = "enabled"
               PROVE  minhook' = "enabled"
    BY DEF HookStaysEnabled
  <2>1. CASE StreamlineCode /\ UNCHANGED <<vars_rtss, vars_plugin>>
    <3>1. pc[Worker] \notin InstallLabels
      BY DEF ReadyInv, BeforeLoop
    <3> QED
      BY <2>1, <3>1, StreamlineMovesWorker
  <2>2. CASE RtssCode
    BY <2>2 DEF RtssCode, RtssStep, Initialize, ProfileNameFails, LoadProfile, SetDenominator,
                SetLimit, SetPropertyFails, SaveProfile, UpdateProfiles, RtssChanges,
                RtssUnchanged, hookVars, vars_streamline
  <2>3. CASE PluginCode
    BY <2>3 DEF PluginCode, on_mod_load, ReadConfig, RetryInstall, ChooseTarget, SetReturned,
                Wake, WorkerOnly, hookVars
  <2> QED
    BY <2>1, <2>2, <2>3 DEF Next
<1> QED
  BY <1>1, InForceInvariant, TypeCorrect, PTL DEF Spec

OneCallAtATime ==
  \A t \in Threads :
    /\ set_options_lock = t => pc[t] \in InsideLabels
    /\ \A u \in Threads : pc[t] \in InsideLabels /\ pc[u] \in InsideLabels => t = u

(* From the save of the options to their restoration there is at most one     *)
(* call, of the game or of the worker, and the lock is its own: whoever waits *)
(* for the lock waits for a thread that waits for nothing                     *)
(* (hooked_reflex_set_options).                                               *)
THEOREM CallsAreSerial == Spec => []OneCallAtATime
<1>1. IntactInv => OneCallAtATime
  BY DEF IntactInv, LockInv, OneCallAtATime
<1> QED
  BY <1>1, InForceInvariant, PTL

(* What LimitedSetter gives in return: the limit that reaches the driver      *)
(* through the hook is that of the only call between choice and end.          *)
DeliveredAlone ==
  LastAccepted' # LastAccepted /\ driver'.via = "hook"
    => \E t \in Threads :
         /\ Overriding(t) /\ driver'.limit = options[arg[t]].limit
         /\ \A u \in Threads \ {t} : ~Overriding(u)

(* No call that chose an older limit is under way when a limit reaches the    *)
(* driver, so none can bring an older one back after it                       *)
(* (hooked_reflex_set_options, set_reflex_fps_limit).                         *)
THEOREM LimitsArriveInOrder == Spec => [][DeliveredAlone]_vars
<1>1. ASSUME IntactInv, [Setter!Next]_<<frame_limit_us, GameLimits, Held, LastAccepted>>,
             LastAccepted' # LastAccepted, driver'.via = "hook"
      PROVE  \E t \in Threads :
               /\ Overriding(t) /\ driver'.limit = options[arg[t]].limit
               /\ \A u \in Threads \ {t} : ~Overriding(u)
  <2>1. ~Setter!PassBy
    BY <1>1 DEF Setter!PassBy, LastAccepted
  <2>2. PICK t \in Threads : Setter!Deliver(t)
    BY <1>1, <2>1
    DEF Setter!Next, Setter!SetLimit, Setter!GameWrites, Setter!Choose, Setter!Finish
  <2>3. PICK choice \in Held[t] : LastAccepted' = [limit |-> choice.limit, via |-> "hook"]
    BY <1>1, <2>2 DEF Setter!Deliver
  <2>4. Overriding(t) /\ choice.limit = options[arg[t]].limit
    BY <2>3 DEF Held
  <2>5. driver'.limit = options[arg[t]].limit
    BY <2>3, <2>4 DEF LastAccepted
  <2>6. \A u \in Threads \ {t} : ~Overriding(u)
    BY <1>1, <2>4 DEF IntactInv, LockInv, Overriding, InsideLabels, HookLabels
  <2> QED
    BY <2>4, <2>5, <2>6
<1>2. IntactInv /\ [Setter!Next]_<<frame_limit_us, GameLimits, Held, LastAccepted>>
        => [DeliveredAlone]_vars
  BY <1>1 DEF DeliveredAlone
<1> QED
  BY <1>2, HookImplementsLimitedSetter, InForceInvariant, PTL
  DEF ImplementsLimitedSetter, Setter!Spec
===============================================================================
