------------------------- MODULE ReflexFpsLimit_proofs -------------------------
(* Safety of reflex_fps_limit for any number of threads and objects of the    *)
(* game, any text in config.ini and any failing calls.                        *)
EXTENDS ReflexFpsLimit, FrameLimit_proofs

(* The definitions that only group or abbreviate.                             *)
USE DEF At, Goto, May, Threads, AllObjects

-------------------------------------------------------------------------------
(* Type correctness.                                                          *)

LEMMA ConfiguredLimitBounded == configured_limit \in 0..MICROSECONDS
<1>1. read_config_fps(text, DEFAULT_FPS) \in Nat
  BY FrameLimitAssumption DEF read_config_fps, DEFAULT_FPS
<1> QED
  BY <1>1, FrameLimitBounded DEF configured_limit

LEMMA InitType == Init => TypeOK
<1> SUFFICES ASSUME Init PROVE TypeOK
  OBVIOUS
<1>1. frame_limit_us \in 0..MICROSECONDS
  BY SecondInMicroseconds DEF Init
<1>2. /\ pc \in [Threads -> Labels] /\ arg \in [Threads -> AllObjects]
      /\ lock_required \in [Threads -> BOOLEAN]
      /\ original_frame_limit_us \in [Threads -> Nat]
      /\ options \in [AllObjects -> Nat] /\ written \in [AllObjects -> Nat]
  BY DEF Init, Labels
<1>3. driver \in [limit : Nat, via : {"none", "direct", "hook"}]
  BY DEF Init
<1>4. /\ set_options_lock \in Threads \cup {NoThread} /\ hook = "none"
      /\ text \in ConfigTexts
      /\ initial_set_options_complete \in BOOLEAN /\ reflex_ready \in BOOLEAN
      /\ original_set_options \in BOOLEAN
  BY DEF Init
<1> QED
  BY <1>1, <1>2, <1>3, <1>4 DEF TypeOK

LEMMA HookStepType ==
  ASSUME TypeOK, NEW t \in Threads, HookStep(t) \/ EnterLock(t)
  PROVE  TypeOK'
<1> USE SecondInMicroseconds DEF TypeOK, Labels, HookUnchanged, installVars, localVars
<1>1. CASE ReadComplete(t)
  BY <1>1 DEF ReadComplete
<1>2. CASE EnterLock(t)
  BY <1>2 DEF EnterLock
<1>3. CASE SaveLimit(t)
  BY <1>3 DEF SaveLimit
<1>4. CASE OverrideLimit(t)
  BY <1>4 DEF OverrideLimit
<1>5. CASE CallOriginal(t)
  BY <1>5 DEF CallOriginal
<1>6. CASE RestoreLimit(t)
  BY <1>6 DEF RestoreLimit
<1>7. CASE LeaveLock(t)
  BY <1>7 DEF LeaveLock
<1>8. CASE Return(t)
  BY <1>8 DEF Return
<1> QED
  BY <1>1, <1>2, <1>3, <1>4, <1>5, <1>6, <1>7, <1>8 DEF HookStep

LEMMA GameStepType ==
  ASSUME TypeOK, NEW t \in GameThreads, GameCall(t) \/ GameDirect(t)
  PROVE  TypeOK'
<1> USE ReflexFpsLimitAssumption DEF TypeOK, Labels, installVars, hookVars, localVars
<1>1. CASE GameCall(t)
  <2>1. PICK o \in Objects :
          /\ \/ UNCHANGED <<options, written>>
             \/ \E limit \in GameLimits :
                  /\ options' = [options EXCEPT ![o] = limit]
                  /\ written' = [written EXCEPT ![o] = limit]
          /\ arg' = [arg EXCEPT ![t] = o]
    BY <1>1 DEF GameCall
  <2>2. options' \in [AllObjects -> Nat] /\ written' \in [AllObjects -> Nat]
    BY <2>1
  <2>3. arg' \in [Threads -> AllObjects]
    BY <2>1
  <2>4. pc' \in [Threads -> Labels]
    BY <1>1 DEF GameCall
  <2> QED
    BY <1>1, <2>2, <2>3, <2>4 DEF GameCall
<1>2. CASE GameDirect(t)
  BY <1>2 DEF GameDirect
<1> QED
  BY <1>1, <1>2

LEMMA WorkerStepType ==
  ASSUME TypeOK, WorkerStep
  PROVE  TypeOK'
<1> USE DEF TypeOK, Labels, WorkerUnchanged, localVars
<1>1. CASE ReadConfig
  BY <1>1, ConfiguredLimitBounded DEF ReadConfig
<1>2. CASE on_mod_load \/ InitializeMinHook \/ find_hook_target
  BY <1>2 DEF on_mod_load, InitializeMinHook, find_hook_target
<1>3. CASE CreateHook \/ EnableHook
  BY <1>3 DEF CreateHook, EnableHook
<1>4. CASE SetComplete
  BY <1>4 DEF SetComplete
<1> QED
  BY <1>1, <1>2, <1>3, <1>4 DEF WorkerStep

LEMMA NextType == TypeOK /\ [Next]_vars => TypeOK'
<1> SUFFICES ASSUME TypeOK, [Next]_vars PROVE TypeOK'
  OBVIOUS
<1>1. CASE UNCHANGED vars \/ ReflexBecomesReady
  BY <1>1 DEF TypeOK, vars, installVars, hookVars, localVars, ReflexBecomesReady
<1> QED
  BY <1>1, HookStepType, GameStepType, WorkerStepType DEF Next

(* The variables keep their types; the limit never exceeds a second, whatever *)
(* config.ini says (read_config_fps, fps_to_frame_limit_us).                  *)
THEOREM TypeCorrect == Spec => []TypeOK
<1>1. Init => TypeOK
  BY InitType
<1>2. TypeOK /\ [Next]_vars => TypeOK'
  BY NextType
<1> QED
  BY <1>1, <1>2, PTL DEF Spec

-------------------------------------------------------------------------------
(* InitialCallAlone. The worker's call is made before the flag is set, so it  *)
(* owns the lock; so does every call that read the flag before, and a call    *)
(* that found it set cannot overlap with the worker's, which is over.         *)
InsideLabels == {"save", "override", "call", "restore", "unlock"}
HookLabels == InsideLabels \cup {"enter", "lock", "return"}

AloneInv ==
  /\ \A t \in Threads :
       set_options_lock = t <=> pc[t] \in InsideLabels /\ lock_required[t]
  /\ \A t \in Threads : pc[t] \in {"lock", "unlock"} => lock_required[t]
  /\ \A t \in Threads :
       pc[t] \in InsideLabels /\ ~lock_required[t] => initial_set_options_complete
  /\ initial_set_options_complete => At(Worker, "stopped")

LEMMA InitAlone == Init => AloneInv
  BY ReflexFpsLimitAssumption DEF Init, AloneInv, InsideLabels

LEMMA NextAlone == TypeOK /\ AloneInv /\ [Next]_vars => AloneInv'
<1> SUFFICES ASSUME TypeOK, AloneInv, [Next]_vars PROVE AloneInv'
  OBVIOUS
<1> USE ReflexFpsLimitAssumption
    DEF AloneInv, InsideLabels, HookUnchanged, localVars, hookVars
<1>t. /\ pc \in [Threads -> Labels] /\ lock_required \in [Threads -> BOOLEAN]
      /\ initial_set_options_complete \in BOOLEAN
  BY DEF TypeOK
<1>1. CASE UNCHANGED vars \/ ReflexBecomesReady
  BY <1>1 DEF vars, ReflexBecomesReady
<1>2. CASE WorkerStep
  BY <1>2, <1>t DEF WorkerStep, on_mod_load, ReadConfig, InitializeMinHook,
     find_hook_target, CreateHook, EnableHook, SetComplete, WorkerUnchanged
<1>3. ASSUME NEW t \in GameThreads, GameCall(t) \/ GameDirect(t) PROVE AloneInv'
  BY <1>3, <1>t DEF GameCall, GameDirect
<1>4. ASSUME NEW t \in Threads, HookStep(t) \/ EnterLock(t) PROVE AloneInv'
  <2>1. CASE ReadComplete(t)
    BY <2>1, <1>t DEF ReadComplete
  <2>2. CASE EnterLock(t)
    BY <2>2, <1>t DEF EnterLock
  <2>3. CASE SaveLimit(t) \/ OverrideLimit(t) \/ CallOriginal(t)
    BY <2>3, <1>t DEF SaveLimit, OverrideLimit, CallOriginal
  <2>4. CASE RestoreLimit(t)
    BY <2>4, <1>t DEF RestoreLimit
  <2>5. CASE LeaveLock(t)
    BY <2>5, <1>t DEF LeaveLock
  <2>6. CASE Return(t)
    BY <2>6, <1>t DEF Return
  <2> QED
    BY <1>4, <2>1, <2>2, <2>3, <2>4, <2>5, <2>6 DEF HookStep
<1> QED
  BY <1>1, <1>2, <1>3, <1>4 DEF Next

(* However many threads the game calls from, none of its intercepted calls is *)
(* inside Streamline while the worker's first call is (hooked_set_options,    *)
(* initial_set_options_complete).                                             *)
THEOREM InitialCallIsAlone == Spec => []InitialCallAlone
<1>1. Init => AloneInv
  BY InitAlone
<1>2. TypeOK /\ AloneInv /\ [Next]_vars => AloneInv'
  BY NextAlone
<1>3. TypeOK /\ AloneInv => InitialCallAlone
  BY ReflexFpsLimitAssumption DEF TypeOK, AloneInv, InitialCallAlone, InsideLabels
<1> QED
  BY <1>1, <1>2, <1>3, TypeCorrect, PTL DEF Spec

LockIsGivenBack ==
  \A t \in Threads :
    /\ set_options_lock = t => pc[t] \in InsideLabels /\ lock_required[t]
    /\ At(t, "unlock") => set_options_lock = t
    /\ At(t, "return") => set_options_lock # t

(* A call gives the lock back exactly if it took it, although the worker may  *)
(* set the flag between the two: it goes by what it read on entry. So nobody  *)
(* waits for a call that is over or waits itself, and who unlocks is always   *)
(* the owner (hooked_set_options, lock_required).                             *)
THEOREM LockedCallsUnlock == Spec => []LockIsGivenBack
<1>1. Init => AloneInv
  BY InitAlone
<1>2. TypeOK /\ AloneInv /\ [Next]_vars => AloneInv'
  BY NextAlone
<1>3. AloneInv => LockIsGivenBack
  BY DEF AloneInv, LockIsGivenBack, InsideLabels
<1> QED
  BY <1>1, <1>2, <1>3, TypeCorrect, PTL DEF Spec

-------------------------------------------------------------------------------
(* The limit of intercepted calls, as long as the game never gives one object *)
(* to two calls at once. The limit is there before the hook is, and no step   *)
(* of another call touches the object of a call in progress.                  *)
InstallLabels == {"init", "find", "create", "enable"}

InstallInv ==
  /\ At(Worker, "enable") => hook = "created"
  /\ pc[Worker] \in {"load", "config"} \cup InstallLabels => hook # "enabled"
  /\ pc[Worker] \notin {"load", "config", "failed"} \/ hook # "none"
       => frame_limit_us = configured_limit
  /\ hook # "none" => original_set_options
  /\ \A t \in Threads : pc[t] \in HookLabels => hook = "enabled"

OwnInv ==
  /\ arg[Worker] = Initial
  /\ \A t \in GameThreads : ~At(t, "idle") => arg[t] \in Objects
  /\ \A t, u \in GameThreads :
       ~At(t, "idle") /\ ~At(u, "idle") /\ arg[t] = arg[u] => t = u

SavedInv ==
  /\ \A t \in Threads :
       At(t, "override") => original_frame_limit_us[t] = options[arg[t]]
  /\ \A t \in Threads : Overriding(t) => options[arg[t]] = configured_limit
  /\ driver.via = "hook" => driver.limit = configured_limit

LEMMA InitLimited == Init => InstallInv /\ OwnInv /\ SavedInv
  BY ReflexFpsLimitAssumption
  DEF Init, InstallInv, InstallLabels, HookLabels, InsideLabels, OwnInv, SavedInv,
      Overriding

LEMMA NextInstall == TypeOK /\ InstallInv /\ [Next]_vars => InstallInv'
<1> SUFFICES ASSUME TypeOK, InstallInv, [Next]_vars PROVE InstallInv'
  OBVIOUS
<1> USE ReflexFpsLimitAssumption
    DEF InstallInv, InstallLabels, HookLabels, InsideLabels, HookUnchanged, installVars,
        configured_limit
<1>t. pc \in [Threads -> Labels]
  BY DEF TypeOK
<1>1. CASE UNCHANGED vars \/ ReflexBecomesReady
  BY <1>1 DEF vars, ReflexBecomesReady
<1>2. CASE WorkerStep
  BY <1>2, <1>t DEF WorkerStep, on_mod_load, ReadConfig, InitializeMinHook,
     find_hook_target, CreateHook, EnableHook, SetComplete, WorkerUnchanged
<1>3. ASSUME NEW t \in GameThreads, GameCall(t) \/ GameDirect(t) PROVE InstallInv'
  BY <1>3, <1>t DEF GameCall, GameDirect
<1>4. ASSUME NEW t \in Threads, HookStep(t) \/ EnterLock(t) PROVE InstallInv'
  <2>1. /\ UNCHANGED installVars /\ pc[t] \in HookLabels
        /\ \E label \in HookLabels \cup {"complete", "idle"} :
             pc' = [pc EXCEPT ![t] = label]
    BY <1>4 DEF HookStep, ReadComplete, EnterLock, SaveLimit, OverrideLimit,
       CallOriginal, RestoreLimit, LeaveLock, Return
  <2> QED
    BY <1>t, <2>1
<1> QED
  BY <1>1, <1>2, <1>3, <1>4 DEF Next

HookIsPrepared ==
  \A t \in Threads :
    pc[t] \in HookLabels => frame_limit_us = configured_limit /\ original_set_options

(* Whoever enters the hook, at the instant at which it is enabled or later,   *)
(* finds the limit of config.ini and the trampoline, whichever steps of the   *)
(* installation may fail and whoever shares objects (worker,                  *)
(* hooked_set_options).                                                       *)
THEOREM TheHookIsPrepared == Spec => []HookIsPrepared
<1>1. Init => InstallInv
  BY InitLimited
<1>2. TypeOK /\ InstallInv /\ [Next]_vars => InstallInv'
  BY NextInstall
<1>3. InstallInv => HookIsPrepared
  BY DEF InstallInv, HookIsPrepared
<1> QED
  BY <1>1, <1>2, <1>3, TypeCorrect, PTL DEF Spec

(* The frame time of a rate below the clamped ones, as FrameTimeIsNearest     *)
(* asks for it.                                                               *)
LEMMA NearestOfRate ==
  ASSUME NEW fps \in 1..(2 * MICROSECONDS)
  PROVE  Nearest(fps_to_frame_limit_us(fps), fps)
<1> DEFINE us == fps_to_frame_limit_us(fps)
           second == us * fps
<1>1. fps \in Nat
  BY SecondInMicroseconds
<1>2. us \in Nat
  BY <1>1, FrameLimitBounded, SecondInMicroseconds
<1>3. /\ 2 * (fps * us - MICROSECONDS) <= fps
      /\ 2 * (MICROSECONDS - fps * us) <= fps
  BY FrameLimitNearest
<1> HIDE DEF us
<1>4. second \in Nat /\ second = fps * us
  BY <1>1, <1>2
<1> HIDE DEF second
<1>5. 2 * AbsDiff(second, MICROSECONDS) <= fps
  BY <1>1, <1>3, <1>4, SecondInMicroseconds DEF AbsDiff
<1> QED
  BY <1>5 DEF Nearest, second, us

LEMMA ClampedRates ==
  ASSUME NEW fps \in Nat, fps > 2 * MICROSECONDS
  PROVE  fps_to_frame_limit_us(fps) = 1
<1> DEFINE h == fps \div 2
           r == (MICROSECONDS + h) \div fps
<1>1. fps # 0 /\ h \in Nat /\ 2 * h <= fps
  BY Quotient, SecondInMicroseconds
<1>2. r \in Nat /\ fps * r <= MICROSECONDS + h
  BY <1>1, Quotient, SecondInMicroseconds
<1> HIDE DEF h, r
<1>3. r = 0
  <2>1. SUFFICES ASSUME r >= 1 PROVE FALSE
    BY <1>2
  <2>2. fps * r >= fps
    BY <1>1, <1>2, <2>1
  <2> QED
    BY <1>1, <1>2, <2>2, SecondInMicroseconds
<1> QED
  BY <1>1, <1>3 DEF fps_to_frame_limit_us, r, h

(* Whatever is written in config.ini, the limit in use is the nearest frame   *)
(* time to the rate, or to the default where the text is no rate of 32 bits;  *)
(* it is zero for a rate of 0 only (read_config_fps, fps_to_frame_limit_us).  *)
THEOREM FrameTimesAreNearest == Spec => []FrameTimeIsNearest
<1>1. Init => InstallInv
  BY InitLimited
<1>2. TypeOK /\ InstallInv /\ [Next]_vars => InstallInv'
  BY NextInstall
<1>3. InstallInv => FrameTimeIsNearest
  <2> SUFFICES ASSUME frame_limit_us = configured_limit
               PROVE  /\ frame_limit_us = 0 <=> text = 0
                      /\ text \in Fps /\ text \in 1..(2 * MICROSECONDS)
                           => Nearest(frame_limit_us, text)
                      /\ text \in Fps /\ text > 2 * MICROSECONDS => frame_limit_us = 1
                      /\ text \notin Fps => Nearest(frame_limit_us, DEFAULT_FPS)
    BY DEF InstallInv, FrameTimeIsNearest
  <2>1. CASE text \in Fps
    <3>1. text \in Nat /\ frame_limit_us = fps_to_frame_limit_us(text)
      BY <2>1, FrameLimitAssumption DEF configured_limit, read_config_fps, Fps
    <3> QED
      BY <2>1, <3>1, UnlimitedOnlyForZero, NearestOfRate, ClampedRates
  <2>2. CASE text \notin Fps
    <3>1. frame_limit_us = fps_to_frame_limit_us(DEFAULT_FPS) /\ text # 0
      BY <2>2, FrameLimitAssumption DEF configured_limit, read_config_fps, Fps
    <3>2. MICROSECONDS >= 60
      BY SMT DEF MICROSECONDS
    <3>3. DEFAULT_FPS \in Nat /\ DEFAULT_FPS # 0 /\ DEFAULT_FPS \in 1..(2 * MICROSECONDS)
      BY <3>2, SecondInMicroseconds DEF DEFAULT_FPS
    <3> QED
      BY <2>2, <3>1, <3>3, UnlimitedOnlyForZero, NearestOfRate
  <2> QED
    BY <2>1, <2>2
<1> QED
  BY <1>1, <1>2, <1>3, TypeCorrect, PTL DEF Spec

LEMMA NextOwn ==
  ASSUME ~SharedObjects
  PROVE  TypeOK /\ OwnInv /\ [Next]_vars => OwnInv'
<1> SUFFICES ASSUME TypeOK, OwnInv, [Next]_vars PROVE OwnInv'
  OBVIOUS
<1> USE ReflexFpsLimitAssumption DEF OwnInv, HookUnchanged
<1>t. pc \in [Threads -> Labels] /\ arg \in [Threads -> AllObjects]
  BY DEF TypeOK
<1>1. CASE UNCHANGED vars \/ ReflexBecomesReady
  BY <1>1 DEF vars, ReflexBecomesReady
<1>2. CASE WorkerStep
  BY <1>2, <1>t DEF WorkerStep, on_mod_load, ReadConfig, InitializeMinHook,
     find_hook_target, CreateHook, EnableHook, SetComplete, WorkerUnchanged
<1>3. ASSUME NEW t \in GameThreads, GameCall(t) PROVE OwnInv'
  <2>1. PICK o \in Objects : ~InUse(o) /\ arg' = [arg EXCEPT ![t] = o]
    BY <1>3 DEF GameCall
  <2>2. \A u \in GameThreads : ~At(u, "idle") => arg[u] # o
    BY <2>1 DEF InUse
  <2>3. \E label \in Labels : pc' = [pc EXCEPT ![t] = label]
    BY <1>3 DEF GameCall, Labels
  <2>4. At(t, "idle")
    BY <1>3 DEF GameCall
  <2> QED
    BY <1>t, <2>1, <2>2, <2>3, <2>4
<1>4. ASSUME NEW t \in GameThreads, GameDirect(t) PROVE OwnInv'
  BY <1>4, <1>t DEF GameDirect
<1>5. ASSUME NEW t \in Threads, HookStep(t) \/ EnterLock(t) PROVE OwnInv'
  <2>1. /\ UNCHANGED arg /\ ~At(t, "idle")
        /\ \E label \in Labels : pc' = [pc EXCEPT ![t] = label]
    BY <1>5 DEF HookStep, ReadComplete, EnterLock, SaveLimit, OverrideLimit,
       CallOriginal, RestoreLimit, LeaveLock, Return, Labels
  <2> QED
    BY <1>t, <2>1
<1> QED
  BY <1>1, <1>2, <1>3, <1>4, <1>5 DEF Next

(* No step changes the object of another call in progress.                    *)
LEMMA NextSaved ==
  ASSUME ~SharedObjects
  PROVE  TypeOK /\ InstallInv /\ OwnInv /\ SavedInv /\ [Next]_vars => SavedInv'
<1> SUFFICES ASSUME TypeOK, InstallInv, OwnInv, SavedInv, [Next]_vars PROVE SavedInv'
  OBVIOUS
<1> USE ReflexFpsLimitAssumption
    DEF SavedInv, Overriding, HookUnchanged, installVars, localVars, hookVars,
        configured_limit
<1>t. /\ pc \in [Threads -> Labels] /\ arg \in [Threads -> AllObjects]
      /\ original_frame_limit_us \in [Threads -> Nat] /\ options \in [AllObjects -> Nat]
  BY DEF TypeOK
<1>1. CASE UNCHANGED vars \/ ReflexBecomesReady
  BY <1>1 DEF vars, ReflexBecomesReady
<1>2. CASE WorkerStep
  BY <1>2, <1>t DEF WorkerStep, on_mod_load, ReadConfig, InitializeMinHook,
     find_hook_target, CreateHook, EnableHook, SetComplete, WorkerUnchanged
<1>3. ASSUME NEW t \in GameThreads, GameCall(t) PROVE SavedInv'
  <2>1. PICK o \in Objects :
          /\ ~InUse(o) /\ arg' = [arg EXCEPT ![t] = o]
          /\ \A p \in AllObjects : p # o => options'[p] = options[p]
    BY <1>3, <1>t DEF GameCall
  <2>2. \A u \in Threads : ~At(u, "idle") => arg[u] # o /\ options'[arg[u]] = options[arg[u]]
    BY <1>t, <2>1 DEF InUse
  <2>3. /\ At(t, "idle") /\ UNCHANGED <<installVars, localVars, driver>>
        /\ \E label \in {"enter", "direct"} : pc' = [pc EXCEPT ![t] = label]
    BY <1>3 DEF GameCall
  <2> QED
    BY <1>t, <2>1, <2>2, <2>3
<1>4. ASSUME NEW t \in GameThreads, GameDirect(t) PROVE SavedInv'
  BY <1>4, <1>t DEF GameDirect
<1>5. ASSUME NEW t \in Threads, HookStep(t) \/ EnterLock(t) PROVE SavedInv'
  <2>1. \A u \in Threads : u # t /\ ~At(u, "idle") /\ ~At(t, "idle") => arg[u] # arg[t]
    BY <1>t DEF OwnInv
  <2>2. CASE ReadComplete(t) \/ EnterLock(t) \/ LeaveLock(t) \/ Return(t)
    BY <2>2, <1>t DEF ReadComplete, EnterLock, LeaveLock, Return
  <2>3. CASE SaveLimit(t)
    BY <2>3, <1>t DEF SaveLimit
  <2>4. CASE OverrideLimit(t)
    <3>1. frame_limit_us = configured_limit
      BY <2>4 DEF OverrideLimit, InstallInv, HookLabels, InsideLabels
    <3> QED
      BY <2>1, <2>4, <1>t, <3>1 DEF OverrideLimit
  <2>5. CASE CallOriginal(t)
    BY <2>5, <1>t DEF CallOriginal
  <2>6. CASE RestoreLimit(t)
    BY <2>1, <2>6, <1>t DEF RestoreLimit
  <2> QED
    BY <1>5, <2>2, <2>3, <2>4, <2>5, <2>6 DEF HookStep
<1> QED
  BY <1>1, <1>2, <1>3, <1>4, <1>5 DEF Next

(* If the game never gives one object to two calls at once, every intercepted *)
(* call that Streamline accepted had the limit of config.ini                  *)
(* (hooked_set_options). Without that condition it is false: a call that      *)
(* restores the object takes the limit from under the other one.              *)
THEOREM HookedCallsAreLimited ==
  ASSUME ~SharedObjects
  PROVE  Spec => []HookedCallsLimited
<1>1. Init => InstallInv /\ OwnInv /\ SavedInv
  BY InitLimited
<1>2. /\ TypeOK /\ InstallInv /\ OwnInv /\ SavedInv /\ [Next]_vars
      => InstallInv' /\ OwnInv' /\ SavedInv'
  BY NextInstall, NextOwn, NextSaved
<1>3. SavedInv => HookedCallsLimited
  BY DEF SavedInv, HookedCallsLimited
<1> QED
  BY <1>1, <1>2, <1>3, TypeCorrect, PTL DEF Spec

-------------------------------------------------------------------------------
(* The refinement of LimitedSetter, whose limit is the configured one. What   *)
(* others see of an object of the game: what the only call that overrides it  *)
(* has saved, or else its contents.                                           *)
LimitsSeen ==
  \A o \in Objects :
    /\ \A t \in Threads :
         Overriding(t) /\ arg[t] = o => ObjectLimits[o] = original_frame_limit_us[t]
    /\ (\A t \in Threads : Overriding(t) => arg[t] # o) => ObjectLimits[o] = options[o]

LEMMA ObjectsSeen == TypeOK /\ OwnInv => LimitsSeen
<1> SUFFICES ASSUME TypeOK, OwnInv, NEW o \in Objects
             PROVE  /\ \A t \in Threads :
                         Overriding(t) /\ arg[t] = o
                           => ObjectLimits[o] = original_frame_limit_us[t]
                    /\ (\A t \in Threads : Overriding(t) => arg[t] # o)
                         => ObjectLimits[o] = options[o]
  BY DEF LimitsSeen
<1>1. ASSUME NEW t \in Threads, Overriding(t), arg[t] = o
      PROVE  ObjectLimits[o] = original_frame_limit_us[t]
  <2>1. UsedBy(o) = {t}
    BY <1>1, ReflexFpsLimitAssumption DEF UsedBy, OwnInv, Overriding
  <2> QED
    BY <2>1 DEF ObjectLimits
<1>2. ASSUME \A t \in Threads : Overriding(t) => arg[t] # o
      PROVE  ObjectLimits[o] = options[o]
  <2>1. UsedBy(o) = {}
    BY <1>2 DEF UsedBy
  <2> QED
    BY <2>1 DEF ObjectLimits
<1> QED
  BY <1>1, <1>2

LEMMA InitRefines == Init => Setter!Init
<1> SUFFICES ASSUME Init PROVE Setter!Init
  OBVIOUS
<1>1. \A t \in Threads : ~Overriding(t)
  BY DEF Init, Overriding
<1>2. ObjectLimits = [o \in Objects |-> 0]
  BY <1>1 DEF Init, ObjectLimits, UsedBy
<1>3. Held = [t \in Threads |-> {}]
  BY <1>1 DEF Held
<1>4. configured_limit \in Nat
  BY ConfiguredLimitBounded, SecondInMicroseconds
<1> QED
  BY <1>2, <1>3, <1>4 DEF Setter!Init, Init

(* The steps of a call in the hook.                                           *)
LEMMA HookRefines ==
  ASSUME TypeOK, InstallInv, OwnInv, SavedInv, LimitsSeen, LimitsSeen',
         NEW t \in Threads, HookStep(t) \/ EnterLock(t)
  PROVE  [Setter!Next]_<<configured_limit, ObjectLimits, Held, driver>>
<1> USE DEF HookUnchanged, installVars, localVars, Overriding
<1>t. /\ pc \in [Threads -> Labels] /\ arg \in [Threads -> AllObjects]
      /\ original_frame_limit_us \in [Threads -> Nat] /\ options \in [AllObjects -> Nat]
  BY DEF TypeOK
<1>u. \A u \in Threads : u # t /\ ~At(u, "idle") /\ ~At(t, "idle") => arg[u] # arg[t]
  BY <1>t, ReflexFpsLimitAssumption DEF OwnInv
<1>c. UNCHANGED configured_limit /\ UNCHANGED arg
  BY DEF HookStep, ReadComplete, EnterLock, SaveLimit, OverrideLimit, CallOriginal,
         RestoreLimit, LeaveLock, Return, configured_limit
<1>f. (\A o \in Objects : ObjectLimits'[o] = ObjectLimits[o]) => UNCHANGED ObjectLimits
  BY DEF ObjectLimits
<1>1. CASE ReadComplete(t) \/ EnterLock(t) \/ SaveLimit(t) \/ LeaveLock(t) \/ Return(t)
  <2>1. /\ UNCHANGED <<options, driver>>
        /\ \A u \in Threads : (Overriding(u)' <=> Overriding(u)) /\ (Overriding(u) => u # t)
        /\ \A u \in Threads \ {t} :
             /\ pc'[u] = pc[u]
             /\ original_frame_limit_us'[u] = original_frame_limit_us[u]
    BY <1>1, <1>t DEF ReadComplete, EnterLock, SaveLimit, LeaveLock, Return
  <2>2. UNCHANGED Held
    BY <1>c, <2>1 DEF Held
  <2>3. \A o \in Objects : ObjectLimits'[o] = ObjectLimits[o]
    BY <1>c, <2>1 DEF LimitsSeen
  <2> QED
    BY <1>c, <1>f, <2>1, <2>2, <2>3
<1>2. CASE OverrideLimit(t)
  <2>1. /\ pc[t] = "override" /\ pc' = [pc EXCEPT ![t] = "call"]
        /\ options' = [options EXCEPT ![arg[t]] = frame_limit_us]
        /\ UNCHANGED <<original_frame_limit_us, driver>>
    BY <1>2 DEF OverrideLimit
  <2>2. frame_limit_us = configured_limit
    BY <2>1 DEF InstallInv, HookLabels, InsideLabels
  <2>3. \A o \in Objects : ObjectLimits'[o] = ObjectLimits[o]
    <3> TAKE o \in Objects
    <3>1. CASE o = arg[t]
      <4>1. ObjectLimits'[o] = original_frame_limit_us[t]
        BY <1>t, <1>c, <2>1, <3>1 DEF LimitsSeen
      <4>2. \A u \in Threads : Overriding(u) => arg[u] # o
        BY <1>u, <2>1, <3>1
      <4> QED
        BY <2>1, <3>1, <4>1, <4>2 DEF LimitsSeen, SavedInv
    <3>2. CASE o # arg[t]
      BY <1>t, <1>c, <2>1, <3>2 DEF LimitsSeen
    <3> QED
      BY <3>1, <3>2
  <2>4. Held[t] = {}
    BY <2>1 DEF Held
  <2>5. Held' = [Held EXCEPT ![t] = {[limit |-> configured_limit, delivered |-> FALSE]}]
    <3>1. Held'[t] = {[limit |-> configured_limit, delivered |-> FALSE]}
      BY <1>t, <1>c, <2>1, <2>2 DEF Held
    <3>2. \A u \in Threads : u # t => Held'[u] = Held[u]
      BY <1>t, <1>u, <1>c, <2>1 DEF Held
    <3>3. /\ Held = [u \in Threads |-> Held[u]]
          /\ Held' = [u \in Threads |-> Held'[u]]
      BY DEF Held
    <3> QED
      BY <3>1, <3>2, <3>3
  <2> QED
    BY <1>c, <1>f, <2>1, <2>3, <2>4, <2>5 DEF Setter!Next, Setter!Choose
<1>3. CASE CallOriginal(t)
  <2>1. /\ pc[t] = "call" /\ pc' = [pc EXCEPT ![t] = "restore"]
        /\ UNCHANGED <<options, original_frame_limit_us>>
        /\ driver' \in {driver, [limit |-> options[arg[t]], via |-> "hook"]}
    BY <1>3 DEF CallOriginal
  <2>2. \A u \in Threads : Overriding(u)' <=> Overriding(u)
    BY <1>t, <2>1
  <2>3. \A o \in Objects : ObjectLimits'[o] = ObjectLimits[o]
    BY <1>c, <2>1, <2>2 DEF LimitsSeen
  <2> DEFINE choice == [limit |-> options[arg[t]], delivered |-> FALSE]
  <2>4. Held[t] = {choice}
    BY <2>1 DEF Held
  <2>5. Held' = [Held EXCEPT ![t] = {[limit |-> choice.limit, delivered |-> TRUE]}]
    <3>1. Held'[t] = {[limit |-> options[arg[t]], delivered |-> TRUE]}
      BY <1>t, <1>c, <2>1 DEF Held
    <3>2. \A u \in Threads : u # t => Held'[u] = Held[u]
      BY <1>t, <1>c, <2>1 DEF Held
    <3>3. /\ Held = [u \in Threads |-> Held[u]]
          /\ Held' = [u \in Threads |-> Held'[u]]
      BY DEF Held
    <3> QED
      BY <3>1, <3>2, <3>3
  <2> QED
    BY <1>c, <1>f, <2>1, <2>3, <2>4, <2>5 DEF Setter!Next, Setter!Deliver
<1>4. CASE RestoreLimit(t)
  <2>1. /\ pc[t] = "restore" /\ UNCHANGED <<original_frame_limit_us, driver>>
        /\ options' = [options EXCEPT ![arg[t]] = original_frame_limit_us[t]]
        /\ \E label \in {"unlock", "return"} : pc' = [pc EXCEPT ![t] = label]
    BY <1>4 DEF RestoreLimit
  <2>2. \A o \in Objects : ObjectLimits'[o] = ObjectLimits[o]
    <3> TAKE o \in Objects
    <3>1. CASE o = arg[t]
      <4>1. ObjectLimits[o] = original_frame_limit_us[t]
        BY <2>1, <3>1 DEF LimitsSeen
      <4>2. \A u \in Threads : Overriding(u)' => arg[u] # o
        BY <1>t, <1>u, <2>1, <3>1
      <4> QED
        BY <1>c, <2>1, <3>1, <4>1, <4>2, <1>t DEF LimitsSeen
    <3>2. CASE o # arg[t]
      BY <1>t, <1>c, <2>1, <3>2 DEF LimitsSeen
    <3> QED
      BY <3>1, <3>2
  <2>3. Held[t] = {[limit |-> options[arg[t]], delivered |-> TRUE]}
    BY <2>1 DEF Held
  <2>4. Held' = [Held EXCEPT ![t] = {}]
    <3>1. Held'[t] = {}
      BY <1>t, <2>1 DEF Held
    <3>2. \A u \in Threads : u # t => Held'[u] = Held[u]
      BY <1>t, <1>u, <1>c, <2>1 DEF Held
    <3>3. /\ Held = [u \in Threads |-> Held[u]]
          /\ Held' = [u \in Threads |-> Held'[u]]
      BY DEF Held
    <3> QED
      BY <3>1, <3>2, <3>3
  <2>5. Setter!Finish(t)
    BY <1>c, <1>f, <2>1, <2>2, <2>3, <2>4 DEF Setter!Finish
  <2> QED
    BY <2>5 DEF Setter!Next
<1> QED
  BY <1>1, <1>2, <1>3, <1>4 DEF HookStep

(* The game writes in an object that no call uses, or passes the hook by.     *)
LEMMA GameRefines ==
  ASSUME ~SharedObjects, TypeOK, OwnInv, LimitsSeen, LimitsSeen',
         NEW t \in GameThreads, GameCall(t) \/ GameDirect(t)
  PROVE  [Setter!Next]_<<configured_limit, ObjectLimits, Held, driver>>
<1> USE DEF installVars, localVars, Overriding
<1>t. /\ pc \in [Threads -> Labels] /\ arg \in [Threads -> AllObjects]
      /\ options \in [AllObjects -> Nat]
  BY DEF TypeOK
<1>c. UNCHANGED configured_limit
  BY DEF GameCall, GameDirect, configured_limit
<1>d. /\ ObjectLimits = [o \in Objects |-> ObjectLimits[o]]
      /\ ObjectLimits' = [o \in Objects |-> ObjectLimits'[o]]
  BY DEF ObjectLimits
<1>1. CASE GameCall(t)
  <2>1. PICK o \in Objects :
          /\ ~InUse(o) /\ arg' = [arg EXCEPT ![t] = o]
          /\ \E limit \in GameLimits : options' = [options EXCEPT ![o] = limit]
    <3>1. PICK o \in Objects :
            /\ ~InUse(o) \/ SharedObjects
            /\ IF InUse(o)
                 THEN UNCHANGED <<options, written>>
                 ELSE \E limit \in GameLimits :
                        /\ options' = [options EXCEPT ![o] = limit]
                        /\ written' = [written EXCEPT ![o] = limit]
            /\ arg' = [arg EXCEPT ![t] = o]
      BY <1>1 DEF GameCall
    <3> QED
      BY <3>1
  <2>2. \A u \in Threads : ~At(u, "idle") => arg[u] # o
    BY <2>1 DEF InUse
  <2>3. /\ At(t, "idle") /\ UNCHANGED <<original_frame_limit_us, driver>>
        /\ \E label \in {"enter", "direct"} : pc' = [pc EXCEPT ![t] = label]
    BY <1>1 DEF GameCall
  <2>4. \A u \in Threads :
          /\ Overriding(u)' <=> Overriding(u)
          /\ Overriding(u) => arg'[u] = arg[u] /\ pc'[u] = pc[u] /\ arg[u] # o
    BY <1>t, <2>1, <2>2, <2>3
  <2>5. UNCHANGED Held
    <3>1. \A u \in Threads : Overriding(u) => options'[arg'[u]] = options[arg[u]]
      BY <1>t, <2>1, <2>4
    <3> QED
      BY <2>4, <3>1 DEF Held
  <2>6. \A p \in Objects : p # o => ObjectLimits'[p] = ObjectLimits[p]
    BY <1>t, <2>1, <2>3, <2>4 DEF LimitsSeen
  <2>7. ObjectLimits'[o] = options'[o]
    BY <1>t, <2>4 DEF LimitsSeen
  <2>8. options'[o] \in Nat /\ \A p \in Objects : ObjectLimits[p] \in Nat
    <3>1. options'[o] \in Nat
      BY <1>t, <2>1, ReflexFpsLimitAssumption
    <3>2. ASSUME NEW p \in Objects PROVE ObjectLimits[p] \in Nat
      <4>1. CASE \E u \in Threads : Overriding(u) /\ arg[u] = p
        BY <4>1 DEF LimitsSeen, TypeOK
      <4>2. CASE \A u \in Threads : Overriding(u) => arg[u] # p
        BY <1>t, <4>2 DEF LimitsSeen
      <4> QED
        BY <4>1, <4>2
    <3> QED
      BY <3>1, <3>2
  <2>9. ObjectLimits' \in [Objects -> Nat]
    BY <1>d, <2>6, <2>7, <2>8
  <2>10. Setter!GameWrites
    BY <1>c, <2>3, <2>5, <2>6, <2>9 DEF Setter!GameWrites
  <2> QED
    BY <2>10 DEF Setter!Next
<1>2. CASE GameDirect(t)
  <2> DEFINE o == arg[t]
  <2>1. /\ pc[t] = "direct" /\ pc' = [pc EXCEPT ![t] = "idle"]
        /\ driver' = [limit |-> options[o], via |-> "direct"]
        /\ UNCHANGED <<arg, options, original_frame_limit_us>>
    BY <1>2 DEF GameDirect
  <2>2. \A u \in Threads : Overriding(u)' <=> Overriding(u)
    BY <1>t, <2>1
  <2>3. UNCHANGED Held
    BY <1>t, <2>1, <2>2 DEF Held
  <2>4. UNCHANGED ObjectLimits
    BY <1>d, <2>1, <2>2 DEF LimitsSeen
  <2>5. o \in Objects /\ ObjectLimits[o] = options[o]
    <3>1. o \in Objects /\ \A u \in Threads : Overriding(u) => arg[u] # o
      BY <2>1, ReflexFpsLimitAssumption DEF OwnInv
    <3> QED
      BY <3>1 DEF LimitsSeen
  <2>6. Setter!PassBy
    BY <1>c, <2>1, <2>3, <2>4, <2>5 DEF Setter!PassBy
  <2> QED
    BY <2>6 DEF Setter!Next
<1> QED
  BY <1>1, <1>2

LEMMA NextRefines ==
  ASSUME ~SharedObjects
  PROVE  /\ TypeOK /\ InstallInv /\ OwnInv /\ SavedInv /\ LimitsSeen /\ LimitsSeen'
         /\ [Next]_vars
         => [Setter!Next]_<<configured_limit, ObjectLimits, Held, driver>>
<1> SUFFICES ASSUME TypeOK, InstallInv, OwnInv, SavedInv, LimitsSeen, LimitsSeen',
                    [Next]_vars
             PROVE  [Setter!Next]_<<configured_limit, ObjectLimits, Held, driver>>
  OBVIOUS
<1>1. ASSUME UNCHANGED <<text, pc, arg, original_frame_limit_us, options, driver>>
      PROVE  UNCHANGED <<configured_limit, ObjectLimits, Held, driver>>
  BY <1>1 DEF configured_limit, ObjectLimits, UsedBy, Held, Overriding
<1>2. CASE UNCHANGED vars \/ ReflexBecomesReady
  BY <1>1, <1>2 DEF vars, installVars, localVars, ReflexBecomesReady
<1>3. CASE WorkerStep
  <2>1. /\ UNCHANGED <<text, arg, original_frame_limit_us, options, driver>>
        /\ ~Overriding(Worker)
        /\ \E label \in Labels \ {"call", "restore"} : pc' = [pc EXCEPT ![Worker] = label]
    BY <1>3 DEF WorkerStep, on_mod_load, ReadConfig, InitializeMinHook,
       find_hook_target, CreateHook, EnableHook, SetComplete, WorkerUnchanged, localVars,
       Overriding, Labels
  <2>2. \A u \in Threads :
          (Overriding(u)' <=> Overriding(u)) /\ (Overriding(u) => pc'[u] = pc[u])
    BY <2>1 DEF TypeOK, Overriding
  <2>3. UNCHANGED Held
    BY <2>1, <2>2 DEF Held
  <2>4. UNCHANGED ObjectLimits
    BY <2>1, <2>2 DEF LimitsSeen, ObjectLimits
  <2> QED
    BY <2>1, <2>3, <2>4 DEF configured_limit
<1> QED
  BY <1>2, <1>3, HookRefines, GameRefines DEF Next

(* If the game never gives one object to two calls at once, the mod           *)
(* implements LimitedSetter with the limit of config.ini, although all calls  *)
(* after the first one overlap freely (hooked_set_options).                   *)
THEOREM HookImplementsLimitedSetter ==
  ASSUME ~SharedObjects
  PROVE  Spec => ImplementsLimitedSetter
<1>1. Init => Setter!Init /\ InstallInv /\ OwnInv /\ SavedInv
  BY InitRefines, InitLimited
<1>2. /\ TypeOK /\ InstallInv /\ OwnInv /\ SavedInv /\ [Next]_vars
      => InstallInv' /\ OwnInv' /\ SavedInv'
  BY NextInstall, NextOwn, NextSaved
<1>3. TypeOK /\ OwnInv => LimitsSeen
  BY ObjectsSeen
<1>4. /\ TypeOK /\ InstallInv /\ OwnInv /\ SavedInv /\ LimitsSeen /\ LimitsSeen'
      /\ [Next]_vars
      => [Setter!Next]_<<configured_limit, ObjectLimits, Held, driver>>
  BY NextRefines
<1> QED
  BY <1>1, <1>2, <1>3, <1>4, TypeCorrect, PTL
  DEF Spec, ImplementsLimitedSetter, Setter!Spec
===============================================================================
