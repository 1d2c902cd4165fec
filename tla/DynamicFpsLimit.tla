--------------------------- MODULE DynamicFpsLimit ---------------------------
(* dynamic_fps_limit/src/plugin.cpp: the worker thread that reads config.ini, *)
(* installs the hook when the limiter is Reflex, and then polls the           *)
(* frame-generation state and moves the limit after it. It is composed with   *)
(* the threads of the game, which call slReflexSetOptions at any time, and    *)
(* with Streamline and RTSS.                                                  *)
EXTENDS Rtss

CONSTANTS
  OffTexts, OnTexts,    \* the texts of the two rates in config.ini
  LimiterTexts          \* and of the limiter; what is not "rtss" selects Reflex

DEFAULT_FRAME_GENERATION_OFF_FPS == 60
DEFAULT_FRAME_GENERATION_ON_FPS == 120

ASSUME DynamicFpsLimitAssumption == UINT32_MAX >= DEFAULT_FRAME_GENERATION_ON_FPS

VARIABLES
  config,                    \* the Config that the worker read
  current_fps, has_current_fps,
  frame_generation_active,   \* the last state that was polled without an error
  active_seen                \* history: was it ever active?

progressVars == <<current_fps, has_current_fps, frame_generation_active, active_seen>>
vars_plugin == <<config, progressVars>>
vars == <<vars_streamline, vars_rtss, vars_plugin>>

DefaultConfig == [off |-> DEFAULT_FRAME_GENERATION_OFF_FPS,
                  on |-> DEFAULT_FRAME_GENERATION_ON_FPS, limiter |-> "reflex"]

Init ==
  /\ InitStreamline
  /\ InitRtss
  /\ config = DefaultConfig
  /\ current_fps = 0
  /\ has_current_fps = FALSE
  /\ frame_generation_active = FALSE
  /\ active_seen = FALSE

Us(fps) == fps_to_frame_limit_us(fps)

target_fps == IF frame_generation_active THEN config.on ELSE config.off

-------------------------------------------------------------------------------
(* Glue of the worker: nothing changes but its own locals.                    *)
WorkerOnly ==
  /\ UNCHANGED <<lockVars, hookVars, callVars, pollVars, streamlineVars,
                 frame_limit_us, options, result, driver, vars_rtss, config>>

(* The thread that the mod loader calls starts the worker; a process that     *)
(* cannot create a thread runs without the mod.                               *)
on_mod_load ==
  /\ At(Worker, "load")
  /\ \/ Goto(Worker, "config")
     \/ May("thread") /\ Goto(Worker, "stopped")
  /\ WorkerOnly
  /\ UNCHANGED progressVars

(* Each rate that cannot be used is replaced by its own default; without a    *)
(* path to config.ini everything is.                                          *)
read_config_limiter(text) == IF text = "rtss" THEN "rtss" ELSE "reflex"

read_config(off, on, limiter) ==
  [off |-> read_config_fps(off, DEFAULT_FRAME_GENERATION_OFF_FPS),
   on |-> read_config_fps(on, DEFAULT_FRAME_GENERATION_ON_FPS),
   limiter |-> read_config_limiter(limiter)]

ReadConfig ==
  /\ At(Worker, "config")
  /\ \/ \E off \in OffTexts, on \in OnTexts, limiter \in LimiterTexts :
          config' = read_config(off, on, limiter)
     \/ May("config") /\ config' = DefaultConfig
  /\ Goto(Worker, IF config'.limiter = "reflex" THEN "install" ELSE "poll")
  /\ UNCHANGED <<lockVars, hookVars, callVars, pollVars, streamlineVars,
                 frame_limit_us, options, result, driver, vars_rtss, progressVars>>

RetryInstall ==
  /\ At(Worker, "retry")
  /\ Goto(Worker, "install")
  /\ WorkerOnly
  /\ UNCHANGED progressVars

set_fps_limit == IF config.limiter = "reflex" THEN "set_reflex" ELSE "rtss"

(* An error keeps the last known state. The limiter is called only when the   *)
(* rate that this state wants is not the one that was last set.               *)
ChooseTarget ==
  /\ At(Worker, "target")
  /\ WorkerOnly
  /\ frame_generation_active' =
       IF frame_generation_state = "error" THEN frame_generation_active
                                           ELSE frame_generation_state = "active"
  /\ active_seen' = (active_seen \/ frame_generation_active')
  /\ Goto(Worker, IF ~has_current_fps \/ target_fps' # current_fps
                    THEN set_fps_limit ELSE "sleep")
  /\ UNCHANGED <<current_fps, has_current_fps>>

(* A failure leaves current_fps alone, so that the next round tries again.    *)
SetReturned ==
  /\ At(Worker, "set_returned")
  /\ current_fps' = IF result THEN target_fps ELSE current_fps
  /\ has_current_fps' = (has_current_fps \/ result)
  /\ Goto(Worker, "sleep")
  /\ WorkerOnly
  /\ UNCHANGED <<frame_generation_active, active_seen>>

Wake ==
  /\ At(Worker, "sleep")
  /\ Goto(Worker, "poll")
  /\ WorkerOnly
  /\ UNCHANGED progressVars

-------------------------------------------------------------------------------
StreamlineCode ==
  \/ \E t \in Threads : HookStep(t)
  \/ InstallStep(config.off)
  \/ SetReflexFpsLimit(target_fps)
  \/ GetFrameGenerationState
  \/ \E t \in GameThreads : GameStep(t)
  \/ StreamlineChanges

RtssCode == RtssStep(target_fps) \/ RtssChanges

PluginCode ==
  \/ on_mod_load \/ ReadConfig \/ RetryInstall
  \/ ChooseTarget \/ SetReturned \/ Wake

Next ==
  \/ StreamlineCode /\ UNCHANGED <<vars_rtss, vars_plugin>>
  \/ RtssCode /\ UNCHANGED vars_plugin
  \/ PluginCode

Spec == Init /\ [][Next]_vars

(* What the scheduler and the callees owe for the limit to follow the game.   *)
(* Every runnable thread goes on running; a game need not call anything. A    *)
(* critical section is not a fair lock: that the worker is not starved by the *)
(* game's own calls is assumed (SF on EnterHook(Worker)), and so is that a    *)
(* call which is retried again and again succeeds in the end.                 *)
Code(A) == A /\ UNCHANGED <<vars_rtss, vars_plugin>>
RtssOnly(A) == A /\ UNCHANGED vars_plugin

WorkerStep ==
  \/ Code(\/ HookStep(Worker) \/ InstallStep(config.off)
          \/ SetReflexFpsLimit(target_fps) \/ GetFrameGenerationState)
  \/ RtssOnly(RtssStep(target_fps))
  \/ PluginCode

ThreadFairness ==
  /\ WF_vars(WorkerStep)
  /\ \A t \in GameThreads : WF_vars(Code(HookStep(t) \/ GameDirect(t)))
  /\ SF_vars(Code(GetFrameGenerationState /\ frame_generation_state' # "error"))

ReflexFairness ==
  /\ SF_vars(Code(EnterHook(Worker)))
  /\ SF_vars(Code(CallOriginal(Worker) /\ result'))
  /\ SF_vars(Code(InitializeMinHook /\ minhook' # "uninitialized"))
  /\ SF_vars(Code(CreateHook /\ minhook' = "created"))
  /\ SF_vars(Code(EnableHook))

RtssFairness ==
  /\ SF_vars(RtssOnly(LoadProfile))
  /\ SF_vars(RtssOnly(SetDenominator))
  /\ SF_vars(RtssOnly(SetLimit(target_fps)))

FairReflexSpec == Spec /\ ThreadFairness /\ ReflexFairness
FairRtssSpec == Spec /\ ThreadFairness /\ RtssFairness

-------------------------------------------------------------------------------
WorkerLabels ==
  {"load", "stopped", "config", "install", "retry", "delay", "prepare", "create",
   "enable", "poll", "target", "set_reflex", "set_returned", "sleep", "rtss",
   "rtss_load", "rtss_denominator", "rtss_limit", "rtss_save", "rtss_update"}
Labels == HookLabels \cup WorkerLabels \cup {"idle", "direct"}

TypeOK ==
  /\ minhook \in {"uninitialized", "absent", "created", "enabled"}
  /\ set_options_lock \in Threads \cup {NoThread}
  /\ set_options_lock_initialized \in BOOLEAN
  /\ frame_limit_us \in Nat
  /\ original_set_options \in BOOLEAN
  /\ options \in [AllObjects -> OptionsType]
  /\ pc \in [Threads -> Labels]
  /\ arg \in [Threads -> AllObjects]
  /\ original_frame_limit_us \in [Threads -> Nat]
  /\ result \in BOOLEAN
  /\ get_state \in BOOLEAN
  /\ frame_generation_state \in {"error", "inactive", "active"}
  /\ reflex_ready \in BOOLEAN /\ dlssg_ready \in BOOLEAN /\ presented \in 1..2
  /\ driver \in [limit : Nat, settings : Settings, next : {"null", "game_chain"},
                 via : {"none", "direct", "hook"}]
  /\ rtss_hooks \in {"absent", "old", "current"}
  /\ load_profile \in BOOLEAN /\ profile \in BOOLEAN
  /\ incompatible \in BOOLEAN /\ edited \in BOOLEAN /\ writable \in BOOLEAN
  /\ working \in ProfileType /\ disk \in ProfileType /\ applied \in ProfileType
  /\ config \in [off : Fps, on : Fps, limiter : {"reflex", "rtss"}]
  /\ current_fps \in Fps
  /\ has_current_fps \in BOOLEAN
  /\ frame_generation_active \in BOOLEAN /\ active_seen \in BOOLEAN

(* An options object of the game holds what the game wrote in it whenever no  *)
(* call is using it: the override of its limit never outlives the call, even  *)
(* when several threads pass the same object (hooked_reflex_set_options).     *)
Overriding(t) == pc[t] \in {"call", "restore"}
GameOptionsIntact ==
  \A o \in Objects :
    (\A t \in Threads : arg[t] = o => ~Overriding(t))
      => options[o] = GameOptions[o]

(* No thread takes the lock before it is initialised or calls through the     *)
(* trampoline while it is null, whatever attempt of the installation enabled  *)
(* the hook (install_reflex_hook, remove_reflex_hook).                        *)
HookIsReady ==
  \A t \in Threads :
    pc[t] \in HookLabels => set_options_lock_initialized /\ original_set_options

(* Intercepted calls use initial_fps until polling finds frame generation     *)
(* active (streamline.h, install_reflex_hook): no early call gets another     *)
(* limit, not even one that failed installations let through.                 *)
InitialLimitUntilActive ==
  driver.via = "hook" /\ ~active_seen => driver.limit = Us(config.off)

(* Between two changes of the limit, whatever calls of the game were in       *)
(* flight when the worker changed it, the last intercepted call gave the      *)
(* driver the limit that the worker believes it set, unless Streamline        *)
(* refused the worker's latest change (result).                               *)
AppliedLimitHolds ==
  /\ has_current_fps /\ result
  /\ pc[Worker] \in {"poll", "target", "set_reflex", "sleep"}
  /\ driver.via = "hook"
  => driver.limit = Us(current_fps)

(* The worker's own call changes the frame limit and nothing else: it replays *)
(* the settings of the latest intercepted call of the game, but not the chain *)
(* of structures behind it, which belongs to the game and may be gone.        *)
WorkerReplaysGameOptions ==
  [][At(Worker, "call") /\ ~At(Worker, "call")' /\ result' =>
       /\ driver'.next = "null"
       /\ driver.via = "hook" => driver'.settings = driver.settings]_vars

(* Each intercepted call gives the driver the limit that was set when it      *)
(* chose, one call at a time, so that an older limit never comes back; and    *)
(* the objects of the game are seen by others as the game wrote them          *)
(* (hooked_reflex_set_options).                                               *)
UsedBy(o) == {t \in Threads : Overriding(t) /\ arg[t] = o}

GameLimits ==
  [o \in Objects |-> IF UsedBy(o) = {}
                       THEN options[o].limit
                       ELSE original_frame_limit_us[CHOOSE t \in UsedBy(o) : TRUE]]

Held ==
  [t \in Threads |->
    IF Overriding(t)
      THEN {[limit |-> options[arg[t]].limit, delivered |-> pc[t] = "restore"]}
      ELSE {}]

LastAccepted == [limit |-> driver.limit, via |-> driver.via]

Setter == INSTANCE LimitedSetter WITH
  Threads <- Threads,
  Objects <- Objects,
  Serial <- TRUE,
  limit <- frame_limit_us,
  objects <- GameLimits,
  held <- Held,
  driver <- LastAccepted
ImplementsLimitedSetter == Setter!Spec

(* When the worker has gone to sleep with nothing left to set, the limit in   *)
(* force is the one for the state that it observed (README: the limit is      *)
(* updated "whenever the observed state changes").                            *)
SleepsWithTheRightLimit ==
  /\ pc[Worker] = "sleep"
  /\ has_current_fps /\ current_fps = target_fps
  /\ driver.via = "hook"
  => driver.limit = Us(target_fps)

(* Whatever call fails, the profile on disk is the user's or one that the mod *)
(* wrote completely: never the new denominator with the old limit.            *)
ProfileNeverTorn ==
  disk.rate \in {InitialRate} \cup
    {[limit |-> f, denominator |-> 1] : f \in {config.off, config.on}}

(* A save never brings back properties that the user had changed before the   *)
(* profile was loaded, although the working copy outlives failed attempts.    *)
NoStaleOverwrite ==
  pc[Worker] = "rtss_save" /\ ~edited => working.other = disk.other

(* A rate that the worker believes set is the one that RTSS applies, over 1,  *)
(* if the profile can be written at all.                                      *)
AppliedProfileHolds ==
  /\ writable
  /\ config.limiter = "rtss" /\ has_current_fps
  /\ pc[Worker] \in {"poll", "target", "sleep"}
  => applied.rate = [limit |-> current_fps, denominator |-> 1]

(* Once frame generation stays on (or off) and can be queried, the limit for  *)
(* it is in force for good, in spite of failed installations and polls and of *)
(* calls in flight. A call that was past the hook when it was enabled takes   *)
(* the limit away for a moment only, if the game goes on calling.             *)
Stable(s) == reflex_ready /\ dlssg_ready /\ FrameGeneration = s
FpsFor(s) == IF s = "active" THEN config.on ELSE config.off
ReflexLimitFollowsState ==
  \A s \in {"active", "inactive"} :
    <>[]Stable(s) =>
      /\ <>[](/\ minhook = "enabled"
              /\ frame_limit_us = Us(FpsFor(s))
              /\ driver.via = "hook" => driver.limit = Us(FpsFor(s)))
      /\ []<>(driver.via = "hook") => <>[](driver.via = "hook")

(* The same with RTSS as the limiter, once a current RTSS is in the process.  *)
RtssLimitFollowsState ==
  \A s \in {"active", "inactive"} :
    <>[](/\ config.limiter = "rtss" /\ writable
         /\ Stable(s) /\ rtss_hooks = "current") =>
      <>[](applied.rate = [limit |-> FpsFor(s), denominator |-> 1])

-------------------------------------------------------------------------------
(* Inductive strengthenings, for the proofs. GameOptionsIntact needs that the *)
(* lock excludes a second call from the save to the restore, that what was    *)
(* saved is the game's own limit, and that only the limit is ever touched.    *)
InsideLabels == HookLabels \ {"enter"}

LockInv == \A t \in Threads : set_options_lock = t <=> pc[t] \in InsideLabels

SavedInv ==
  \A t \in Threads :
    pc[t] \in InsideLabels \ {"save"} /\ arg[t] \in Objects
      => original_frame_limit_us[t] = GameOptions[arg[t]].limit

OnlyLimitTouched ==
  \A o \in Objects :
    options[o] = [limit |-> options[o].limit, settings |-> GameOptions[o].settings,
                  next |-> GameOptions[o].next, version |-> GameOptions[o].version]

IntactInv == LockInv /\ SavedInv /\ OnlyLimitTouched /\ GameOptionsIntact

(* HookIsReady needs that a hook which exists was prepared, that no attempt   *)
(* of the installation follows a successful one, and that only the Reflex     *)
(* limiter, whose hook is enabled, makes the worker call the hook.            *)
InstallLabels == {"install", "retry", "delay", "prepare", "create", "enable"}
BeforeLoop == InstallLabels \cup {"load", "stopped", "config"}
RtssLabels == {"rtss", "rtss_load", "rtss_denominator", "rtss_limit", "rtss_save",
               "rtss_update"}

ReadyInv ==
  /\ minhook \in {"created", "enabled"}
       => set_options_lock_initialized /\ original_set_options
  /\ pc[Worker] \in {"create", "enable"} => set_options_lock_initialized
  /\ pc[Worker] = "enable" => minhook = "created"
  /\ pc[Worker] \in InstallLabels => config.limiter = "reflex"
  /\ pc[Worker] \in RtssLabels => config.limiter = "rtss"
  /\ pc[Worker] \in BeforeLoop => minhook # "enabled"
  /\ pc[Worker] \notin BeforeLoop /\ config.limiter = "reflex" => minhook = "enabled"
  /\ \A t \in Threads :
       pc[t] \in HookLabels \cup {"set_reflex"} => minhook = "enabled"
===============================================================================
