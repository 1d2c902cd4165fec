------------------------------ MODULE Streamline ------------------------------
(* dynamic_fps_limit/src/streamline.cpp: the hook of slReflexSetOptions, its  *)
(* installation, the change of the limit at run time and the query of the     *)
(* frame-generation state.                                                    *)
(*                                                                            *)
(* Any thread of the game can be inside the hook while the mod's worker       *)
(* installs it or calls it: one action per step between two accesses to       *)
(* shared data, pc[t] naming the next one. pc[Worker] also holds the labels   *)
(* of the functions that only the worker runs; DynamicFpsLimit enters them    *)
(* and goes on from their exits ("poll", "retry", "target", "set_returned").  *)
EXTENDS FrameLimit

CONSTANTS
  GameThreads,       \* the threads of the game that set Reflex options
  Worker,            \* the thread of the mod
  NoThread,          \* owner of a free lock
  Objects,           \* the ReflexOptions objects of the game
  Cache,             \* g_reflex.last_options, an object of the mod
  Settings,          \* all the fields of an options object that no code inspects
  LowLatency,        \* the settings that last_options starts with
  GameOptions,       \* what the game writes in each of its objects
  Faults             \* the external calls that may fail

Threads == GameThreads \cup {Worker}
AllObjects == Objects \cup {Cache}

OptionsType == [limit : Nat, settings : Settings, next : {"null", "game_chain"},
                version : Nat]

ASSUME StreamlineAssumption ==
  /\ Worker \notin GameThreads
  /\ NoThread \notin Threads
  /\ Cache \notin Objects
  /\ LowLatency \in Settings
  /\ GameOptions \in [Objects -> OptionsType]
  /\ Faults \subseteq {"thread", "config", "init", "create", "enable", "remove", "set",
                       "game_set", "poll", "rtss_name", "rtss_set", "rtss_save"}

VARIABLES
  minhook,                       \* MinHook's view of the hook on slReflexSetOptions
  set_options_lock,              \* the thread that owns the critical section
  set_options_lock_initialized,
  frame_limit_us,                \* the atomic limit that intercepted calls read
  original_set_options,          \* is the trampoline pointer non-null?
  options,                       \* the contents of every options object
  pc,                            \* the next step of each thread
  arg,                           \* the object that a call in progress was given
  original_frame_limit_us,       \* the local of a call in the hook
  result,                        \* did the last call of the worker return ok?
  get_state,                     \* has the address of slDLSSGGetState been kept?
  frame_generation_state,        \* what the last poll returned
  reflex_ready, dlssg_ready,     \* does slGetFeatureFunction find the functions?
  presented,                     \* num_frames_actually_presented
  driver                         \* the options that Reflex last accepted

lockVars == <<set_options_lock, set_options_lock_initialized>>
hookVars == <<minhook, original_set_options>>
callVars == <<arg, original_frame_limit_us>>
pollVars == <<get_state, frame_generation_state>>
streamlineVars == <<reflex_ready, dlssg_ready, presented>>
vars_streamline ==
  <<lockVars, hookVars, callVars, pollVars, streamlineVars, frame_limit_us,
    options, pc, result, driver>>

Goto(t, label) == pc' = [pc EXCEPT ![t] = label]
At(t, label) == pc[t] = label
May(fault) == fault \in Faults

(* The outcomes of a call of Streamline: TRUE is Result::ok.                  *)
Outcomes(fault) == {TRUE} \cup (IF May(fault) THEN {FALSE} ELSE {})

InitStreamline ==
  /\ minhook = "uninitialized"
  /\ set_options_lock = NoThread
  /\ set_options_lock_initialized = FALSE
  /\ frame_limit_us = 0
  /\ original_set_options = FALSE
  /\ options = [o \in AllObjects |->
                  IF o = Cache
                    THEN [limit |-> 0, settings |-> LowLatency, next |-> "null",
                          version |-> 1]
                    ELSE GameOptions[o]]
  /\ pc = [t \in Threads |-> IF t = Worker THEN "load" ELSE "idle"]
  /\ arg = [t \in Threads |-> Cache]
  /\ original_frame_limit_us = [t \in Threads |-> 0]
  /\ result = FALSE
  /\ get_state = FALSE
  /\ frame_generation_state = "error"
  /\ reflex_ready = FALSE
  /\ dlssg_ready = FALSE
  /\ presented = 1
  /\ driver = [limit |-> 0, settings |-> LowLatency, next |-> "null", via |-> "none"]

-------------------------------------------------------------------------------
(* The driver keeps the options of the last call that it accepted; via tells  *)
(* whether that call went through the hook.                                   *)
Accepted(o, via) ==
  [limit |-> options[o].limit, settings |-> options[o].settings,
   next |-> options[o].next, via |-> via]

UnlockedEnterHook(t) ==      \* mutated: the lock is not waited for
  /\ At(t, "enter")
  /\ set_options_lock' = t
  /\ Goto(t, "save")
  /\ UNCHANGED <<set_options_lock_initialized, hookVars, callVars, pollVars,
                 streamlineVars, frame_limit_us, options, result, driver>>

(* Streamline is loaded, exports slGetFeatureFunction and knows the function. *)
find_feature_function(feature) ==
  IF feature = "slReflexSetOptions" THEN reflex_ready ELSE dlssg_ready

(* hooked_reflex_set_options, which a thread enters at label "enter" with its *)
(* options object in arg.                                                     *)
EnterHook(t) ==
  /\ At(t, "enter")
  /\ set_options_lock = NoThread
  /\ set_options_lock' = t
  /\ Goto(t, "save")
  /\ UNCHANGED <<set_options_lock_initialized, hookVars, callVars, pollVars,
                 streamlineVars, frame_limit_us, options, result, driver>>

KeepChain(o) ==              \* mutated: the chain of the game's object is kept
  [options EXCEPT ![Cache] = options[o]]

(* The copy keeps neither the chain nor the version of the game's object.     *)
CacheOptions(o) ==
  [options EXCEPT ![Cache] =
     [limit |-> options[o].limit, settings |-> options[o].settings,
      next |-> "null", version |-> 1]]

SaveOptions(t) ==
  /\ At(t, "save")
  /\ original_frame_limit_us' =
       [original_frame_limit_us EXCEPT ![t] = options[arg[t]].limit]
  /\ options' = CacheOptions(arg[t])
  /\ Goto(t, "override")
  /\ UNCHANGED <<lockVars, hookVars, pollVars, streamlineVars, frame_limit_us,
                 arg, result, driver>>

OverrideLimit(t) ==
  /\ At(t, "override")
  /\ options' = [options EXCEPT ![arg[t]].limit = frame_limit_us]
  /\ Goto(t, "call")
  /\ UNCHANGED <<lockVars, hookVars, callVars, pollVars, streamlineVars,
                 frame_limit_us, result, driver>>

CallOriginal(t) ==
  /\ At(t, "call")
  /\ \E ok \in Outcomes(IF t = Worker THEN "set" ELSE "game_set") :
       /\ driver' = IF ok THEN Accepted(arg[t], "hook") ELSE driver
       /\ result' = IF t = Worker THEN ok ELSE result
  /\ Goto(t, "restore")
  /\ UNCHANGED <<lockVars, hookVars, callVars, pollVars, streamlineVars,
                 frame_limit_us, options>>

RestoreOptions(t) ==
  /\ At(t, "restore")
  /\ options' = [options EXCEPT ![arg[t]].limit = original_frame_limit_us[t]]
  /\ set_options_lock' = NoThread
  /\ arg' = [arg EXCEPT ![t] = Cache]
  /\ original_frame_limit_us' = [original_frame_limit_us EXCEPT ![t] = 0]
  /\ Goto(t, IF t = Worker THEN "set_returned" ELSE "idle")
  /\ UNCHANGED <<set_options_lock_initialized, hookVars, pollVars, streamlineVars,
                 frame_limit_us, result, driver>>

HookStep(t) ==
  \/ EnterHook(t) \/ SaveOptions(t) \/ OverrideLimit(t)
  \/ CallOriginal(t) \/ RestoreOptions(t)

(* A thread of the game calls slReflexSetOptions. Until MinHook has enabled   *)
(* the hook the call goes straight to Streamline, and can still be there when *)
(* the hook is enabled.                                                       *)
GameCall(t, o) ==
  /\ At(t, "idle")
  /\ reflex_ready
  /\ arg' = [arg EXCEPT ![t] = o]
  /\ Goto(t, IF minhook = "enabled" THEN "enter" ELSE "direct")
  /\ UNCHANGED <<lockVars, hookVars, pollVars, streamlineVars, frame_limit_us,
                 original_frame_limit_us, options, result, driver>>

GameDirect(t) ==
  /\ At(t, "direct")
  /\ driver' = Accepted(arg[t], "direct")
  /\ arg' = [arg EXCEPT ![t] = Cache]
  /\ Goto(t, "idle")
  /\ UNCHANGED <<lockVars, hookVars, pollVars, streamlineVars, frame_limit_us,
                 original_frame_limit_us, options, result>>

-------------------------------------------------------------------------------
FindReflexOnce ==            \* mutated: a feature that is not ready is given up
  /\ At(Worker, "install")
  /\ Goto(Worker, IF find_feature_function("slReflexSetOptions")
                    THEN "delay" ELSE "poll")
  /\ UNCHANGED <<lockVars, hookVars, callVars, pollVars, streamlineVars,
                 frame_limit_us, options, result, driver>>

(* install_reflex_hook(initial_fps), entered at "install".                    *)
FindReflex ==
  /\ At(Worker, "install")
  /\ Goto(Worker, IF find_feature_function("slReflexSetOptions")
                    THEN "delay" ELSE "retry")
  /\ UNCHANGED <<lockVars, hookVars, callVars, pollVars, streamlineVars,
                 frame_limit_us, options, result, driver>>

(* The three seconds that leave the game time to initialise, then MinHook.    *)
(* MH_ERROR_ALREADY_INITIALIZED on a later attempt counts as success.         *)
InitializeMinHook ==
  /\ At(Worker, "delay")
  /\ \/ /\ minhook' = IF minhook = "uninitialized" THEN "absent" ELSE minhook
        /\ Goto(Worker, "prepare")
     \/ /\ May("init") /\ minhook = "uninitialized"
        /\ UNCHANGED minhook
        /\ Goto(Worker, "retry")
  /\ UNCHANGED <<lockVars, callVars, pollVars, streamlineVars, frame_limit_us,
                 original_set_options, options, result, driver>>

PrepareWithoutLock(initial_fps) ==     \* mutated: the lock is not initialised
  /\ At(Worker, "prepare")
  /\ frame_limit_us' = fps_to_frame_limit_us(initial_fps)
  /\ Goto(Worker, "create")
  /\ UNCHANGED <<lockVars, hookVars, callVars, pollVars, streamlineVars, options,
                 result, driver>>
PrepareWithoutLimit(initial_fps) ==    \* mutated: the initial limit is not stored
  /\ At(Worker, "prepare")
  /\ set_options_lock_initialized' = TRUE
  /\ Goto(Worker, "create")
  /\ UNCHANGED <<set_options_lock, hookVars, callVars, pollVars, streamlineVars,
                 frame_limit_us, options, result, driver>>

(* What intercepted calls need is in place before the hook exists.            *)
PrepareHook(initial_fps) ==
  /\ At(Worker, "prepare")
  /\ frame_limit_us' = fps_to_frame_limit_us(initial_fps)
  /\ set_options_lock_initialized' = TRUE
  /\ Goto(Worker, "create")
  /\ UNCHANGED <<set_options_lock, hookVars, callVars, pollVars, streamlineVars,
                 options, result, driver>>

(* A hook that an earlier attempt could not remove cannot be created again.   *)
CreateHook ==
  /\ At(Worker, "create")
  /\ \/ /\ minhook = "absent"
        /\ minhook' = "created"
        /\ original_set_options' = TRUE
        /\ Goto(Worker, "enable")
     \/ /\ May("create") \/ minhook = "created"
        /\ Goto(Worker, "retry")
        /\ UNCHANGED hookVars
  /\ UNCHANGED <<lockVars, callVars, pollVars, streamlineVars, frame_limit_us,
                 options, result, driver>>

EnableHook ==
  /\ At(Worker, "enable")
  /\ minhook' = "enabled"
  /\ Goto(Worker, "poll")
  /\ UNCHANGED <<lockVars, callVars, pollVars, streamlineVars, frame_limit_us,
                 original_set_options, options, result, driver>>

(* The trampoline is cleared only when MinHook did remove the hook.           *)
remove_reflex_hook ==
  \/ minhook' = "absent" /\ original_set_options' = FALSE
  \/ May("remove") /\ UNCHANGED hookVars

EnableHookFails ==
  /\ At(Worker, "enable")
  /\ May("enable")
  /\ remove_reflex_hook
  /\ Goto(Worker, "retry")
  /\ UNCHANGED <<lockVars, callVars, pollVars, streamlineVars, frame_limit_us,
                 options, result, driver>>

InstallStep(initial_fps) ==
  \/ FindReflex \/ InitializeMinHook \/ PrepareHook(initial_fps)
  \/ CreateHook \/ EnableHook \/ EnableHookFails

-------------------------------------------------------------------------------
(* set_reflex_fps_limit(fps), entered at "set_reflex": the atomic limit is    *)
(* stored, then the worker calls the hook with the mod's own object.          *)
SetReflexFpsLimit(fps) ==
  /\ At(Worker, "set_reflex")
  /\ frame_limit_us' = fps_to_frame_limit_us(fps)
  /\ arg' = [arg EXCEPT ![Worker] = Cache]
  /\ Goto(Worker, "enter")
  /\ UNCHANGED <<lockVars, hookVars, pollVars, streamlineVars,
                 original_frame_limit_us, options, result, driver>>

(* The address is kept once it was found.                                     *)
initialize_dlssg == get_state \/ find_feature_function("slDLSSGGetState")

FrameGeneration == IF presented > 1 THEN "active" ELSE "inactive"

GetFrameGenerationState ==
  /\ At(Worker, "poll")
  /\ get_state' = initialize_dlssg
  /\ IF get_state'
       THEN \E ok \in Outcomes("poll") :
              frame_generation_state' = IF ok THEN FrameGeneration ELSE "error"
       ELSE frame_generation_state' = "error"
  /\ Goto(Worker, "target")
  /\ UNCHANGED <<lockVars, hookVars, callVars, streamlineVars, frame_limit_us,
                 options, result, driver>>

-------------------------------------------------------------------------------
(* Streamline and the game: the features appear while the game starts, DLSS-G *)
(* can be re-created, frame generation is switched at any time.               *)
ReflexBecomesReady ==
  /\ ~reflex_ready /\ reflex_ready' = TRUE
  /\ UNCHANGED <<dlssg_ready, presented>>

DlssgChanges ==
  /\ dlssg_ready' = ~dlssg_ready
  /\ UNCHANGED <<reflex_ready, presented>>

PresentedChanges ==
  /\ presented' = 3 - presented
  /\ UNCHANGED <<reflex_ready, dlssg_ready>>

StreamlineChanges ==
  /\ ReflexBecomesReady \/ DlssgChanges \/ PresentedChanges
  /\ UNCHANGED <<lockVars, hookVars, callVars, pollVars, frame_limit_us, options,
                 pc, result, driver>>

GameStep(t) == GameDirect(t) \/ \E o \in Objects : GameCall(t, o)

HookLabels == {"enter", "save", "override", "call", "restore"}
===============================================================================
