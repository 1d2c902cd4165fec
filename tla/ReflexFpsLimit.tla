---------------------------- MODULE ReflexFpsLimit ----------------------------
(* reflex_fps_limit/main.cpp: the mod that keeps one frame limit in force.    *)
(* Its worker hooks slReflexSetOptions, once, and then makes a first call of  *)
(* its own, so that the limit does not wait for the game. The hook takes its  *)
(* lock only until that first call is over.                                   *)
EXTENDS FrameLimit

CONSTANTS
  GameThreads,       \* the threads of the game that set Reflex options
  Worker,            \* the thread of the mod
  NoThread,          \* owner of a free lock
  Objects,           \* the ReflexOptions objects of the game
  Initial,           \* the ReflexOptions object on the stack of the worker
  ConfigTexts,       \* what fps may be in config.ini
  GameLimits,        \* the limits that the game writes in its objects
  SharedObjects,     \* may two calls of the game be given the same object at once?
  Faults             \* the external calls that may fail

Threads == GameThreads \cup {Worker}
AllObjects == Objects \cup {Initial}

ASSUME ReflexFpsLimitAssumption ==
  /\ Worker \notin GameThreads
  /\ NoThread \notin Threads
  /\ Initial \notin Objects
  /\ GameLimits \subseteq Nat
  /\ SharedObjects \in BOOLEAN
  /\ Faults \subseteq {"thread", "init", "create", "enable", "set"}

VARIABLES
  text,                          \* the fps of config.ini
  frame_limit_us,
  initial_set_options_complete,
  set_options_lock,              \* the thread that owns the critical section
  hook,                          \* none, created, enabled
  original_set_options,          \* does the trampoline point to the function?
  reflex_ready,                  \* does find_hook_target find the function?
  pc,                            \* the next step of each thread
  arg,                           \* the object that a call in progress was given
  lock_required,                 \* locals of hooked_set_options
  original_frame_limit_us,
  options,                       \* the limit in every options object
  written,                       \* what the game wrote there
  driver                         \* the limit that Reflex last accepted

localVars == <<lock_required, original_frame_limit_us>>
hookVars == <<initial_set_options_complete, set_options_lock>>
installVars == <<text, frame_limit_us, hook, original_set_options, reflex_ready>>
vars == <<installVars, hookVars, pc, arg, localVars, options, written, driver>>

At(t, label) == pc[t] = label
Goto(t, label) == pc' = [pc EXCEPT ![t] = label]
May(fault) == fault \in Faults
InUse(o) == \E t \in Threads : pc[t] # "idle" /\ arg[t] = o

DEFAULT_FPS == 60

Init ==
  /\ text \in ConfigTexts
  /\ frame_limit_us = 0
  /\ initial_set_options_complete = FALSE
  /\ set_options_lock = NoThread
  /\ hook = "none"
  /\ original_set_options = FALSE
  /\ reflex_ready = FALSE
  /\ pc = [t \in Threads |-> IF t = Worker THEN "load" ELSE "idle"]
  /\ arg = [t \in Threads |-> Initial]
  /\ lock_required = [t \in Threads |-> FALSE]
  /\ original_frame_limit_us = [t \in Threads |-> 0]
  /\ options = [o \in AllObjects |-> 0]
  /\ written = [o \in AllObjects |-> 0]
  /\ driver = [limit |-> 0, via |-> "none"]

-------------------------------------------------------------------------------
(* hooked_set_options, which a thread enters at label "enter".                *)
HookUnchanged == UNCHANGED <<installVars, initial_set_options_complete, arg, written>>

ReadComplete(t) ==
  /\ At(t, "enter")
  /\ lock_required' = [lock_required EXCEPT ![t] = ~initial_set_options_complete]
  /\ Goto(t, IF initial_set_options_complete THEN "save" ELSE "lock")
  /\ UNCHANGED <<set_options_lock, original_frame_limit_us, options, driver>>
  /\ HookUnchanged

EnterLock(t) ==
  /\ At(t, "lock")
  /\ set_options_lock = NoThread
  /\ set_options_lock' = t
  /\ Goto(t, "save")
  /\ UNCHANGED <<localVars, options, driver>>
  /\ HookUnchanged

SaveLimit(t) ==
  /\ At(t, "save")
  /\ original_frame_limit_us' = [original_frame_limit_us EXCEPT ![t] = options[arg[t]]]
  /\ Goto(t, "override")
  /\ UNCHANGED <<set_options_lock, lock_required, options, driver>>
  /\ HookUnchanged

OverrideLimit(t) ==
  /\ At(t, "override")
  /\ options' = [options EXCEPT ![arg[t]] = frame_limit_us]
  /\ Goto(t, "call")
  /\ UNCHANGED <<set_options_lock, localVars, driver>>
  /\ HookUnchanged

(* At label "call" the thread is inside Streamline, which reads the options   *)
(* at some point of the call. A call through a trampoline that was not set    *)
(* never comes back.                                                          *)
CallOriginal(t) ==
  /\ At(t, "call")
  /\ original_set_options
  /\ \/ driver' = [limit |-> options[arg[t]], via |-> "hook"]
     \/ May("set") /\ UNCHANGED driver
  /\ Goto(t, "restore")
  /\ UNCHANGED <<set_options_lock, localVars, options>>
  /\ HookUnchanged

RestoreAfterUnlock(t) ==     \* mutated: only the calls under the lock are restored
  /\ At(t, "restore")
  /\ options' = IF lock_required[t]
                  THEN [options EXCEPT ![arg[t]] = original_frame_limit_us[t]]
                  ELSE options
  /\ Goto(t, IF lock_required[t] THEN "unlock" ELSE "return")
  /\ UNCHANGED <<set_options_lock, localVars, driver>>
  /\ HookUnchanged

RereadComplete(t) ==         \* mutated: the flag is read again for the unlock
  /\ At(t, "restore")
  /\ options' = [options EXCEPT ![arg[t]] = original_frame_limit_us[t]]
  /\ Goto(t, IF initial_set_options_complete THEN "return" ELSE "unlock")
  /\ UNCHANGED <<set_options_lock, localVars, driver>>
  /\ HookUnchanged

RestoreLimit(t) ==
  /\ At(t, "restore")
  /\ options' = [options EXCEPT ![arg[t]] = original_frame_limit_us[t]]
  /\ Goto(t, IF lock_required[t] THEN "unlock" ELSE "return")
  /\ UNCHANGED <<set_options_lock, localVars, driver>>
  /\ HookUnchanged

LeaveLock(t) ==
  /\ At(t, "unlock")
  /\ set_options_lock' = NoThread
  /\ Goto(t, "return")
  /\ UNCHANGED <<localVars, options, driver>>
  /\ HookUnchanged

Return(t) ==
  /\ At(t, "return")
  /\ Goto(t, IF t = Worker THEN "complete" ELSE "idle")
  /\ UNCHANGED <<set_options_lock, localVars, options, driver>>
  /\ HookUnchanged

HookStep(t) ==
  \/ ReadComplete(t) \/ SaveLimit(t) \/ OverrideLimit(t) \/ CallOriginal(t)
  \/ RestoreLimit(t) \/ LeaveLock(t) \/ Return(t)

-------------------------------------------------------------------------------
(* The game writes a limit in one of its objects and passes it to Streamline; *)
(* a call that comes before the hook is enabled goes past it.                 *)
GameCall(t) ==
  /\ t \in GameThreads /\ At(t, "idle")
  /\ reflex_ready
  /\ \E o \in Objects :
       /\ ~InUse(o) \/ SharedObjects
       /\ IF InUse(o)
            THEN UNCHANGED <<options, written>>
            ELSE \E limit \in GameLimits :
                   /\ options' = [options EXCEPT ![o] = limit]
                   /\ written' = [written EXCEPT ![o] = limit]
       /\ arg' = [arg EXCEPT ![t] = o]
  /\ Goto(t, IF hook = "enabled" THEN "enter" ELSE "direct")
  /\ UNCHANGED <<installVars, hookVars, localVars, driver>>

GameDirect(t) ==
  /\ At(t, "direct")
  /\ driver' = [limit |-> options[arg[t]], via |-> "direct"]
  /\ Goto(t, "idle")
  /\ UNCHANGED <<installVars, hookVars, arg, localVars, options, written>>

ReflexBecomesReady ==
  /\ ~reflex_ready
  /\ reflex_ready' = TRUE
  /\ UNCHANGED <<text, frame_limit_us, hook, original_set_options, hookVars, pc, arg,
                 localVars, options, written, driver>>

-------------------------------------------------------------------------------
(* on_mod_load and worker. A failed step of the installation is final.        *)
WorkerUnchanged ==
  UNCHANGED <<text, reflex_ready, set_options_lock, arg, localVars, options,
              written, driver>>

on_mod_load ==
  /\ At(Worker, "load")
  /\ \/ Goto(Worker, "config")
     \/ May("thread") /\ Goto(Worker, "failed")
  /\ UNCHANGED <<frame_limit_us, initial_set_options_complete, hook, original_set_options>>
  /\ WorkerUnchanged

configured_limit == fps_to_frame_limit_us(read_config_fps(text, DEFAULT_FPS))

ReadConfig ==
  /\ At(Worker, "config")
  /\ frame_limit_us' = configured_limit
  /\ Goto(Worker, "init")
  /\ UNCHANGED <<initial_set_options_complete, hook, original_set_options>>
  /\ WorkerUnchanged

InitializeMinHook ==
  /\ At(Worker, "init")
  /\ \/ Goto(Worker, "find")
     \/ May("init") /\ Goto(Worker, "failed")
  /\ UNCHANGED <<frame_limit_us, initial_set_options_complete, hook, original_set_options>>
  /\ WorkerUnchanged

FindOnce ==                  \* mutated: a target that is not there is not retried
  /\ At(Worker, "find")
  /\ Goto(Worker, IF reflex_ready THEN "create" ELSE "stopped")
  /\ UNCHANGED <<frame_limit_us, initial_set_options_complete, hook, original_set_options>>
  /\ WorkerUnchanged

(* A search that finds nothing is repeated after RETRY_INTERVAL_MS.           *)
find_hook_target ==
  /\ At(Worker, "find")
  /\ reflex_ready
  /\ Goto(Worker, "create")
  /\ UNCHANGED <<frame_limit_us, initial_set_options_complete, hook, original_set_options>>
  /\ WorkerUnchanged

(* MH_CreateHook sets the trampoline.                                         *)
CreateHook ==
  /\ At(Worker, "create")
  /\ \/ hook' = "created" /\ original_set_options' = TRUE /\ Goto(Worker, "enable")
     \/ May("create") /\ UNCHANGED <<hook, original_set_options>> /\ Goto(Worker, "failed")
  /\ UNCHANGED <<frame_limit_us, initial_set_options_complete>>
  /\ WorkerUnchanged

CompleteTooEarly ==          \* mutated: the flag is set before the first call
  /\ At(Worker, "enable")
  /\ \/ /\ hook' = "enabled"
        /\ initial_set_options_complete' = TRUE
        /\ Goto(Worker, "enter")
     \/ /\ May("enable")
        /\ hook' = "none"
        /\ UNCHANGED initial_set_options_complete
        /\ Goto(Worker, "failed")
  /\ UNCHANGED <<frame_limit_us, original_set_options>>
  /\ WorkerUnchanged

(* Once the hook is enabled the worker calls it with options of its own; a    *)
(* hook that cannot be enabled is removed.                                    *)
EnableHook ==
  /\ At(Worker, "enable")
  /\ \/ hook' = "enabled" /\ Goto(Worker, "enter")
     \/ May("enable") /\ hook' = "none" /\ Goto(Worker, "failed")
  /\ UNCHANGED <<frame_limit_us, initial_set_options_complete, original_set_options>>
  /\ WorkerUnchanged

SetComplete ==
  /\ At(Worker, "complete")
  /\ initial_set_options_complete' = TRUE
  /\ Goto(Worker, "stopped")
  /\ UNCHANGED <<frame_limit_us, hook, original_set_options>>
  /\ WorkerUnchanged

WorkerStep ==
  \/ on_mod_load \/ ReadConfig \/ InitializeMinHook \/ find_hook_target
  \/ CreateHook \/ EnableHook \/ SetComplete

Next ==
  \/ WorkerStep
  \/ \E t \in Threads : HookStep(t) \/ EnterLock(t)
  \/ \E t \in GameThreads : GameCall(t) \/ GameDirect(t)
  \/ ReflexBecomesReady

Spec == Init /\ [][Next]_vars

(* Threads are scheduled, calls of Streamline return, and the lock is not     *)
(* always given to others. Nothing makes the game call.                       *)
Fairness ==
  /\ WF_vars(WorkerStep)
  /\ \A t \in Threads : WF_vars(HookStep(t)) /\ SF_vars(EnterLock(t))
  /\ \A t \in GameThreads : WF_vars(GameDirect(t))

FairSpec == Spec /\ Fairness

-------------------------------------------------------------------------------
Labels ==
  {"load", "config", "init", "find", "create", "enable", "complete", "stopped", "failed",
   "idle", "direct", "enter", "lock", "save", "override", "call", "restore",
   "unlock", "return"}

TypeOK ==
  /\ text \in ConfigTexts
  /\ frame_limit_us \in 0..MICROSECONDS
  /\ initial_set_options_complete \in BOOLEAN
  /\ set_options_lock \in Threads \cup {NoThread}
  /\ hook \in {"none", "created", "enabled"}
  /\ original_set_options \in BOOLEAN /\ reflex_ready \in BOOLEAN
  /\ pc \in [Threads -> Labels]
  /\ arg \in [Threads -> AllObjects]
  /\ lock_required \in [Threads -> BOOLEAN]
  /\ original_frame_limit_us \in [Threads -> Nat]
  /\ options \in [AllObjects -> Nat] /\ written \in [AllObjects -> Nat]
  /\ driver \in [limit : Nat, via : {"none", "direct", "hook"}]

(* The limit in use is the nearest frame time to the rate in config.ini, or   *)
(* to the default where there is none that fits 32 bits. Zero, which          *)
(* Streamline reads as "unlimited", stands for a rate of 0 only, however high *)
(* a rate is (read_config_fps, fps_to_frame_limit_us).                        *)
AbsDiff(a, b) == IF a > b THEN a - b ELSE b - a
Nearest(us, fps) == 2 * AbsDiff(us * fps, MICROSECONDS) <= fps

FrameTimeIsNearest ==
  pc[Worker] \notin {"load", "config", "failed"} =>
    /\ frame_limit_us = 0 <=> text = 0
    /\ text \in Fps /\ text \in 1..(2 * MICROSECONDS) => Nearest(frame_limit_us, text)
    /\ text \in Fps /\ text > 2 * MICROSECONDS => frame_limit_us = 1
    /\ text \notin Fps => Nearest(frame_limit_us, DEFAULT_FPS)

(* While the worker's own call is inside Streamline no intercepted call of    *)
(* the game is: the game, which may call from one thread only, cannot know of *)
(* the worker (hooked_set_options, initial_set_options_complete).             *)
InitialCallAlone ==
  At(Worker, "call") => \A t \in GameThreads : ~At(t, "call")

(* Every call that goes through the hook reaches Streamline with the limit of *)
(* config.ini in place of the game's (README.md; hooked_set_options).         *)
HookedCallsLimited ==
  driver.via = "hook" => driver.limit = configured_limit

(* Each intercepted call, the first one included, gives Streamline the limit  *)
(* of config.ini, and the game finds its objects as it wrote them. Calls may  *)
(* overlap, since the limit never changes (hooked_set_options, worker).       *)
Overriding(t) == pc[t] \in {"call", "restore"}
UsedBy(o) == {t \in Threads : Overriding(t) /\ arg[t] = o}

ObjectLimits ==
  [o \in Objects |-> IF UsedBy(o) = {}
                       THEN options[o]
                       ELSE original_frame_limit_us[CHOOSE t \in UsedBy(o) : TRUE]]

Held ==
  [t \in Threads |->
    IF Overriding(t)
      THEN {[limit |-> options[arg[t]], delivered |-> pc[t] = "restore"]}
      ELSE {}]

Setter == INSTANCE LimitedSetter WITH
  Threads <- Threads,
  Objects <- Objects,
  Serial <- FALSE,
  limit <- configured_limit,
  objects <- ObjectLimits,
  held <- Held
ImplementsLimitedSetter == Setter!Spec

(* Whenever Streamline becomes ready, the worker's call with the limit        *)
(* follows without any call of the game, unless a step of the installation    *)
(* failed (worker).                                                           *)
LimitReached ==
  reflex_ready ~> (initial_set_options_complete \/ At(Worker, "failed"))

(* Every intercepted call returns: no thread is left waiting for a lock that  *)
(* nobody gives back, nor calls through a trampoline that is not there        *)
(* (hooked_set_options, worker).                                              *)
CallsReturn == \A t \in GameThreads : At(t, "enter") ~> At(t, "idle")
===============================================================================
