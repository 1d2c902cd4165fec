----------------------------- MODULE UnityFpsLimit -----------------------------
(* unity_fps_limit/main.cpp: a mod whose worker waits until the scripting     *)
(* backend of Unity can be called, IL2CPP or Mono, and sets the vertical      *)
(* synchronisation and the frame rate through it, once.                       *)
(*                                                                            *)
(* The backends and the game are external: a backend comes up step by step,   *)
(* its setters may throw, and the game writes the same two settings.          *)
EXTENDS Integers

CONSTANTS
  INT_MIN, INT_MAX,    \* the range of the settings
  Invalid,             \* any text that is not a whole number
  FpsTexts, VsyncTexts,    \* what may be in config.ini
  GameValue,           \* what the game writes, or Unity starts with
  Faults               \* what may fail: thread, path, exports, throw

Backends == {"il2cpp", "mono_bdwgc", "mono"}

(* How far a backend is: its module is loaded, its domain exists, the image   *)
(* of UnityEngine with the two setters is found.                              *)
Stages == 0..3

ASSUME UnityFpsLimitAssumption ==
  /\ {INT_MIN, INT_MAX} \subseteq Int /\ INT_MIN <= -1 /\ INT_MAX >= 0
  /\ Invalid \notin Int /\ GameValue \notin Int
  /\ Faults \subseteq {"thread", "path", "exports", "throw"}

VARIABLES
  texts,        \* config.ini
  config,       \* the two settings that the worker read
  pc,
  backend,      \* the one that the attempt in progress calls
  stage, exports,    \* of each backend: how far it is, has it all the functions?
  setting,      \* vsync and fps in Unity
  writer        \* history: who wrote each of them last

unityVars == <<stage, exports>>
settingVars == <<setting, writer>>
vars == <<texts, config, pc, backend, unityVars, settingVars>>

DEFAULT_FPS == -1
DEFAULT_VSYNC == 0
Settings == {"vsync", "fps"}
Defaults == [vsync |-> DEFAULT_VSYNC, fps |-> DEFAULT_FPS]

Init ==
  /\ texts \in [vsync : VsyncTexts, fps : FpsTexts]
  /\ config = Defaults
  /\ pc = "load"
  /\ backend = "mono"
  /\ stage = [b \in Backends |-> 0]
  /\ exports \in [Backends -> IF "exports" \in Faults THEN BOOLEAN ELSE {TRUE}]
  /\ setting = [s \in Settings |-> GameValue]
  /\ writer = [s \in Settings |-> "unity"]

-------------------------------------------------------------------------------
(* on_mod_load and fps_worker.                                                *)
WorkerUnchanged == UNCHANGED <<texts, unityVars>>

on_mod_load ==
  /\ pc = "load"
  /\ pc' \in {"config"} \cup (IF "thread" \in Faults THEN {"stopped"} ELSE {})
  /\ UNCHANGED <<config, backend, settingVars>> /\ WorkerUnchanged

UncheckedParse(text, fallback) ==    \* mutated: any number is taken
  IF text = Invalid THEN fallback ELSE text

(* A text is abstracted to the number that it spells, or Invalid.             *)
read_config_int(text, fallback) ==
  IF text \in INT_MIN..INT_MAX THEN text ELSE fallback

ReadConfig ==
  /\ pc = "config"
  /\ \/ config' = [vsync |-> read_config_int(texts.vsync, DEFAULT_VSYNC),
                   fps |-> read_config_int(texts.fps, DEFAULT_FPS)]
     \/ "path" \in Faults /\ UNCHANGED config
  /\ pc' = "il2cpp"
  /\ UNCHANGED <<backend, settingVars>> /\ WorkerUnchanged

(* Each round tries IL2CPP and then one Mono, the newer one when it is there. *)
Mono == IF stage["mono_bdwgc"] > 0 THEN "mono_bdwgc" ELSE "mono"
IfAbsent(b) ==               \* mutated: Mono is for games without IL2CPP only
  IF b = "il2cpp" /\ stage[b] = 0 THEN "mono" ELSE "sleep"

AfterFailure(b) == IF b = "il2cpp" THEN "mono" ELSE "sleep"

(* The search of invoke_il2cpp_setters and invoke_mono_setters: exports,      *)
(* domain, image, classes and setters, giving up at the first that is missing.*)
FindSetters(b) ==
  /\ backend' = b
  /\ pc' = IF exports[b] /\ stage[b] = 3 THEN "vsync" ELSE AfterFailure(b)

TryBackend ==
  /\ \/ pc = "il2cpp" /\ FindSetters("il2cpp")
     \/ pc = "mono" /\ FindSetters(Mono)
  /\ UNCHANGED <<config, settingVars>> /\ WorkerUnchanged

(* A setter is a managed call through the backend. One that throws has set    *)
(* nothing and ends the attempt.                                              *)
Invoke(s, from, to) ==
  /\ pc = from
  /\ \/ /\ setting' = [setting EXCEPT ![s] = config[s]]
        /\ writer' = [writer EXCEPT ![s] = backend]
        /\ pc' = to
     \/ /\ "throw" \in Faults
        /\ pc' = AfterFailure(backend)
        /\ UNCHANGED settingVars
  /\ UNCHANGED <<config, backend>> /\ WorkerUnchanged

SecondMayThrow ==            \* mutated: only the first exception is looked at
  \/ Invoke("vsync", "vsync", "fps") \/ Invoke("fps", "fps", "done")
  \/ /\ pc = "fps" /\ "throw" \in Faults /\ pc' = "done"
     /\ UNCHANGED <<config, backend, settingVars>> /\ WorkerUnchanged

InvokeSetters == Invoke("vsync", "vsync", "fps") \/ Invoke("fps", "fps", "done")

Wake ==
  /\ pc = "sleep"
  /\ pc' = "il2cpp"
  /\ UNCHANGED <<config, backend, settingVars>> /\ WorkerUnchanged

WorkerStep == on_mod_load \/ ReadConfig \/ TryBackend \/ InvokeSetters \/ Wake

-------------------------------------------------------------------------------
BackendComesUp ==
  /\ \E b \in Backends : stage[b] < 3 /\ stage' = [stage EXCEPT ![b] = @ + 1]
  /\ UNCHANGED <<texts, config, pc, backend, exports, settingVars>>

GameWrites ==
  /\ \E s \in Settings :
       /\ setting' = [setting EXCEPT ![s] = GameValue]
       /\ writer' = [writer EXCEPT ![s] = "game"]
  /\ UNCHANGED <<texts, config, pc, backend, unityVars>>

Next == WorkerStep \/ BackendComesUp \/ GameWrites

Spec == Init /\ [][Next]_vars

(* The worker is scheduled; a setter that is called again and again succeeds  *)
(* in the end. No backend need ever come up.                                  *)
FairSpec ==
  /\ Spec
  /\ WF_vars(WorkerStep)
  /\ SF_vars(InvokeSetters /\ pc' = "fps") /\ SF_vars(InvokeSetters /\ pc' = "done")

-------------------------------------------------------------------------------
TypeOK ==
  /\ texts \in [vsync : VsyncTexts, fps : FpsTexts]
  /\ config \in [Settings -> INT_MIN..INT_MAX]
  /\ pc \in {"load", "stopped", "config", "il2cpp", "mono", "vsync", "fps", "sleep",
             "done"}
  /\ backend \in Backends
  /\ stage \in [Backends -> Stages] /\ exports \in [Backends -> BOOLEAN]
  /\ setting \in [Settings -> (INT_MIN..INT_MAX) \cup {GameValue}]
  /\ writer \in [Settings -> Backends \cup {"unity", "game"}]

(* The mod never limits the frame rate under the vertical synchronisation     *)
(* that it found, with which Unity would ignore the limit (README.md). When   *)
(* the worker reports success both settings went through one and the same     *)
(* backend, in spite of attempts that failed half done before, and what the   *)
(* game has not written since is as configured (invoke_il2cpp_setters,        *)
(* invoke_mono_setters, fps_worker).                                          *)
AppliedTogether ==
  /\ writer["fps"] \in Backends => writer["vsync"] # "unity"
  /\ pc = "done" =>
       \E b \in Backends : \A s \in Settings :
         writer[s] = "game" \/ (writer[s] = b /\ setting[s] = config[s])

(* Once a backend can be called for good the settings are applied, whatever   *)
(* other backend is loaded and never comes up, but for one: an older Mono is  *)
(* never tried while the newer one is loaded (fps_worker).                    *)
Usable(b) == exports[b] /\ stage[b] = 3 /\ (b = "mono" => stage["mono_bdwgc"] = 0)
LimitApplied ==
  \A b \in Backends : <>[](Usable(b) /\ pc # "stopped") => <>(pc = "done")
===============================================================================
