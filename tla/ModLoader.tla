------------------------------- MODULE ModLoader -------------------------------
(* mod_loader/proxy.cpp and proxy_generated.cpp: a DLL that takes the place   *)
(* of a system DLL, forwards its functions to the real one, and loads the     *)
(* mods from a thread of its own. The threads of the mods log through the     *)
(* mod_log callback while the loader goes on, and the process may end at any  *)
(* moment, which kills every thread where it stands.                          *)
EXTENDS Naturals, Sequences, FiniteSets

CONSTANTS
  Entries,        \* the files that mods\*.dll may contain
  Loader,         \* the thread that runs load_mods
  NoThread,       \* owner of a free lock
  Exports,        \* the functions of proxylist.txt
  ExportsOf,      \* which of them each real DLL has
  MaxLogs         \* bound: how often the thread of a mod logs

(* The thread that a mod starts in on_mod_load is named after its entry.      *)
Threads == Entries \cup {Loader}
Dlls == {"alt", "system"}
Kinds == {"absent", "directory", "no_export", "load_fails", "unresolved", "mod"}

ASSUME ModLoaderAssumption ==
  /\ Loader \notin Entries
  /\ NoThread \notin Threads
  /\ ExportsOf \in [Dlls -> SUBSET Exports]
  /\ MaxLogs \in Nat

VARIABLES
  kind,           \* what each entry is
  installed,      \* which real DLLs can be loaded
  phase,          \* the process: attaching, running, exiting, terminated
  dll_main,       \* next step of DllMain
  g_real_dll,
  functions,      \* where each forwarded function points
  g_log_lock,     \* the owner of the critical section
  lock_state,     \* none, initialized, deleted
  g_log_file,     \* invalid, open, closed
  mod_log_file,   \* the parts written to mod.log
  pc,             \* next step of each thread
  message,        \* what a thread in mod_log is writing
  return,         \* where it goes on afterwards
  unvisited,      \* entries that the enumeration has still to report
  entry,          \* the entry at hand
  mapped,         \* entries whose DLL is loaded in the process
  attached,       \* entries whose DLL ever ran its initialiser
  on_load_calls,  \* how often on_mod_load of each entry was called
  logs            \* records that the thread of each mod has written

processVars == <<kind, installed, phase>>
proxyVars == <<dll_main, g_real_dll, functions>>
logVars == <<g_log_lock, lock_state, g_log_file, mod_log_file>>
callVars == <<message, return>>
modVars == <<mapped, attached, on_load_calls>>
vars == <<processVars, proxyVars, logVars, pc, callVars, unvisited, entry, modVars, logs>>

At(t, label) == pc[t] = label
Goto(t, label) == pc' = [pc EXCEPT ![t] = label]

NoMessage == [text |-> "none", about |-> Loader]

Init ==
  /\ kind \in [Entries -> Kinds]
  /\ installed \in SUBSET Dlls
  /\ phase = "attaching"
  /\ dll_main = "lock"
  /\ g_real_dll = "none"
  /\ functions = [f \in Exports |-> "null"]
  /\ g_log_lock = NoThread
  /\ lock_state = "none"
  /\ g_log_file = "invalid"
  /\ mod_log_file = <<>>
  /\ pc = [t \in Threads |-> "none"]
  /\ message = [t \in Threads |-> NoMessage]
  /\ return = [t \in Threads |-> "none"]
  /\ unvisited = {e \in Entries : kind[e] # "absent"}
  /\ entry = Loader
  /\ mapped = {} /\ attached = {}
  /\ on_load_calls = [e \in Entries |-> 0]
  /\ logs = [e \in Entries |-> 0]

-------------------------------------------------------------------------------
(* DllMain, DLL_PROCESS_ATTACH, under the loader lock of Windows: no other    *)
(* thread of the process starts, and no export is called, before it returns.  *)
AttachUnchanged ==
  UNCHANGED <<kind, installed, g_log_lock, g_log_file, mod_log_file, callVars,
              unvisited, entry, modVars, logs>>

InitializeLogLock ==
  /\ dll_main = "lock"
  /\ lock_state' = "initialized"
  /\ dll_main' = "load"
  /\ UNCHANGED <<phase, g_real_dll, functions, pc>>
  /\ AttachUnchanged

SystemFirst ==               \* mutated: System32 is tried first
  IF "system" \in installed THEN "system"
  ELSE IF "alt" \in installed THEN "alt" ELSE "none"

(* The DLL next to the proxy under its _alt name comes before System32.       *)
load_proxy ==
  IF "alt" \in installed THEN "alt"
  ELSE IF "system" \in installed THEN "system" ELSE "none"

LoadRealDll ==
  /\ dll_main = "load"
  /\ g_real_dll' = load_proxy
  /\ dll_main' = IF load_proxy = "none" THEN "failed" ELSE "functions"
  /\ UNCHANGED <<phase, lock_state, functions, pc>>
  /\ AttachUnchanged

(* One GetProcAddress per line of proxylist.txt; a function that the real DLL *)
(* does not have stays null.                                                  *)
load_functions ==
  /\ dll_main = "functions"
  /\ functions' = [f \in Exports |-> IF f \in ExportsOf[g_real_dll] THEN g_real_dll
                                                                    ELSE "null"]
  /\ dll_main' = "thread"
  /\ UNCHANGED <<phase, lock_state, g_real_dll, pc>>
  /\ AttachUnchanged

(* Without the thread the proxy only forwards.                                *)
CreateLoaderThread ==
  /\ dll_main = "thread"
  /\ \/ Goto(Loader, "open_log")
     \/ UNCHANGED pc
  /\ dll_main' = "attached"
  /\ phase' = "running"
  /\ UNCHANGED <<lock_state, g_real_dll, functions>>
  /\ AttachUnchanged

(* DllMain returned FALSE: Windows detaches the DLL and the game, which needs *)
(* it, does not start.                                                        *)
AttachFails ==
  /\ dll_main = "failed" /\ phase = "attaching"
  /\ phase' = "exiting"
  /\ UNCHANGED <<dll_main, lock_state, g_real_dll, functions, pc>>
  /\ AttachUnchanged

Attach ==
  \/ InitializeLogLock \/ LoadRealDll \/ load_functions
  \/ CreateLoaderThread \/ AttachFails

-------------------------------------------------------------------------------
(* mod_log, which a thread enters with CallLog and leaves for label then. It  *)
(* writes nothing when the file could not be created.                         *)
CallLog(t, text, about, then) ==
  /\ message' = [message EXCEPT ![t] = [text |-> text, about |-> about]]
  /\ return' = [return EXCEPT ![t] = then]
  /\ Goto(t, IF g_log_file = "invalid" THEN "log_done" ELSE "log_enter")

LogUnchanged ==
  UNCHANGED <<processVars, proxyVars, unvisited, entry, modVars, logs>>

TryEnterLog(t) ==            \* mutated: a record is dropped when the lock is taken
  /\ At(t, "log_enter")
  /\ g_log_lock' = IF g_log_lock = NoThread THEN t ELSE g_log_lock
  /\ Goto(t, IF g_log_lock = NoThread THEN "log_prefix" ELSE "log_done")
  /\ UNCHANGED <<lock_state, g_log_file, mod_log_file, callVars>>
  /\ LogUnchanged

EnterLog(t) ==
  /\ At(t, "log_enter")
  /\ g_log_lock = NoThread
  /\ g_log_lock' = t
  /\ Goto(t, "log_prefix")
  /\ UNCHANGED <<lock_state, g_log_file, mod_log_file, callVars>>
  /\ LogUnchanged

(* Three writes make a record: prefix, text, newline.                         *)
WriteFile(t, part, from, to) ==
  /\ At(t, from)
  /\ mod_log_file' = Append(mod_log_file,
                            [writer |-> t, part |-> part, message |-> message[t]])
  /\ Goto(t, to)
  /\ UNCHANGED <<g_log_lock, lock_state, g_log_file, callVars>>
  /\ LogUnchanged

WritePart(t) ==
  \/ WriteFile(t, "prefix", "log_prefix", "log_text")
  \/ WriteFile(t, "text", "log_text", "log_newline")
  \/ WriteFile(t, "newline", "log_newline", "log_leave")

LeaveLog(t) ==
  /\ At(t, "log_leave")
  /\ g_log_lock' = NoThread
  /\ Goto(t, "log_done")
  /\ UNCHANGED <<lock_state, g_log_file, mod_log_file, callVars>>
  /\ LogUnchanged

LogReturns(t) ==
  /\ At(t, "log_done")
  /\ Goto(t, return[t])
  /\ message' = [message EXCEPT ![t] = NoMessage]
  /\ return' = [return EXCEPT ![t] = "none"]
  /\ UNCHANGED logVars
  /\ LogUnchanged

mod_log(t) == EnterLog(t) \/ WritePart(t) \/ LeaveLog(t) \/ LogReturns(t)

-------------------------------------------------------------------------------
(* load_mods.                                                                 *)
LoaderUnchanged ==
  UNCHANGED <<processVars, proxyVars, g_log_lock, lock_state, mod_log_file, logs>>

OpenLog ==
  /\ At(Loader, "open_log")
  /\ g_log_file' \in {"open", "invalid"}
  /\ Goto(Loader, "find_first")
  /\ UNCHANGED <<callVars, unvisited, entry, modVars>>
  /\ LoaderUnchanged

FindFirstFails ==
  /\ At(Loader, "find_first")
  /\ unvisited = {}
  /\ CallLog(Loader, "No mods", Loader, "done")
  /\ UNCHANGED <<g_log_file, unvisited, entry, modVars>>
  /\ LoaderUnchanged

NextEntryAgain ==            \* mutated: the enumeration does not advance
  /\ pc[Loader] \in {"find_first", "next"}
  /\ \E e \in unvisited :
       /\ entry' = e
       /\ unvisited' = IF kind[e] = "mod" THEN unvisited ELSE unvisited \ {e}
       /\ Goto(Loader, IF kind[e] = "directory" THEN "next" ELSE "inspect")
  /\ UNCHANGED <<g_log_file, callVars, modVars>>
  /\ LoaderUnchanged

(* The order of the enumeration is the file system's. A directory is passed   *)
(* over.                                                                      *)
NextEntry ==
  /\ pc[Loader] \in {"find_first", "next"}
  /\ \E e \in unvisited :
       /\ entry' = e
       /\ unvisited' = unvisited \ {e}
       /\ Goto(Loader, IF kind[e] = "directory" THEN "next" ELSE "inspect")
  /\ UNCHANGED <<g_log_file, callVars, modVars>>
  /\ LoaderUnchanged

EndOfEnumeration ==
  /\ At(Loader, "next")
  /\ unvisited = {}
  /\ entry' = Loader
  /\ Goto(Loader, "done")
  /\ UNCHANGED <<g_log_file, callVars, unvisited, modVars>>
  /\ LoaderUnchanged

(* The export table is read from a mapping of the file that executes nothing. *)
has_on_mod_load_export(e) == kind[e] \in {"load_fails", "unresolved", "mod"}

Inspect ==
  /\ At(Loader, "inspect")
  /\ IF has_on_mod_load_export(entry)
       THEN Goto(Loader, "load") /\ UNCHANGED callVars
       ELSE CallLog(Loader, "Skipped DLL", entry, "next")
  /\ UNCHANGED <<g_log_file, unvisited, entry, modVars>>
  /\ LoaderUnchanged

FirstFailureStops ==         \* mutated: a mod that fails ends the enumeration
  /\ At(Loader, "load")
  /\ attached' = attached \cup {entry}
  /\ IF kind[entry] = "load_fails"
       THEN CallLog(Loader, "Failed to load", entry, "done") /\ UNCHANGED mapped
       ELSE Goto(Loader, "resolve") /\ mapped' = mapped \cup {entry} /\ UNCHANGED callVars
  /\ UNCHANGED <<g_log_file, unvisited, entry, on_load_calls>>
  /\ LoaderUnchanged

(* LoadLibrary runs the initialiser of the DLL, which may refuse to load.     *)
LoadMod ==
  /\ At(Loader, "load")
  /\ attached' = attached \cup {entry}
  /\ IF kind[entry] = "load_fails"
       THEN CallLog(Loader, "Failed to load", entry, "next") /\ UNCHANGED mapped
       ELSE Goto(Loader, "resolve") /\ mapped' = mapped \cup {entry} /\ UNCHANGED callVars
  /\ UNCHANGED <<g_log_file, unvisited, entry, on_load_calls>>
  /\ LoaderUnchanged

LoadingLoggedLate ==         \* mutated: the first record comes after on_mod_load
  /\ At(Loader, "resolve")
  /\ IF kind[entry] = "unresolved"
       THEN CallLog(Loader, "Failed to resolve", entry, "free")
       ELSE Goto(Loader, "on_load") /\ UNCHANGED callVars
  /\ UNCHANGED <<g_log_file, unvisited, entry, modVars>>
  /\ LoaderUnchanged

ResolveOnLoad ==
  /\ At(Loader, "resolve")
  /\ IF kind[entry] = "unresolved"
       THEN CallLog(Loader, "Failed to resolve", entry, "free")
       ELSE CallLog(Loader, "Loading mod", entry, "on_load")
  /\ UNCHANGED <<g_log_file, unvisited, entry, modVars>>
  /\ LoaderUnchanged

FreeUnresolved ==
  /\ At(Loader, "free")
  /\ mapped' = mapped \ {entry}
  /\ Goto(Loader, "next")
  /\ UNCHANGED <<g_log_file, callVars, unvisited, entry, attached, on_load_calls>>
  /\ LoaderUnchanged

(* The mod may log, on this thread, and may have started a thread of its own  *)
(* by the time it returns.                                                    *)
OnLoad ==
  /\ At(Loader, "on_load")
  /\ on_load_calls' = [on_load_calls EXCEPT ![entry] = @ + 1]
  /\ \E starts \in BOOLEAN :
       pc' = [pc EXCEPT ![entry] = IF starts THEN "idle" ELSE "none",
                        ![Loader] = "on_load_running"]
  /\ UNCHANGED <<g_log_file, callVars, unvisited, entry, mapped, attached>>
  /\ LoaderUnchanged

OnLoadLogs ==
  /\ At(Loader, "on_load_running")
  /\ CallLog(Loader, "mod text", entry, "on_load_returned")
  /\ UNCHANGED <<g_log_file, unvisited, entry, modVars>>
  /\ LoaderUnchanged

OnLoadReturns ==
  /\ pc[Loader] \in {"on_load_running", "on_load_returned"}
  /\ CallLog(Loader, "Loaded mod", entry, "next")
  /\ UNCHANGED <<g_log_file, unvisited, entry, modVars>>
  /\ LoaderUnchanged

load_mods ==
  \/ OpenLog \/ FindFirstFails \/ NextEntry \/ EndOfEnumeration \/ Inspect \/ LoadMod
  \/ ResolveOnLoad \/ FreeUnresolved \/ OnLoad \/ OnLoadLogs \/ OnLoadReturns

(* The thread of a mod calls the mod_log it was given.                        *)
ModLogs(e) ==
  /\ At(e, "idle")
  /\ logs[e] < MaxLogs
  /\ logs' = [logs EXCEPT ![e] = @ + 1]
  /\ CallLog(e, "mod text", e, "idle")
  /\ UNCHANGED <<processVars, proxyVars, logVars, unvisited, entry, modVars>>

-------------------------------------------------------------------------------
(* The end of the process: Windows kills every other thread at once, lock or  *)
(* no lock, and then detaches the DLL.                                        *)
ExitProcess ==
  /\ phase = "running"
  /\ phase' = "exiting"
  /\ pc' = [t \in Threads |-> "killed"]
  /\ UNCHANGED <<kind, installed, proxyVars, logVars, callVars, unvisited, entry,
                 modVars, logs>>

DetachWaits ==               \* mutated: the log is closed under its lock
  /\ phase = "exiting"
  /\ g_log_lock = NoThread
  /\ g_log_file' = IF g_log_file = "invalid" THEN "invalid" ELSE "closed"
  /\ lock_state' = "deleted"
  /\ phase' = "terminated"
  /\ UNCHANGED <<kind, installed, proxyVars, g_log_lock, mod_log_file, pc, callVars,
                 unvisited, entry, modVars, logs>>

(* DllMain, DLL_PROCESS_DETACH.                                               *)
Detach ==
  /\ phase = "exiting"
  /\ g_log_file' = IF g_log_file = "invalid" THEN "invalid" ELSE "closed"
  /\ lock_state' = "deleted"
  /\ phase' = "terminated"
  /\ UNCHANGED <<kind, installed, proxyVars, g_log_lock, mod_log_file, pc, callVars,
                 unvisited, entry, modVars, logs>>

Next ==
  \/ Attach
  \/ load_mods
  \/ \E t \in Threads : mod_log(t)
  \/ \E e \in Entries : ModLogs(e)
  \/ ExitProcess
  \/ Detach

Spec == Init /\ [][Next]_vars

-------------------------------------------------------------------------------
(* Every thread that can run goes on running, on_mod_load returns, and what   *)
(* the logging threads do between two records leaves the lock to the others.  *)
Fairness ==
  /\ WF_vars(Attach)
  /\ WF_vars(load_mods)
  /\ \A t \in Threads : WF_vars(WritePart(t) \/ LeaveLog(t) \/ LogReturns(t))
  /\ \A t \in Threads : SF_vars(EnterLog(t))
  /\ WF_vars(Detach)

FairSpec == Spec /\ Fairness

-------------------------------------------------------------------------------
LogLabels == {"log_enter", "log_prefix", "log_text", "log_newline", "log_leave", "log_done"}
LoaderLabels == {"open_log", "find_first", "next", "inspect", "load", "resolve", "free",
                 "on_load", "on_load_running", "on_load_returned", "done"}
Labels == LogLabels \cup LoaderLabels \cup {"none", "idle", "killed"}
Texts == {"none", "No mods", "Skipped DLL", "Failed to load", "Failed to resolve",
          "Loading mod", "mod text", "Loaded mod"}
MessageType == [text : Texts, about : Threads]

TypeOK ==
  /\ kind \in [Entries -> Kinds] /\ installed \subseteq Dlls
  /\ phase \in {"attaching", "running", "exiting", "terminated"}
  /\ dll_main \in {"lock", "load", "functions", "thread", "attached", "failed"}
  /\ g_real_dll \in Dlls \cup {"none"}
  /\ functions \in [Exports -> Dlls \cup {"null"}]
  /\ g_log_lock \in Threads \cup {NoThread}
  /\ lock_state \in {"none", "initialized", "deleted"}
  /\ g_log_file \in {"invalid", "open", "closed"}
  /\ mod_log_file \in Seq([writer : Threads, part : {"prefix", "text", "newline"},
                           message : MessageType])
  /\ pc \in [Threads -> Labels]
  /\ message \in [Threads -> MessageType]
  /\ return \in [Threads -> Labels]
  /\ unvisited \subseteq Entries
  /\ entry \in Threads
  /\ mapped \subseteq Entries /\ attached \subseteq Entries
  /\ on_load_calls \in [Entries -> 0..1]
  /\ logs \in [Entries -> 0..MaxLogs]

(* When the enumeration is over every mod was started exactly once and stays  *)
(* loaded, and nothing else does, whatever failed before it; and a DLL that   *)
(* does not export on_mod_load never runs any code, not even its initialiser  *)
(* (has_on_mod_load_export, load_mods).                                       *)
AllModsAndOnlyMods ==
  /\ \A e \in attached : kind[e] \in {"load_fails", "unresolved", "mod"}
  /\ At(Loader, "done") =>
       /\ mapped = {e \in Entries : kind[e] = "mod"}
       /\ \A e \in Entries : on_load_calls[e] = IF kind[e] = "mod" THEN 1 ELSE 0

(* Whatever a mod writes to the log, from any thread, comes after the record  *)
(* that announces the mod (load_mods).                                        *)
AnnouncedFirst ==
  \A i \in 1..Len(mod_log_file) :
    mod_log_file[i].message.text = "mod text" =>
      \E j \in 1..(i - 1) :
        /\ mod_log_file[j].part = "newline"
        /\ mod_log_file[j].message =
             [text |-> "Loading mod", about |-> mod_log_file[i].message.about]

(* From the moment that the game can call it, a forwarded function is the one *)
(* of the DLL preserved under the _alt name if there is one, else the one of  *)
(* System32, and never mixes the two (load_proxy, load_functions).            *)
ForwardsToOneDll ==
  phase = "running" =>
    \A f \in Exports :
      functions[f] = IF "alt" \in installed
                       THEN IF f \in ExportsOf["alt"] THEN "alt" ELSE "null"
                       ELSE IF f \in ExportsOf["system"] THEN "system" ELSE "null"

(* The file is a log of whole records: every call of mod_log that returns has *)
(* written its own exactly once, unless the file could not be created         *)
(* (mod_log).                                                                 *)
Record(k) ==
  {<<mod_log_file[i].writer, mod_log_file[i].message>> : i \in (3 * k - 2)..(3 * k)}

Records == [k \in 1..(Len(mod_log_file) \div 3) |-> Record(k)]

Pending ==
  [t \in Threads |->
    IF pc[t] \in {"log_enter", "log_prefix", "log_text", "log_newline"}
      THEN {message[t]} ELSE {}]

Ended == phase \in {"exiting", "terminated"}

Log == INSTANCE RecordLog WITH
  Threads <- Threads,
  Messages <- MessageType,
  log <- Records,
  pending <- Pending,
  ended <- Ended
ImplementsRecordLog == Log!Spec

(* The loader gets to the end of the enumeration unless the process ends,     *)
(* provided that each on_mod_load returns; and the process does end, even     *)
(* when the thread that was killed owned the lock of the log (load_mods;      *)
(* DllMain, DLL_PROCESS_DETACH).                                              *)
LoadingEnds ==
  /\ At(Loader, "open_log") ~> (At(Loader, "done") \/ phase # "running")
  /\ phase = "exiting" ~> phase = "terminated"
===============================================================================
