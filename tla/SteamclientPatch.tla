--------------------------- MODULE SteamclientPatch ---------------------------
(* steamclient_rdata_patch/main.cpp: a detour of LoadLibraryExW that loads    *)
(* steamclient6p.dll whenever steamclient64.dll is asked for and then gives   *)
(* the loader's entry of it the names of steamclient64.dll.                   *)
(*                                                                            *)
(* The loader of Windows is external: a table of modules by base address,     *)
(* counted references, and a recursive lock that each of its calls takes and  *)
(* under which a library's DllMain runs. A handle is the base address, which  *)
(* is all that g_loaded_steamclient remembers.                                *)
EXTENDS Integers, FiniteSets

CONSTANTS
  Threads,        \* the threads of the game that load and free libraries
  Installer,      \* the thread of the mod loader, in on_mod_load
  NoThread,       \* owner of a free lock
  Bases,          \* the addresses at which Steam's library may be mapped
  OtherBases,     \* the addresses at which any other library may be mapped
  NoBase,         \* a null handle
  MaxHandles,     \* bound: how many references of a module a thread keeps
  Faults          \* the external calls that may fail

Addresses == Bases \cup OtherBases

ASSUME SteamclientPatchAssumption ==
  /\ Installer \notin Threads
  /\ NoThread \notin Threads
  /\ NoBase \notin Addresses
  /\ MaxHandles \in Nat
  /\ Faults \subseteq {"path", "resolve", "initialize", "create", "enable", "load", "ldr"}

VARIABLES
  hooked,                \* is the detour enabled?
  modules,               \* the loader's table
  loader_lock,
  dll_main,              \* the thread inside a DllMain that asks for Steam's library
  g_redirect_lock,
  g_loaded_steamclient,
  names_restored,        \* what the last redirected load reports in the log
  pc,                    \* the next step of each thread
  module,                \* the handle that a redirected call is to return
  handles                \* the references that each thread owns

locks == <<loader_lock, dll_main, g_redirect_lock>>
steamVars == <<g_loaded_steamclient, names_restored>>
vars == <<hooked, modules, locks, steamVars, pc, module, handles>>

At(t, label) == pc[t] = label
Goto(t, label) == pc' = [pc EXCEPT ![t] = label]
May(fault) == fault \in Faults

Free == [file |-> "none", full |-> "none", base |-> "none", refs |-> 0]
Loaded(file, name) == [file |-> file, full |-> name, base |-> name, refs |-> 1]
Mapped(b) == modules[b].file # "none"

(* What the lock of the loader protects happens at once when no other thread  *)
(* has it.                                                                    *)
LoaderFree(t) == loader_lock \in {NoThread, t}

Init ==
  /\ hooked = FALSE
  /\ modules = [b \in Addresses |-> Free]
  /\ loader_lock = NoThread
  /\ dll_main = NoThread
  /\ g_redirect_lock = NoThread
  /\ g_loaded_steamclient = NoBase
  /\ names_restored = FALSE
  /\ pc = [t \in Threads \cup {Installer} |-> IF t = Installer THEN "path" ELSE "idle"]
  /\ module = [t \in Threads |-> NoBase]
  /\ handles = [t \in Threads |-> [b \in Addresses |-> 0]]

-------------------------------------------------------------------------------
(* The loader: t gets one more reference of a module, or the first one.       *)
AddReference(t, b) ==
  /\ modules' = [modules EXCEPT ![b].refs = @ + 1]
  /\ handles' = [handles EXCEPT ![t][b] = @ + 1]

LoadAt(t, b, record) ==
  /\ ~Mapped(b)
  /\ modules' = [modules EXCEPT ![b] = record]
  /\ handles' = [handles EXCEPT ![t][b] = @ + 1]

(* A module that the table knows under the name is not mapped again.          *)
LoadByName(t, b, file, name) ==
  IF \E m \in Bases : modules[m].base = name
    THEN modules[b].base = name /\ AddReference(t, b)
    ELSE LoadAt(t, b, Loaded(file, name))

MayLoad(t) == At(t, "idle") /\ \A b \in Addresses : handles[t][b] < MaxHandles

LoadOther(t) ==
  /\ MayLoad(t) /\ LoaderFree(t)
  /\ \E b \in OtherBases : LoadAt(t, b, Loaded("other", "other"))
  /\ UNCHANGED <<hooked, locks, steamVars, pc, module>>

(* The last reference unmaps the module.                                      *)
Released(m) == IF m.refs = 1 THEN Free ELSE [m EXCEPT !.refs = @ - 1]

FreeLibrary(t) ==
  /\ At(t, "idle") /\ LoaderFree(t)
  /\ \E b \in Addresses :
       /\ handles[t][b] > 0
       /\ handles' = [handles EXCEPT ![t][b] = @ - 1]
       /\ modules' = [modules EXCEPT ![b] = Released(@)]
  /\ UNCHANGED <<hooked, locks, steamVars, pc, module>>

-------------------------------------------------------------------------------
(* LoadLibraryExW("...\steamclient64.dll"), called by t.                      *)
LoadDirect(t) ==
  /\ MayLoad(t) /\ LoaderFree(t)
  /\ ~hooked
  /\ \E b \in Bases : LoadByName(t, b, "original", "steamclient64")
  /\ UNCHANGED <<hooked, locks, steamVars, pc, module>>

hooked_load_library_ex_w(t) ==
  /\ MayLoad(t)
  /\ hooked
  /\ Goto(t, "enter")
  /\ UNCHANGED <<hooked, modules, locks, steamVars, module, handles>>

(* The DllMain of another library does the same before its own LoadLibrary    *)
(* has returned.                                                              *)
LoadRequesting(t) ==
  /\ MayLoad(t) /\ LoaderFree(t)
  /\ hooked
  /\ \E b \in OtherBases : LoadAt(t, b, Loaded("other", "other"))
  /\ loader_lock' = t
  /\ dll_main' = t
  /\ Goto(t, "enter")
  /\ UNCHANGED <<hooked, g_redirect_lock, steamVars, module>>

DllMainReturns(t) ==
  /\ At(t, "dll_main")
  /\ loader_lock' = NoThread
  /\ dll_main' = NoThread
  /\ Goto(t, "idle")
  /\ UNCHANGED <<hooked, modules, g_redirect_lock, steamVars, module, handles>>

UnlockedEnterRedirect(t) ==  \* mutated: the lock is not waited for
  /\ At(t, "enter")
  /\ g_redirect_lock' = t
  /\ Goto(t, "check")
  /\ UNCHANGED <<hooked, modules, loader_lock, dll_main, steamVars, module, handles>>

EnterRedirect(t) ==
  /\ At(t, "enter")
  /\ g_redirect_lock = NoThread
  /\ g_redirect_lock' = t
  /\ Goto(t, "check")
  /\ UNCHANGED <<hooked, modules, loader_lock, dll_main, steamVars, module, handles>>

TrustHandle(t) ==            \* mutated: the handle is taken to be still loaded
  /\ At(t, "check") /\ LoaderFree(t)
  /\ IF g_loaded_steamclient # NoBase
       THEN /\ AddReference(t, g_loaded_steamclient)
            /\ module' = [module EXCEPT ![t] = g_loaded_steamclient]
            /\ Goto(t, "leave")
       ELSE /\ Goto(t, "load")
            /\ UNCHANGED <<modules, module, handles>>
  /\ UNCHANGED <<hooked, locks, steamVars>>

UnchangedRefcount(t) ==      \* mutated: the module is found but not referenced
  /\ At(t, "check") /\ LoaderFree(t)
  /\ IF g_loaded_steamclient # NoBase /\ Mapped(g_loaded_steamclient)
       THEN /\ handles' = [handles EXCEPT ![t][g_loaded_steamclient] = @ + 1]
            /\ module' = [module EXCEPT ![t] = g_loaded_steamclient]
            /\ Goto(t, "leave")
            /\ UNCHANGED <<modules, g_loaded_steamclient>>
       ELSE /\ g_loaded_steamclient' = NoBase
            /\ Goto(t, "load")
            /\ UNCHANGED <<modules, module, handles>>
  /\ UNCHANGED <<hooked, locks, names_restored>>

KeepStaleHandle(t) ==        \* mutated: asks again and again for a module that is gone
  /\ At(t, "check") /\ LoaderFree(t)
  /\ IF g_loaded_steamclient = NoBase
       THEN /\ Goto(t, "load")
            /\ UNCHANGED <<modules, module, handles>>
       ELSE IF Mapped(g_loaded_steamclient)
         THEN /\ AddReference(t, g_loaded_steamclient)
              /\ module' = [module EXCEPT ![t] = g_loaded_steamclient]
              /\ Goto(t, "leave")
         ELSE UNCHANGED <<modules, module, handles, pc>>
  /\ UNCHANGED <<hooked, locks, steamVars>>

(* GetModuleHandleExW by address adds a reference to what is mapped there.    *)
CheckLoaded(t) ==
  /\ At(t, "check") /\ LoaderFree(t)
  /\ IF g_loaded_steamclient # NoBase /\ Mapped(g_loaded_steamclient)
       THEN /\ AddReference(t, g_loaded_steamclient)
            /\ module' = [module EXCEPT ![t] = g_loaded_steamclient]
            /\ Goto(t, "leave")
            /\ UNCHANGED g_loaded_steamclient
       ELSE /\ g_loaded_steamclient' = NoBase
            /\ Goto(t, "load")
            /\ UNCHANGED <<modules, module, handles>>
  /\ UNCHANGED <<hooked, locks, names_restored>>

UnlockBeforeRestore(t) ==    \* mutated: the lock is given back before the names are
  /\ At(t, "load") /\ LoaderFree(t)
  /\ g_redirect_lock' = NoThread
  /\ names_restored' = FALSE
  /\ \/ \E b \in Bases :
          /\ LoadByName(t, b, "patched", "steamclient6p")
          /\ module' = [module EXCEPT ![t] = b]
          /\ g_loaded_steamclient' = b
          /\ Goto(t, "restore")
     \/ /\ May("load")
        /\ Goto(t, "leave")
        /\ UNCHANGED <<modules, module, g_loaded_steamclient, handles>>
  /\ UNCHANGED <<hooked, loader_lock, dll_main>>

LoadPatched(t) ==
  /\ At(t, "load") /\ LoaderFree(t)
  /\ names_restored' = FALSE
  /\ \/ \E b \in Bases :
          /\ LoadByName(t, b, "patched", "steamclient6p")
          /\ module' = [module EXCEPT ![t] = b]
          /\ g_loaded_steamclient' = b
          /\ Goto(t, "restore")
     \/ /\ May("load")
        /\ Goto(t, "leave")
        /\ UNCHANGED <<modules, module, g_loaded_steamclient, handles>>
  /\ UNCHANGED <<hooked, locks>>

(* restore_original_loader_names: the lock, and the search for the entry.     *)
LockLoader(t) ==
  /\ At(t, "restore") /\ LoaderFree(t)
  /\ \/ /\ loader_lock' = t
        /\ Goto(t, IF Mapped(module[t]) THEN "full_name" ELSE "unlock_loader")
     \/ May("ldr") /\ UNCHANGED loader_lock /\ Goto(t, "leave")
  /\ UNCHANGED <<hooked, modules, dll_main, g_redirect_lock, steamVars, module, handles>>

RestoreFullName(t) ==
  /\ At(t, "full_name")
  /\ modules' = [modules EXCEPT ![module[t]].full = "steamclient64"]
  /\ Goto(t, "base_name")
  /\ UNCHANGED <<hooked, locks, steamVars, module, handles>>

RestoreBaseName(t) ==
  /\ At(t, "base_name")
  /\ modules' = [modules EXCEPT ![module[t]].base = "steamclient64"]
  /\ names_restored' = TRUE
  /\ Goto(t, "unlock_loader")
  /\ UNCHANGED <<hooked, locks, g_loaded_steamclient, module, handles>>

(* A DllMain had the lock before, and keeps it.                               *)
UnlockLoader(t) ==
  /\ At(t, "unlock_loader")
  /\ loader_lock' = IF dll_main = t THEN t ELSE NoThread
  /\ Goto(t, "leave")
  /\ UNCHANGED <<hooked, modules, dll_main, g_redirect_lock, steamVars, module, handles>>

LeaveRedirect(t) ==
  /\ At(t, "leave")
  /\ g_redirect_lock' = NoThread
  /\ module' = [module EXCEPT ![t] = NoBase]
  /\ Goto(t, IF dll_main = t THEN "dll_main" ELSE "idle")
  /\ UNCHANGED <<hooked, modules, loader_lock, dll_main, steamVars, handles>>

RedirectStep(t) ==
  \/ CheckLoaded(t) \/ LoadPatched(t) \/ LockLoader(t) \/ RestoreFullName(t)
  \/ RestoreBaseName(t) \/ UnlockLoader(t) \/ LeaveRedirect(t) \/ DllMainReturns(t)

-------------------------------------------------------------------------------
(* on_mod_load and install_hook: any step that fails is the last one.         *)
Outcomes(fault) == {TRUE} \cup (IF May(fault) THEN {FALSE} ELSE {})

InstallStep(from, outcomes, to) ==
  /\ At(Installer, from)
  /\ \E ok \in outcomes :
       /\ Goto(Installer, IF ok THEN to ELSE "failed")
       /\ hooked' = (ok /\ to = "installed")
  /\ UNCHANGED <<modules, locks, steamVars, module, handles>>

(* The registry names Steam's library and steamclient6p.dll lies next to it.  *)
get_patched_steamclient_path == Outcomes("path")

on_mod_load ==
  \/ InstallStep("path", get_patched_steamclient_path, "resolve")
  \/ InstallStep("resolve", Outcomes("resolve"), "initialize")

install_hook ==
  \/ InstallStep("initialize", Outcomes("initialize"), "create")
  \/ InstallStep("create", Outcomes("create"), "enable")
  \/ InstallStep("enable", Outcomes("enable"), "installed")

Next ==
  \/ on_mod_load \/ install_hook
  \/ \E t \in Threads :
       \/ LoadOther(t) \/ FreeLibrary(t) \/ LoadDirect(t) \/ LoadRequesting(t)
       \/ hooked_load_library_ex_w(t) \/ EnterRedirect(t) \/ RedirectStep(t)

Spec == Init /\ [][Next]_vars

(* A thread inside the detour goes on and gets its lock in the end.           *)
Fairness == \A t \in Threads : WF_vars(RedirectStep(t)) /\ SF_vars(EnterRedirect(t))

FairSpec == Spec /\ Fairness

-------------------------------------------------------------------------------
Names == {"none", "other", "steamclient64", "steamclient6p"}
Labels == {"idle", "enter", "check", "load", "restore", "full_name", "base_name",
           "unlock_loader", "leave", "dll_main", "path", "resolve", "initialize",
           "create", "enable", "installed", "failed"}

TypeOK ==
  /\ hooked \in BOOLEAN
  /\ modules \in [Addresses -> [file : {"none", "other", "original", "patched"},
                                full : Names, base : Names, refs : Nat]]
  /\ loader_lock \in Threads \cup {NoThread} /\ dll_main \in Threads \cup {NoThread}
  /\ g_redirect_lock \in Threads \cup {NoThread}
  /\ g_loaded_steamclient \in Bases \cup {NoBase} /\ names_restored \in BOOLEAN
  /\ pc \in [Threads \cup {Installer} -> Labels]
  /\ module \in [Threads -> Bases \cup {NoBase}]
  /\ handles \in [Threads -> [Addresses -> Nat]]

(* The process never maps a second copy of the patched library, which the     *)
(* loader, having lost its name, could not recognise (g_redirect_lock,        *)
(* g_loaded_steamclient).                                                     *)
OnePatchedCopy ==
  \A b, c \in Addresses :
    modules[b].file = "patched" /\ modules[c].file = "patched" => b = c

(* A redirected request returns the patched library or nothing, never some    *)
(* other module (README.md; hooked_load_library_ex_w).                        *)
RedirectedToPatched ==
  \A t \in Threads :
    At(t, "leave") /\ module[t] # NoBase => modules[module[t]].file = "patched"

(* The references of a module that are in the hands of some thread.           *)
Owned(b) == UNION {{t} \X (1..handles[t][b]) : t \in Threads}

(* Each request gives its caller one reference, also when the library was     *)
(* already there: a module is mapped exactly as long as somebody owns it.     *)
ReferencesBalanced ==
  \A b \in Addresses :
    /\ modules[b].refs = Cardinality(Owned(b))
    /\ Mapped(b) <=> modules[b].refs > 0

(* Who gets the lock of the loader, or has it in a DllMain, sees both names   *)
(* of a module changed or neither, and between two redirected requests the    *)
(* loader knows the patched library under the names of the original one       *)
(* (README.md), unless the log says that they could not be restored; no other *)
(* request can undo what it says (restore_original_loader_names).             *)
NamesRestored ==
  /\ loader_lock = NoThread \/ ~At(loader_lock, "base_name") =>
       \A b \in Addresses : modules[b].full = modules[b].base
  /\ g_redirect_lock = NoThread =>
       \A b \in Addresses :
         modules[b].file = "patched" =>
           LET name == IF names_restored THEN "steamclient64" ELSE "steamclient6p"
           IN  modules[b].full = name /\ modules[b].base = name

(* A request from a DllMain waits for g_redirect_lock with the lock of the    *)
(* loader, which the owner of g_redirect_lock wants: neither ever goes on.    *)
DllMainDeadlock ==
  \E t, u \in Threads :
    /\ dll_main = t /\ At(t, "enter")
    /\ g_redirect_lock = u /\ pc[u] \in {"check", "load", "restore"}

(* Every request returns to its caller, or a DllMain and a redirected load    *)
(* wait for each other: nothing else can keep one for ever                    *)
(* (hooked_load_library_ex_w, restore_original_loader_names).                 *)
RequestsReturn == \A t \in Threads : At(t, "enter") ~> At(t, "idle") \/ DllMainDeadlock
===============================================================================
