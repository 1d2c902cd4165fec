--------------------------- MODULE ModLoader_proofs ---------------------------
(* Safety of the mod loader for any set of files in the mods directory, any   *)
(* exports and any number of records that the mods write.                     *)
EXTENDS ModLoader, SequenceTheorems, TLAPS

(* The definitions that only group or abbreviate.                             *)
USE DEF At, Goto, Threads

-------------------------------------------------------------------------------
(* Where load_mods is, or goes on once mod_log returns.                       *)
Place == IF pc[Loader] \in LogLabels THEN return[Loader] ELSE pc[Loader]

(* The places that are about the entry at hand, in their order.               *)
InMod == {"on_load", "on_load_running", "on_load_returned"}
Current == {"inspect", "load", "resolve", "free"} \cup InMod

(* What each place knows of the entry at hand.                                *)
PlaceInv ==
  /\ Place \in LoaderLabels \cup {"none", "killed"}
  /\ pc[Loader] \in LogLabels =>
       return[Loader] \in {"done", "next", "free", "on_load", "on_load_returned"}
  /\ Place \in {"none", "open_log", "find_first"}
       => unvisited = {e \in Entries : kind[e] # "absent"}
  /\ Place = "done" => unvisited = {}
  /\ Place \in Current => entry \in Entries \ unvisited
  /\ Place \in Current \ {"inspect"} => has_on_mod_load_export(entry)
  /\ Place = "resolve" => kind[entry] # "load_fails"
  /\ Place = "free" => kind[entry] = "unresolved"
  /\ Place \in InMod => kind[entry] = "mod"

(* What has become of each entry: nothing yet, all that will, or what the     *)
(* place says of the one at hand.                                             *)
AtHand(e) == Place \in Current /\ entry = e
Calls(e) == IF kind[e] = "mod" THEN 1 ELSE 0

SettledInv ==
  Place # "killed" =>
    \A e \in Entries :
      /\ e \in unvisited => e \notin mapped /\ on_load_calls[e] = 0
      /\ e \notin unvisited /\ ~AtHand(e)
           => (e \in mapped <=> kind[e] = "mod") /\ on_load_calls[e] = Calls(e)
      /\ AtHand(e) /\ Place \in {"inspect", "load"}
           => e \notin mapped /\ on_load_calls[e] = 0
      /\ AtHand(e) /\ Place \in {"resolve", "free"}
           => e \in mapped /\ on_load_calls[e] = 0
      /\ AtHand(e) /\ Place \in InMod
           => e \in mapped /\ on_load_calls[e] = IF Place = "on_load" THEN 0 ELSE 1

(* A mod has no thread before its on_mod_load was called, and its thread only *)
(* logs.                                                                      *)
ModThreadInv ==
  /\ \A e \in Entries : pc[e] \in LogLabels \cup {"none", "idle", "killed"}
  /\ \A e \in Entries : pc[e] \in LogLabels => return[e] = "idle"
  /\ \A e \in Entries : on_load_calls[e] = 0 => pc[e] \in {"none", "killed"}
  /\ \A e \in attached : has_on_mod_load_export(e)

(* Threads run while the process does, and no longer.                         *)
PhaseInv ==
  /\ dll_main \in {"lock", "load", "functions", "thread"} => phase = "attaching"
  /\ phase = "attaching" => \A t \in Threads : pc[t] = "none"
  /\ phase = "running" => \A t \in Threads : pc[t] # "killed"
  /\ phase \in {"exiting", "terminated"} => \A t \in Threads : pc[t] \in {"none", "killed"}

(* The functions are those of the DLL that load_proxy chose, from the moment  *)
(* that the game can call them.                                               *)
ForwardInv ==
  /\ phase = "running" => dll_main = "attached"
  /\ dll_main \in {"functions", "thread", "attached"}
       => g_real_dll = load_proxy /\ g_real_dll \in Dlls
  /\ dll_main \in {"thread", "attached"}
       => functions = [f \in Exports |-> IF f \in ExportsOf[g_real_dll] THEN g_real_dll
                                                                       ELSE "null"]

LoadInv == PlaceInv /\ SettledInv /\ ModThreadInv /\ PhaseInv /\ ForwardInv

-------------------------------------------------------------------------------
(* Type correctness.                                                          *)

Part == [writer : Threads, part : {"prefix", "text", "newline"}, message : MessageType]

LEMMA InitType == Init => TypeOK
<1> SUFFICES ASSUME Init PROVE TypeOK
  OBVIOUS
<1> USE DEF Init
<1>1. /\ kind \in [Entries -> Kinds] /\ installed \subseteq Dlls
      /\ unvisited \subseteq Entries /\ entry \in Threads
      /\ mapped \subseteq Entries /\ attached \subseteq Entries
  OBVIOUS
<1>2. /\ functions \in [Exports -> Dlls \cup {"null"}]
      /\ pc \in [Threads -> Labels] /\ return \in [Threads -> Labels]
  BY DEF Labels
<1>3. message \in [Threads -> MessageType]
  BY DEF NoMessage, MessageType, Texts
<1>4. mod_log_file \in Seq(Part)
  OBVIOUS
<1>5. on_load_calls \in [Entries -> 0..1] /\ logs \in [Entries -> 0..MaxLogs]
  BY ModLoaderAssumption
<1> QED
  BY <1>1, <1>2, <1>3, <1>4, <1>5 DEF TypeOK, Part

LEMMA CallLogType ==
  ASSUME TypeOK, NEW t \in Threads, NEW text \in Texts, NEW about \in Threads,
         NEW then \in Labels, CallLog(t, text, about, then),
         UNCHANGED <<processVars, proxyVars, logVars, unvisited, entry, on_load_calls>>,
         mapped' \subseteq Entries, attached' \subseteq Entries,
         logs' \in [Entries -> 0..MaxLogs]
  PROVE  TypeOK'
<1>1. /\ pc' \in [Threads -> Labels] /\ return' \in [Threads -> Labels]
      /\ message' \in [Threads -> MessageType]
  BY DEF CallLog, TypeOK, MessageType, Labels, LogLabels
<1> QED
  BY <1>1 DEF TypeOK, processVars, proxyVars, logVars

LEMMA AttachType ==
  ASSUME TypeOK, ForwardInv, Attach PROVE TypeOK'
<1> USE ModLoaderAssumption DEF TypeOK, AttachUnchanged, callVars, modVars, Dlls
<1>1. CASE InitializeLogLock
  BY <1>1 DEF InitializeLogLock
<1>2. CASE LoadRealDll
  BY <1>2 DEF LoadRealDll, load_proxy
<1>3. CASE load_functions
  <2>1. functions' \in [Exports -> Dlls \cup {"null"}]
    <3>1. g_real_dll \in Dlls
      BY <1>3 DEF load_functions, ForwardInv
    <3> QED
      BY <1>3, <3>1 DEF load_functions
  <2> QED
    BY <1>3, <2>1 DEF load_functions
<1>4. CASE CreateLoaderThread
  BY <1>4 DEF CreateLoaderThread, Labels, LoaderLabels
<1>5. CASE AttachFails
  BY <1>5 DEF AttachFails
<1> QED
  BY <1>1, <1>2, <1>3, <1>4, <1>5 DEF Attach

LEMMA LogType ==
  ASSUME TypeOK, NEW t \in Threads, mod_log(t) PROVE TypeOK'
<1> USE DEF TypeOK, LogUnchanged, processVars, proxyVars, logVars, callVars, modVars,
            Labels, LogLabels
<1>1. CASE EnterLog(t)
  BY <1>1 DEF EnterLog
<1>2. CASE WritePart(t)
  <2>1. PICK part \in {"prefix", "text", "newline"} :
          mod_log_file' = Append(mod_log_file,
                                 [writer |-> t, part |-> part, message |-> message[t]])
    BY <1>2 DEF WritePart, WriteFile
  <2>2. mod_log_file' \in Seq(Part)
    <3>1. [writer |-> t, part |-> part, message |-> message[t]] \in Part
      BY DEF Part
    <3>2. mod_log_file \in Seq(Part)
      BY DEF Part
    <3> QED
      BY <2>1, <3>1, <3>2
  <2>3. pc' \in [Threads -> Labels]
    BY <1>2 DEF WritePart, WriteFile
  <2>4. UNCHANGED <<g_log_lock, lock_state, g_log_file, callVars>> /\ LogUnchanged
    BY <1>2 DEF WritePart, WriteFile
  <2> QED
    BY <2>2, <2>3, <2>4 DEF Part
<1>3. CASE LeaveLog(t)
  BY <1>3 DEF LeaveLog
<1>4. CASE LogReturns(t)
  <2>1. message' \in [Threads -> MessageType]
    BY <1>4 DEF LogReturns, NoMessage, MessageType, Texts
  <2>2. return' \in [Threads -> Labels] /\ pc' \in [Threads -> Labels]
    BY <1>4 DEF LogReturns
  <2> QED
    BY <1>4, <2>1, <2>2 DEF LogReturns
<1> QED
  BY <1>1, <1>2, <1>3, <1>4 DEF mod_log

LEMMA LoadModsType ==
  ASSUME TypeOK, LoadInv, load_mods PROVE TypeOK'
<1>e. /\ Place \in Current => entry \in Entries
      /\ pc[Loader] \in Current => Place = pc[Loader]
  BY DEF LoadInv, PlaceInv, Place, Current, InMod, LogLabels
<1>l. {"done", "next", "free", "on_load", "on_load_returned"} \subseteq Labels
  BY DEF Labels, LoaderLabels
<1>x. Texts = {"none", "No mods", "Skipped DLL", "Failed to load", "Failed to resolve",
               "Loading mod", "mod text", "Loaded mod"}
  BY DEF Texts
<1>t. /\ mapped \subseteq Entries /\ attached \subseteq Entries
      /\ logs \in [Entries -> 0..MaxLogs] /\ pc \in [Threads -> Labels]
      /\ entry \in Threads /\ unvisited \subseteq Entries
  BY DEF TypeOK
<1> USE DEF LoaderUnchanged, processVars, proxyVars, logVars, modVars
<1>1. CASE OpenLog
  BY <1>1 DEF OpenLog, TypeOK, callVars, Labels, LoaderLabels
<1>2. CASE FindFirstFails
  BY <1>2, <1>l, <1>x, <1>t, CallLogType DEF FindFirstFails
<1>3. CASE NextEntry
  BY <1>3 DEF NextEntry, TypeOK, callVars, Labels, LoaderLabels
<1>4. CASE EndOfEnumeration
  BY <1>4 DEF EndOfEnumeration, TypeOK, callVars, Labels, LoaderLabels
<1>5. CASE Inspect
  <2>1. CASE has_on_mod_load_export(entry)
    BY <1>5, <2>1 DEF Inspect, TypeOK, callVars, Labels, LoaderLabels
  <2>2. CASE ~has_on_mod_load_export(entry)
    BY <1>5, <2>2, <1>l, <1>x, <1>t, CallLogType DEF Inspect
  <2> QED
    BY <2>1, <2>2
<1>6. CASE LoadMod
  <2>1. attached' \subseteq Entries /\ mapped' \subseteq Entries
    BY <1>6, <1>e, <1>t DEF LoadMod, Current
  <2>2. CASE kind[entry] = "load_fails"
    BY <1>6, <2>1, <2>2, <1>l, <1>x, <1>t, CallLogType DEF LoadMod
  <2>3. CASE kind[entry] # "load_fails"
    BY <1>6, <2>1, <2>3 DEF LoadMod, TypeOK, callVars, Labels, LoaderLabels
  <2> QED
    BY <2>2, <2>3
<1>7. CASE ResolveOnLoad
  <2>1. \E text \in Texts, then \in Labels : CallLog(Loader, text, entry, then)
    BY <1>7, <1>l, <1>x DEF ResolveOnLoad
  <2>2. /\ UNCHANGED <<processVars, proxyVars, logVars, unvisited, entry, on_load_calls>>
        /\ mapped' \subseteq Entries /\ attached' \subseteq Entries
        /\ logs' \in [Entries -> 0..MaxLogs]
    BY <1>7, <1>t DEF ResolveOnLoad
  <2> QED
    BY <1>t, <2>1, <2>2, CallLogType
<1>8. CASE FreeUnresolved
  BY <1>8 DEF FreeUnresolved, TypeOK, callVars, Labels, LoaderLabels
<1>9. CASE OnLoad
  <2>1. entry \in Entries /\ on_load_calls[entry] = 0
    BY <1>9, <1>e DEF OnLoad, LoadInv, SettledInv, AtHand, Place, Current, InMod
  <2>2. on_load_calls' \in [Entries -> 0..1]
    BY <1>9, <2>1 DEF OnLoad, TypeOK
  <2>3. pc' \in [Threads -> Labels]
    BY <1>9, <1>t DEF OnLoad, Labels, LoaderLabels
  <2>4. UNCHANGED <<processVars, proxyVars, logVars, callVars, unvisited, entry, mapped,
                    attached, logs>>
    BY <1>9 DEF OnLoad
  <2> QED
    BY <2>2, <2>3, <2>4 DEF TypeOK, callVars
<1>10. CASE OnLoadLogs \/ OnLoadReturns
  <2>1. \E text \in Texts, then \in Labels : CallLog(Loader, text, entry, then)
    BY <1>10, <1>l, <1>x DEF OnLoadLogs, OnLoadReturns
  <2>2. /\ UNCHANGED <<processVars, proxyVars, logVars, unvisited, entry, on_load_calls>>
        /\ mapped' \subseteq Entries /\ attached' \subseteq Entries
        /\ logs' \in [Entries -> 0..MaxLogs]
    BY <1>10, <1>t DEF OnLoadLogs, OnLoadReturns
  <2> QED
    BY <1>t, <2>1, <2>2, CallLogType
<1> QED
  BY <1>1, <1>2, <1>3, <1>4, <1>5, <1>6, <1>7, <1>8, <1>9, <1>10 DEF load_mods

LEMMA NextType == TypeOK /\ LoadInv /\ [Next]_vars => TypeOK'
<1> SUFFICES ASSUME TypeOK, LoadInv, [Next]_vars PROVE TypeOK'
  OBVIOUS
<1>1. CASE UNCHANGED vars
  BY <1>1 DEF vars, TypeOK, processVars, proxyVars, logVars, callVars, modVars
<1>2. ASSUME NEW e \in Entries, ModLogs(e) PROVE TypeOK'
  <2>1. logs' \in [Entries -> 0..MaxLogs]
    <3>1. logs \in [Entries -> 0..MaxLogs] /\ MaxLogs \in Nat
      BY ModLoaderAssumption DEF TypeOK
    <3>2. logs[e] < MaxLogs /\ logs' = [logs EXCEPT ![e] = logs[e] + 1]
      BY <1>2 DEF ModLogs
    <3> QED
      BY <3>1, <3>2
  <2>2. "mod text" \in Texts /\ "idle" \in Labels
    BY DEF Texts, Labels
  <2>3. mapped \subseteq Entries /\ attached \subseteq Entries
    BY DEF TypeOK
  <2> QED
    BY <1>2, <2>1, <2>2, <2>3, CallLogType DEF ModLogs, modVars
<1>3. CASE ExitProcess
  BY <1>3 DEF ExitProcess, Labels, TypeOK, proxyVars, logVars, callVars, modVars
<1>4. CASE Detach
  BY <1>4 DEF Detach, TypeOK, proxyVars, logVars, callVars, modVars
<1> QED
  BY <1>1, <1>2, <1>3, <1>4, AttachType, LogType, LoadModsType DEF Next, LoadInv

-------------------------------------------------------------------------------
(* LoadInv is inductive.                                                      *)

LEMMA InitLoad == Init => LoadInv
<1> SUFFICES ASSUME Init PROVE LoadInv
  OBVIOUS
<1> USE ModLoaderAssumption DEF Init
<1>p. Place = "none" /\ \A t \in Threads : pc[t] = "none"
  BY DEF Place, LogLabels
<1>1. PlaceInv
  BY <1>p DEF PlaceInv, LogLabels, Current, InMod
<1>2. SettledInv
  BY <1>p DEF SettledInv, AtHand, Current, InMod, Calls
<1>3. ModThreadInv
  BY <1>p DEF ModThreadInv, LogLabels
<1>4. PhaseInv /\ ForwardInv
  BY <1>p DEF PhaseInv, ForwardInv
<1> QED
  BY <1>1, <1>2, <1>3, <1>4 DEF LoadInv

LEMMA AttachLoad ==
  ASSUME TypeOK, LoadInv, Attach PROVE LoadInv'
<1> USE DEF LoadInv
<1>t. /\ pc \in [Threads -> Labels] /\ Loader \in Threads
      /\ dll_main \in {"lock", "load", "functions", "thread", "attached", "failed"}
      /\ Loader \notin Entries /\ "load" \notin LogLabels
  BY ModLoaderAssumption DEF TypeOK, LogLabels
<1>a. phase = "attaching" /\ \A t \in Threads : pc[t] = "none"
  BY DEF Attach, InitializeLogLock, LoadRealDll, load_functions, CreateLoaderThread,
         AttachFails, PhaseInv
<1>u. UNCHANGED <<kind, installed, unvisited, entry, mapped, attached, on_load_calls, return>>
  BY DEF Attach, InitializeLogLock, LoadRealDll, load_functions, CreateLoaderThread,
         AttachFails, AttachUnchanged, modVars, callVars
<1>p. \/ pc' = pc
      \/ pc' = [pc EXCEPT ![Loader] = "open_log"] /\ phase' = "running"
  BY DEF Attach, InitializeLogLock, LoadRealDll, load_functions, CreateLoaderThread,
         AttachFails
<1>e. \A e \in Entries : pc'[e] = "none"
  BY <1>a, <1>p, <1>t
<1>l. Place = "none" /\ Place' \in {"none", "open_log"} /\ pc'[Loader] \notin LogLabels
  BY <1>a, <1>p, <1>t DEF Place, LogLabels
<1>1. PlaceInv'
  BY <1>l, <1>u DEF PlaceInv, Current, InMod, LoaderLabels
<1>2. SettledInv'
  BY <1>l, <1>u DEF SettledInv, AtHand, Current, InMod, Calls
<1>3. ModThreadInv'
  BY <1>e, <1>u DEF ModThreadInv, LogLabels, has_on_mod_load_export
<1>4. PhaseInv'
  <2>1. CASE CreateLoaderThread
    BY <2>1, <1>e, <1>l, <1>t, <1>a DEF CreateLoaderThread, PhaseInv
  <2>2. CASE AttachFails
    BY <2>2, <1>a DEF AttachFails, PhaseInv
  <2>3. CASE InitializeLogLock \/ LoadRealDll \/ load_functions
    BY <2>3, <1>a DEF InitializeLogLock, LoadRealDll, load_functions, PhaseInv
  <2> QED
    BY <2>1, <2>2, <2>3 DEF Attach
<1>5. ForwardInv'
  <2>1. CASE InitializeLogLock
    BY <2>1, <1>a DEF InitializeLogLock, ForwardInv
  <2>2. CASE LoadRealDll
    BY <2>2, <1>a, <1>u DEF LoadRealDll, load_proxy, ForwardInv, Dlls
  <2>3. CASE load_functions
    BY <2>3, <1>a, <1>u DEF load_functions, load_proxy, ForwardInv
  <2>4. CASE CreateLoaderThread
    BY <2>4, <1>a, <1>u DEF CreateLoaderThread, load_proxy, ForwardInv
  <2>5. CASE AttachFails
    BY <2>5, <1>a, <1>u DEF AttachFails, load_proxy, ForwardInv
  <2> QED
    BY <2>1, <2>2, <2>3, <2>4, <2>5 DEF Attach
<1> QED
  BY <1>1, <1>2, <1>3, <1>4, <1>5

(* A step of mod_log leaves the place where it is.                            *)
LEMMA LogLoad ==
  ASSUME TypeOK, LoadInv, NEW t \in Threads, mod_log(t) PROVE LoadInv'
<1> USE DEF LoadInv
<1>t. /\ pc \in [Threads -> Labels] /\ return \in [Threads -> Labels]
      /\ Loader \in Threads /\ Loader \notin Entries /\ Entries \subseteq Threads
      /\ phase \in {"attaching", "running", "exiting", "terminated"}
  BY ModLoaderAssumption DEF TypeOK
<1>u. UNCHANGED <<kind, installed, phase, dll_main, g_real_dll, functions, unvisited, entry,
                  mapped, attached, on_load_calls>>
  BY DEF mod_log, EnterLog, WritePart, WriteFile, LeaveLog, LogReturns, LogUnchanged,
         processVars, proxyVars, modVars
<1>i. pc[t] \in LogLabels
  BY DEF mod_log, EnterLog, WritePart, WriteFile, LeaveLog, LogReturns, LogLabels
<1>r. return[t] \in {"idle", "done", "next", "free", "on_load", "on_load_returned"}
  BY <1>i, <1>t DEF PlaceInv, ModThreadInv
<1>s. \/ pc' = [pc EXCEPT ![t] = return[t]] /\ return' = [return EXCEPT ![t] = "none"]
      \/ \E label \in LogLabels : pc' = [pc EXCEPT ![t] = label] /\ return' = return
  BY DEF mod_log, EnterLog, WritePart, WriteFile, LeaveLog, LogReturns, LogLabels, callVars
<1>p. Place' = Place /\ (pc'[Loader] \in LogLabels => pc[Loader] \in LogLabels)
  BY <1>t, <1>i, <1>r, <1>s DEF Place, LogLabels
<1>1. PlaceInv'
  <2>1. pc'[Loader] \in LogLabels => return'[Loader] = return[Loader]
    BY <1>t, <1>i, <1>r, <1>s DEF LogLabels
  <2> QED
    BY <1>p, <1>u, <2>1 DEF PlaceInv, has_on_mod_load_export
<1>2. SettledInv'
  BY <1>p, <1>u DEF SettledInv, AtHand, Calls
<1>3. ModThreadInv'
  <2>1. \A e \in Entries : pc'[e] \in LogLabels \cup {"none", "idle", "killed"}
    BY <1>s, <1>t, <1>i DEF ModThreadInv, LogLabels
  <2>2. \A e \in Entries : pc'[e] \in LogLabels => return'[e] = "idle"
    BY <1>s, <1>t, <1>i DEF ModThreadInv, LogLabels
  <2>3. \A e \in Entries : on_load_calls'[e] = 0 => pc'[e] \in {"none", "killed"}
    BY <1>s, <1>t, <1>i, <1>u DEF ModThreadInv, LogLabels
  <2>4. \A e \in attached' : has_on_mod_load_export(e)'
    BY <1>u DEF ModThreadInv, has_on_mod_load_export
  <2> QED
    BY <2>1, <2>2, <2>3, <2>4 DEF ModThreadInv
<1>4. PhaseInv'
  <2>1. phase = "running"
    BY <1>i, <1>t DEF PhaseInv, LogLabels
  <2>2. \A s \in Threads : pc'[s] # "killed"
    BY <2>1, <1>r, <1>s, <1>t DEF PhaseInv, LogLabels
  <2> QED
    BY <2>1, <2>2, <1>u DEF PhaseInv
<1>5. ForwardInv'
  BY <1>u DEF ForwardInv, load_proxy
<1> QED
  BY <1>1, <1>2, <1>3, <1>4, <1>5

(* Where a step of load_mods starts.                                          *)
LEMMA LoaderRuns ==
  ASSUME TypeOK, LoadInv, load_mods
  PROVE  /\ pc[Loader] \in LoaderLabels \ {"done"} /\ pc[Loader] \notin LogLabels
         /\ Place = pc[Loader] /\ phase = "running"
<1>1. pc[Loader] \in LoaderLabels \ {"done"}
  BY DEF load_mods, OpenLog, FindFirstFails, NextEntry, EndOfEnumeration, Inspect, LoadMod,
         ResolveOnLoad, FreeUnresolved, OnLoad, OnLoadLogs, OnLoadReturns, LoaderLabels
<1>2. pc[Loader] \notin LogLabels \cup {"none", "killed"}
  BY <1>1 DEF LoaderLabels, LogLabels
<1>3. phase = "running"
  BY <1>2 DEF LoadInv, PhaseInv, TypeOK
<1> QED
  BY <1>1, <1>2, <1>3 DEF Place

LEMMA CallLogPlace ==
  ASSUME TypeOK, NEW text, NEW about, NEW then, CallLog(Loader, text, about, then)
  PROVE  /\ Place' = then /\ pc'[Loader] \in LogLabels /\ return'[Loader] = then
         /\ \A e \in Entries : pc'[e] = pc[e] /\ return'[e] = return[e]
<1>t. /\ pc \in [Threads -> Labels] /\ return \in [Threads -> Labels]
      /\ Loader \in Threads /\ Loader \notin Entries /\ Entries \subseteq Threads
  BY ModLoaderAssumption DEF TypeOK
<1>1. pc'[Loader] \in LogLabels /\ return'[Loader] = then
  BY <1>t DEF CallLog, LogLabels
<1>2. \A e \in Entries : pc'[e] = pc[e] /\ return'[e] = return[e]
  BY <1>t DEF CallLog
<1> QED
  BY <1>1, <1>2 DEF Place

(* Places, entries and what has become of the entries, step by step.          *)
LEMMA LoadModsPlace ==
  ASSUME TypeOK, LoadInv, load_mods PROVE (PlaceInv /\ SettledInv)'
<1>t. /\ pc \in [Threads -> Labels] /\ return \in [Threads -> Labels]
      /\ Loader \in Threads /\ Loader \notin Entries /\ Entries \subseteq Threads
      /\ unvisited \subseteq Entries /\ mapped \subseteq Entries
      /\ on_load_calls \in [Entries -> 0..1]
      /\ kind \in [Entries -> Kinds]
  BY ModLoaderAssumption DEF TypeOK
<1>r. /\ pc[Loader] \in LoaderLabels \ {"done"} /\ pc[Loader] \notin LogLabels
      /\ Place = pc[Loader]
  BY LoaderRuns
<1>u. kind' = kind
  BY DEF load_mods, OpenLog, FindFirstFails, NextEntry, EndOfEnumeration, Inspect, LoadMod,
         ResolveOnLoad, FreeUnresolved, OnLoad, OnLoadLogs, OnLoadReturns, LoaderUnchanged,
         processVars
<1>i. PlaceInv /\ SettledInv
  BY DEF LoadInv
<1> USE DEF modVars, LogLabels, LoaderLabels, Current, InMod
<1>1. CASE OpenLog
  <2>1. Place = "open_log" /\ Place' = "find_first" /\ pc'[Loader] = "find_first"
    BY <1>1, <1>r, <1>t DEF OpenLog, Place
  <2>2. UNCHANGED <<unvisited, entry, mapped, on_load_calls>>
    BY <1>1 DEF OpenLog
  <2> QED
    BY <1>i, <1>u, <2>1, <2>2 DEF PlaceInv, SettledInv, AtHand, Calls
<1>2. CASE FindFirstFails
  <2>1. Place = "find_first" /\ Place' = "done" /\ return'[Loader] = "done"
    BY <1>2, <1>r, CallLogPlace DEF FindFirstFails
  <2>2. unvisited = {} /\ UNCHANGED <<unvisited, entry, mapped, on_load_calls>>
    BY <1>2 DEF FindFirstFails
  <2> QED
    BY <1>i, <1>u, <2>1, <2>2 DEF PlaceInv, SettledInv, AtHand, Calls
<1>3. CASE NextEntry
  <2>1. PICK e \in unvisited :
           /\ entry' = e /\ unvisited' = unvisited \ {e}
           /\ pc' = [pc EXCEPT ![Loader] = IF kind[e] = "directory" THEN "next"
                                                                   ELSE "inspect"]
    BY <1>3 DEF NextEntry
  <2>2. Place \in {"find_first", "next"} /\ UNCHANGED <<mapped, on_load_calls>>
    BY <1>3, <1>r DEF NextEntry
  <2>3. /\ pc'[Loader] = (IF kind[e] = "directory" THEN "next" ELSE "inspect")
        /\ Place' = pc'[Loader]
    BY <1>t, <2>1 DEF Place
  <2>4. PlaceInv'
    BY <1>t, <1>i, <1>u, <2>1, <2>2, <2>3 DEF PlaceInv
  <2>5. SettledInv'
    BY <1>t, <1>i, <1>u, <2>1, <2>2, <2>3 DEF SettledInv, AtHand, Calls
  <2> QED
    BY <2>4, <2>5
<1>4. CASE EndOfEnumeration
  <2>1. Place = "next" /\ Place' = "done" /\ pc'[Loader] = "done"
    BY <1>4, <1>r, <1>t DEF EndOfEnumeration, Place
  <2>2. unvisited = {} /\ UNCHANGED <<unvisited, mapped, on_load_calls>>
    BY <1>4 DEF EndOfEnumeration
  <2> QED
    BY <1>i, <1>u, <2>1, <2>2 DEF PlaceInv, SettledInv, AtHand, Calls
<1>5. CASE Inspect
  <2>1. Place = "inspect" /\ UNCHANGED <<unvisited, entry, mapped, on_load_calls>>
    BY <1>5, <1>r DEF Inspect
  <2>2. CASE has_on_mod_load_export(entry)
    <3>1. Place' = "load" /\ pc'[Loader] = "load"
      BY <1>5, <1>t, <2>2 DEF Inspect, Place
    <3> QED
      BY <1>i, <1>u, <2>1, <2>2, <3>1
         DEF PlaceInv, SettledInv, AtHand, Calls, has_on_mod_load_export
  <2>3. CASE ~has_on_mod_load_export(entry)
    <3>1. Place' = "next" /\ return'[Loader] = "next"
      BY <1>5, <2>3, CallLogPlace DEF Inspect
    <3> QED
      BY <1>i, <1>u, <2>1, <2>3, <3>1
         DEF PlaceInv, SettledInv, AtHand, Calls, has_on_mod_load_export
  <2> QED
    BY <2>2, <2>3
<1>6. CASE LoadMod
  <2>1. Place = "load" /\ UNCHANGED <<unvisited, entry, on_load_calls>>
    BY <1>6, <1>r DEF LoadMod
  <2>2. CASE kind[entry] = "load_fails"
    <3>1. Place' = "next" /\ return'[Loader] = "next" /\ mapped' = mapped
      BY <1>6, <2>2, CallLogPlace DEF LoadMod
    <3> QED
      BY <1>i, <1>u, <2>1, <2>2, <3>1 DEF PlaceInv, SettledInv, AtHand, Calls
  <2>3. CASE kind[entry] # "load_fails"
    <3>1. Place' = "resolve" /\ pc'[Loader] = "resolve" /\ mapped' = mapped \cup {entry}
      BY <1>6, <1>t, <2>3 DEF LoadMod, Place
    <3> QED
      BY <1>i, <1>u, <2>1, <2>3, <3>1
         DEF PlaceInv, SettledInv, AtHand, Calls, has_on_mod_load_export
  <2> QED
    BY <2>2, <2>3
<1>7. CASE ResolveOnLoad
  <2>1. Place = "resolve" /\ UNCHANGED <<unvisited, entry, mapped, on_load_calls>>
    BY <1>7, <1>r DEF ResolveOnLoad
  <2>2. /\ Place' = IF kind[entry] = "unresolved" THEN "free" ELSE "on_load"
        /\ return'[Loader] = Place'
    <3>1. CASE kind[entry] = "unresolved"
      <4>1. CallLog(Loader, "Failed to resolve", entry, "free")
        BY <1>7, <3>1 DEF ResolveOnLoad
      <4> QED
        BY <3>1, <4>1, CallLogPlace
    <3>2. CASE kind[entry] # "unresolved"
      <4>1. CallLog(Loader, "Loading mod", entry, "on_load")
        BY <1>7, <3>2 DEF ResolveOnLoad
      <4> QED
        BY <3>2, <4>1, CallLogPlace
    <3> QED
      BY <3>1, <3>2
  <2> QED
    BY <1>i, <1>u, <2>1, <2>2
       DEF PlaceInv, SettledInv, AtHand, Calls, has_on_mod_load_export
<1>8. CASE FreeUnresolved
  <2>1. Place = "free" /\ Place' = "next" /\ pc'[Loader] = "next"
    BY <1>8, <1>r, <1>t DEF FreeUnresolved, Place
  <2>2. mapped' = mapped \ {entry} /\ UNCHANGED <<unvisited, entry, on_load_calls>>
    BY <1>8 DEF FreeUnresolved
  <2> QED
    BY <1>i, <1>u, <2>1, <2>2 DEF PlaceInv, SettledInv, AtHand, Calls
<1>9. CASE OnLoad
  <2>1. Place = "on_load" /\ entry \in Entries /\ UNCHANGED <<unvisited, entry, mapped>>
    BY <1>9, <1>r, <1>i DEF OnLoad, PlaceInv
  <2>2. Place' = "on_load_running" /\ pc'[Loader] = "on_load_running"
    BY <1>9, <1>t DEF OnLoad, Place
  <2>3. \A e \in Entries :
          on_load_calls'[e] = IF e = entry THEN on_load_calls[e] + 1 ELSE on_load_calls[e]
    BY <1>9, <1>t DEF OnLoad
  <2> QED
    BY <1>i, <1>u, <2>1, <2>2, <2>3
       DEF PlaceInv, SettledInv, AtHand, Calls, has_on_mod_load_export
<1>10. CASE OnLoadLogs
  <2>1. /\ Place = "on_load_running" /\ Place' = "on_load_returned"
        /\ return'[Loader] = "on_load_returned"
    BY <1>10, <1>r, CallLogPlace DEF OnLoadLogs
  <2>2. UNCHANGED <<unvisited, entry, mapped, on_load_calls>>
    BY <1>10 DEF OnLoadLogs
  <2> QED
    BY <1>i, <1>u, <2>1, <2>2
       DEF PlaceInv, SettledInv, AtHand, Calls, has_on_mod_load_export
<1>11. CASE OnLoadReturns
  <2>1. /\ Place \in {"on_load_running", "on_load_returned"} /\ Place' = "next"
        /\ return'[Loader] = "next"
    BY <1>11, <1>r, CallLogPlace DEF OnLoadReturns
  <2>2. UNCHANGED <<unvisited, entry, mapped, on_load_calls>>
    BY <1>11 DEF OnLoadReturns
  <2> QED
    BY <1>i, <1>u, <2>1, <2>2
       DEF PlaceInv, SettledInv, AtHand, Calls, has_on_mod_load_export
<1> QED
  BY <1>1, <1>2, <1>3, <1>4, <1>5, <1>6, <1>7, <1>8, <1>9, <1>10, <1>11 DEF load_mods

LEMMA LoadModsLoad ==
  ASSUME TypeOK, LoadInv, load_mods PROVE LoadInv'
<1>t. /\ pc \in [Threads -> Labels] /\ return \in [Threads -> Labels]
      /\ Loader \in Threads /\ Loader \notin Entries /\ Entries \subseteq Threads
      /\ on_load_calls \in [Entries -> 0..1]
  BY ModLoaderAssumption DEF TypeOK
<1>r. pc[Loader] \in LoaderLabels \ {"done"} /\ Place = pc[Loader] /\ phase = "running"
  BY LoaderRuns
<1>u. UNCHANGED <<kind, installed, phase, dll_main, g_real_dll, functions>>
  BY DEF load_mods, OpenLog, FindFirstFails, NextEntry, EndOfEnumeration, Inspect, LoadMod,
         ResolveOnLoad, FreeUnresolved, OnLoad, OnLoadLogs, OnLoadReturns, LoaderUnchanged,
         processVars, proxyVars
<1>1. PlaceInv' /\ SettledInv'
  BY LoadModsPlace
<1>2. pc'[Loader] \notin {"none", "killed"}
  <2>1. Place' \in LoaderLabels \cup {"none", "killed"}
    BY <1>1 DEF PlaceInv
  <2>2. CASE OpenLog \/ NextEntry \/ EndOfEnumeration \/ FreeUnresolved \/ OnLoad
    BY <1>t, <2>2 DEF OpenLog, NextEntry, EndOfEnumeration, FreeUnresolved, OnLoad
  <2>3. CASE FindFirstFails \/ Inspect \/ LoadMod \/ ResolveOnLoad \/ OnLoadLogs
             \/ OnLoadReturns
    BY <1>t, <2>3 DEF FindFirstFails, Inspect, LoadMod, ResolveOnLoad, OnLoadLogs,
                      OnLoadReturns, CallLog
  <2> QED
    BY <2>2, <2>3 DEF load_mods
<1>e. \A e \in Entries :
        \/ pc'[e] = pc[e] /\ return'[e] = return[e] /\ on_load_calls'[e] = on_load_calls[e]
        \/ pc'[e] \in {"none", "idle"} /\ on_load_calls'[e] = on_load_calls[e] + 1
  <2>1. CASE OpenLog \/ NextEntry \/ EndOfEnumeration \/ FreeUnresolved
    BY <1>t, <2>1 DEF OpenLog, NextEntry, EndOfEnumeration, FreeUnresolved, callVars, modVars
  <2>2. CASE FindFirstFails \/ Inspect \/ LoadMod \/ ResolveOnLoad \/ OnLoadLogs
             \/ OnLoadReturns
    BY <1>t, <2>2 DEF FindFirstFails, Inspect, LoadMod, ResolveOnLoad, OnLoadLogs,
                      OnLoadReturns, CallLog, callVars, modVars
  <2>3. CASE OnLoad
    BY <1>t, <2>3 DEF OnLoad, callVars
  <2> QED
    BY <2>1, <2>2, <2>3 DEF load_mods
<1>3. ModThreadInv'
  <2>1. \A e \in Entries : on_load_calls[e] \in 0..1
    BY <1>t
  <2>2. \A e \in attached' : has_on_mod_load_export(e)
    <3>1. CASE ~LoadMod
      <4>1. attached' = attached
        BY <3>1 DEF load_mods, OpenLog, FindFirstFails, NextEntry, EndOfEnumeration, Inspect,
                    ResolveOnLoad, FreeUnresolved, OnLoad, OnLoadLogs, OnLoadReturns, modVars
      <4> QED
        BY <4>1 DEF LoadInv, ModThreadInv
    <3>2. CASE LoadMod
      <4>1. attached' = attached \cup {entry} /\ pc[Loader] = "load"
        BY <3>2 DEF LoadMod
      <4>2. has_on_mod_load_export(entry)
        BY <1>r, <4>1 DEF LoadInv, PlaceInv, Current
      <4> QED
        BY <4>1, <4>2 DEF LoadInv, ModThreadInv
    <3> QED
      BY <3>1, <3>2
  <2> QED
    BY <1>e, <1>u, <2>1, <2>2 DEF LoadInv, ModThreadInv, has_on_mod_load_export, LogLabels
<1>4. PhaseInv'
  <2>1. \A t \in Threads : pc'[t] # "killed"
    BY <1>2, <1>e, <1>r DEF LoadInv, PhaseInv
  <2> QED
    BY <1>u, <1>r, <2>1 DEF LoadInv, PhaseInv
<1>5. ForwardInv'
  BY <1>u DEF LoadInv, ForwardInv, load_proxy
<1> QED
  BY <1>1, <1>3, <1>4, <1>5 DEF LoadInv

LEMMA NextLoad == TypeOK /\ LoadInv /\ [Next]_vars => LoadInv'
<1> SUFFICES ASSUME TypeOK, LoadInv, [Next]_vars PROVE LoadInv'
  OBVIOUS
<1>t. /\ pc \in [Threads -> Labels] /\ return \in [Threads -> Labels]
      /\ Loader \in Threads /\ Loader \notin Entries /\ Entries \subseteq Threads
  BY ModLoaderAssumption DEF TypeOK
<1>1. CASE UNCHANGED vars
  BY <1>1 DEF vars, LoadInv, PlaceInv, SettledInv, ModThreadInv, PhaseInv, ForwardInv,
              processVars, proxyVars, callVars, modVars, Place, AtHand, Calls,
              has_on_mod_load_export, load_proxy
<1>2. ASSUME NEW e \in Entries, ModLogs(e) PROVE LoadInv'
  <2>1. UNCHANGED <<kind, installed, phase, dll_main, g_real_dll, functions, unvisited,
                    entry, mapped, attached, on_load_calls>>
    BY <1>2 DEF ModLogs, processVars, proxyVars, modVars
  <2>2. /\ pc[e] = "idle" /\ return' = [return EXCEPT ![e] = "idle"]
        /\ \E label \in LogLabels : pc' = [pc EXCEPT ![e] = label]
    BY <1>2 DEF ModLogs, CallLog, LogLabels
  <2>3. /\ Place' = Place /\ pc'[Loader] = pc[Loader]
        /\ return'[Loader] = return[Loader]
    BY <1>t, <2>2 DEF Place
  <2>4. phase = "running"
    BY <1>t, <2>2 DEF LoadInv, PhaseInv, TypeOK
  <2>5. (PlaceInv /\ SettledInv)'
    BY <2>1, <2>3
       DEF LoadInv, PlaceInv, SettledInv, AtHand, Calls, has_on_mod_load_export
  <2>6. ModThreadInv'
    BY <1>t, <2>1, <2>2 DEF LoadInv, ModThreadInv, has_on_mod_load_export, LogLabels
  <2>7. PhaseInv' /\ ForwardInv'
    BY <1>t, <2>1, <2>2, <2>4 DEF LoadInv, PhaseInv, ForwardInv, load_proxy, LogLabels
  <2> QED
    BY <2>5, <2>6, <2>7 DEF LoadInv
<1>3. CASE ExitProcess
  <2>1. /\ \A t \in Threads : pc'[t] = "killed"
        /\ phase = "running" /\ phase' = "exiting"
        /\ UNCHANGED <<kind, installed, dll_main, g_real_dll, functions, attached>>
    BY <1>3 DEF ExitProcess, proxyVars, modVars
  <2>2. Place' = "killed" /\ pc'[Loader] = "killed"
    BY <1>t, <2>1 DEF Place, LogLabels
  <2>3. (PlaceInv /\ SettledInv)'
    BY <2>2 DEF PlaceInv, SettledInv, Current, InMod, LogLabels
  <2>4. ModThreadInv'
    BY <1>t, <2>1 DEF LoadInv, ModThreadInv, has_on_mod_load_export, LogLabels
  <2> QED
    BY <2>1, <2>3, <2>4 DEF LoadInv, PhaseInv, ForwardInv, load_proxy
<1>4. CASE Detach
  <2>1. /\ phase = "exiting" /\ phase' = "terminated"
        /\ UNCHANGED <<kind, installed, dll_main, g_real_dll, functions, unvisited, entry,
                       mapped, attached, on_load_calls, pc, return>>
    BY <1>4 DEF Detach, proxyVars, modVars, callVars
  <2> QED
    BY <2>1 DEF LoadInv, PlaceInv, SettledInv, ModThreadInv, PhaseInv, ForwardInv, Place,
                AtHand, Calls, has_on_mod_load_export, load_proxy
<1> QED
  BY <1>1, <1>2, <1>3, <1>4, AttachLoad, LogLoad, LoadModsLoad DEF Next

(* Every variable keeps its type, the on_load_calls of a mod among them: no   *)
(* mod is started a second time.                                              *)
THEOREM TypeCorrect == Spec => []TypeOK
<1>1. Init => TypeOK /\ LoadInv
  BY InitType, InitLoad
<1>2. TypeOK /\ LoadInv /\ [Next]_vars => (TypeOK /\ LoadInv)'
  BY NextType, NextLoad
<1> QED
  BY <1>1, <1>2, PTL DEF Spec

LEMMA LoadInvariant == Spec => [](TypeOK /\ LoadInv)
<1>1. Init => TypeOK /\ LoadInv
  BY InitType, InitLoad
<1>2. TypeOK /\ LoadInv /\ [Next]_vars => (TypeOK /\ LoadInv)'
  BY NextType, NextLoad
<1> QED
  BY <1>1, <1>2, PTL DEF Spec

(* Once the enumeration is over every mod was started exactly once and stays  *)
(* loaded, in whatever order the files came and whatever failed; and no other *)
(* DLL ever runs code (load_mods, has_on_mod_load_export).                    *)
THEOREM LoadsAllModsAndOnlyMods == Spec => []AllModsAndOnlyMods
<1>1. TypeOK /\ LoadInv => AllModsAndOnlyMods
  <2> SUFFICES ASSUME TypeOK, LoadInv PROVE AllModsAndOnlyMods
    OBVIOUS
  <2>1. \A e \in attached : kind[e] \in {"load_fails", "unresolved", "mod"}
    BY DEF LoadInv, ModThreadInv, has_on_mod_load_export
  <2>2. ASSUME pc[Loader] = "done"
        PROVE  /\ mapped = {e \in Entries : kind[e] = "mod"}
               /\ \A e \in Entries : on_load_calls[e] = Calls(e)
    <3>1. Place = "done"
      BY <2>2 DEF Place, LogLabels
    <3>2. unvisited = {} /\ \A e \in Entries : ~AtHand(e)
      BY <3>1 DEF LoadInv, PlaceInv, AtHand, Current, InMod
    <3>3. \A e \in Entries : (e \in mapped <=> kind[e] = "mod") /\ on_load_calls[e] = Calls(e)
      BY <3>1, <3>2 DEF LoadInv, SettledInv
    <3> QED
      BY <3>3 DEF TypeOK
  <2> QED
    BY <2>1, <2>2 DEF AllModsAndOnlyMods, Calls
<1> QED
  BY <1>1, LoadInvariant, PTL

(* No call of a forwarded function goes to two different DLLs, and the _alt   *)
(* one has precedence (load_proxy, load_functions).                           *)
THEOREM ForwardsToTheChosenDll == Spec => []ForwardsToOneDll
<1>1. TypeOK /\ LoadInv => ForwardsToOneDll
  <2> SUFFICES ASSUME TypeOK, LoadInv, phase = "running", NEW f \in Exports
               PROVE  functions[f] = IF "alt" \in installed
                                       THEN IF f \in ExportsOf["alt"] THEN "alt" ELSE "null"
                                       ELSE IF f \in ExportsOf["system"] THEN "system"
                                                                        ELSE "null"
    BY DEF ForwardsToOneDll
  <2>1. g_real_dll = load_proxy /\ g_real_dll \in Dlls
    BY DEF LoadInv, ForwardInv
  <2>2. functions[f] = IF f \in ExportsOf[g_real_dll] THEN g_real_dll ELSE "null"
    BY DEF LoadInv, ForwardInv
  <2> QED
    BY <2>1, <2>2 DEF load_proxy, Dlls
<1> QED
  BY <1>1, LoadInvariant, PTL

-------------------------------------------------------------------------------
(* What mods write comes after the record that announces them. The record is  *)
(* in the file before on_mod_load is called, and only then can the mod, or    *)
(* the thread it starts, have something to write.                             *)
Writing == {"log_enter", "log_prefix", "log_text", "log_newline"}

Announced(e) ==
  \E j \in 1..Len(mod_log_file) :
    /\ mod_log_file[j].part = "newline"
    /\ mod_log_file[j].message = [text |-> "Loading mod", about |-> e]

(* Nobody writes to a file that could not be created.                         *)
FileInv ==
  /\ Place \in {"none", "open_log"} => g_log_file = "invalid"
  /\ g_log_file = "invalid" =>
       mod_log_file = <<>> /\ \A t \in Threads : pc[t] \notin Writing \cup {"log_leave"}

AnnouncedInv ==
  g_log_file # "invalid" =>
    /\ \A e \in Entries : on_load_calls[e] # 0 => Announced(e)
    /\ Place = "on_load" /\ pc[Loader] \notin Writing => Announced(entry)

SpokenInv ==
  /\ pc[Loader] \in LogLabels /\ return[Loader] = "on_load"
       => message[Loader] = [text |-> "Loading mod", about |-> entry]
  /\ \A t \in Threads :
       pc[t] \in LogLabels /\ message[t].text = "mod text" =>
         message[t].about \in Entries /\ on_load_calls[message[t].about] # 0

AnnounceInv == FileInv /\ AnnouncedInv /\ SpokenInv /\ AnnouncedFirst

LEMMA InitAnnounce == Init => AnnounceInv
<1> SUFFICES ASSUME Init PROVE AnnounceInv
  OBVIOUS
<1> USE ModLoaderAssumption DEF Init
<1>1. FileInv
  BY DEF FileInv, Writing
<1>2. AnnouncedInv /\ SpokenInv
  BY DEF AnnouncedInv, SpokenInv, LogLabels
<1>3. AnnouncedFirst
  <2>1. 1..Len(mod_log_file) = {}
    OBVIOUS
  <2> QED
    BY <2>1 DEF AnnouncedFirst
<1> QED
  BY <1>1, <1>2, <1>3 DEF AnnounceInv

LEMMA WriteGrows ==
  ASSUME TypeOK, NEW t \in Threads, WritePart(t)
  PROVE  \E part \in {"prefix", "text", "newline"} :
           LET r == [writer |-> t, part |-> part, message |-> message[t]]
           IN  /\ mod_log_file' = Append(mod_log_file, r)
               /\ Len(mod_log_file) \in Nat /\ Len(mod_log_file') = Len(mod_log_file) + 1
               /\ \A i \in 1..Len(mod_log_file) : mod_log_file'[i] = mod_log_file[i]
               /\ mod_log_file'[Len(mod_log_file) + 1] = r
               /\ pc[t] \in Writing \ {"log_enter"}
               /\ pc[t] = IF part = "prefix" THEN "log_prefix"
                          ELSE IF part = "text" THEN "log_text" ELSE "log_newline"
               /\ pc' = [pc EXCEPT ![t] = IF part = "prefix" THEN "log_text"
                                          ELSE IF part = "text" THEN "log_newline"
                                          ELSE "log_leave"]
<1>1. PICK part \in {"prefix", "text", "newline"} :
         /\ mod_log_file' = Append(mod_log_file, [writer |-> t, part |-> part,
                                                  message |-> message[t]])
         /\ pc[t] \in Writing \ {"log_enter"}
         /\ pc[t] = IF part = "prefix" THEN "log_prefix"
                    ELSE IF part = "text" THEN "log_text" ELSE "log_newline"
         /\ pc' = [pc EXCEPT ![t] = IF part = "prefix" THEN "log_text"
                                    ELSE IF part = "text" THEN "log_newline"
                                    ELSE "log_leave"]
  BY DEF WritePart, WriteFile, Writing
<1> DEFINE r == [writer |-> t, part |-> part, message |-> message[t]]
<1>2. mod_log_file \in Seq(Part) /\ r \in Part
  BY DEF TypeOK, Part
<1> HIDE DEF r
<1>3. /\ Len(mod_log_file) \in Nat /\ Len(Append(mod_log_file, r)) = Len(mod_log_file) + 1
      /\ \A i \in 1..Len(mod_log_file) : Append(mod_log_file, r)[i] = mod_log_file[i]
      /\ Append(mod_log_file, r)[Len(mod_log_file) + 1] = r
  BY <1>2
<1>4. mod_log_file' = Append(mod_log_file, r)
  BY <1>1 DEF r
<1> QED
  BY <1>1, <1>3, <1>4 DEF r

(* Whoever writes announces itself or a mod that was announced.               *)
LEMMA LogAnnounces ==
  ASSUME TypeOK, LoadInv, AnnounceInv, NEW t \in Threads, mod_log(t) PROVE AnnounceInv'
<1>t. /\ pc \in [Threads -> Labels] /\ return \in [Threads -> Labels]
      /\ message \in [Threads -> MessageType]
      /\ Loader \in Threads /\ Loader \notin Entries /\ Entries \subseteq Threads
  BY ModLoaderAssumption DEF TypeOK
<1>u. UNCHANGED <<kind, unvisited, entry, on_load_calls, g_log_file>>
  BY DEF mod_log, EnterLog, WritePart, WriteFile, LeaveLog, LogReturns, LogUnchanged,
         processVars, modVars, logVars
<1>i. pc[t] \in LogLabels
  BY DEF mod_log, EnterLog, WritePart, WriteFile, LeaveLog, LogReturns, LogLabels
<1>r. return[t] \in {"idle", "done", "next", "free", "on_load", "on_load_returned"}
  BY <1>i, <1>t DEF LoadInv, PlaceInv, ModThreadInv
<1>s. \/ /\ pc[t] = "log_done" /\ pc' = [pc EXCEPT ![t] = return[t]]
         /\ return' = [return EXCEPT ![t] = "none"]
         /\ message' = [message EXCEPT ![t] = NoMessage]
      \/ /\ \E label \in LogLabels : pc' = [pc EXCEPT ![t] = label]
         /\ return' = return /\ message' = message
  BY DEF mod_log, EnterLog, WritePart, WriteFile, LeaveLog, LogReturns, LogLabels, callVars
<1>p. Place' = Place
  BY <1>t, <1>i, <1>r, <1>s DEF Place, LogLabels
<1>1. SpokenInv'
  <2>1. \A s \in Threads :
          pc'[s] \in LogLabels =>
            pc[s] \in LogLabels /\ return'[s] = return[s] /\ message'[s] = message[s]
    BY <1>t, <1>i, <1>r, <1>s DEF LogLabels
  <2> QED
    BY <1>t, <1>u, <2>1 DEF AnnounceInv, SpokenInv
<1>2. CASE WritePart(t)
  <2>1. PICK part \in {"prefix", "text", "newline"} :
          LET r == [writer |-> t, part |-> part, message |-> message[t]]
          IN  /\ mod_log_file' = Append(mod_log_file, r)
              /\ Len(mod_log_file) \in Nat /\ Len(mod_log_file') = Len(mod_log_file) + 1
              /\ \A i \in 1..Len(mod_log_file) : mod_log_file'[i] = mod_log_file[i]
              /\ mod_log_file'[Len(mod_log_file) + 1] = r
              /\ pc[t] \in Writing \ {"log_enter"}
              /\ pc' = [pc EXCEPT ![t] = IF part = "prefix" THEN "log_text"
                                         ELSE IF part = "text" THEN "log_newline"
                                         ELSE "log_leave"]
    BY <1>2, WriteGrows
  <2>0. PICK n \in Nat : n = Len(mod_log_file)
    BY <2>1
  <2>2. Len(mod_log_file') = n + 1
    BY <2>0, <2>1
  <2>3. \A i \in 1..n : mod_log_file'[i] = mod_log_file[i]
    BY <2>0, <2>1
  <2>4. /\ mod_log_file'[n + 1].part = part
        /\ mod_log_file'[n + 1].message = message[t]
    BY <2>0, <2>1
  <2>5. pc[t] \in Writing \ {"log_enter"} /\ g_log_file # "invalid"
    BY <2>1, <1>t DEF AnnounceInv, FileInv
  <2>6. ASSUME NEW e, Announced(e) PROVE Announced(e)'
    <3>1. PICK j \in 1..n :
             /\ mod_log_file[j].part = "newline"
             /\ mod_log_file[j].message = [text |-> "Loading mod", about |-> e]
      BY <2>0, <2>6 DEF Announced
    <3>2. j \in 1..Len(mod_log_file') /\ mod_log_file'[j] = mod_log_file[j]
      BY <2>2, <2>3
    <3> QED
      BY <3>1, <3>2 DEF Announced
  <2>7. FileInv'
    BY <1>p, <1>u, <2>5 DEF AnnounceInv, FileInv
  <2>8. AnnouncedInv'
    <3>1. \A e \in Entries : on_load_calls'[e] # 0 => Announced(e)'
      BY <1>u, <2>5, <2>6 DEF AnnounceInv, AnnouncedInv
    <3>2. ASSUME Place' = "on_load", pc'[Loader] \notin Writing PROVE Announced(entry)'
      <4>1. CASE pc[Loader] \notin Writing
        BY <1>p, <1>u, <2>5, <2>6, <3>2, <4>1 DEF AnnounceInv, AnnouncedInv
      <4>2. CASE pc[Loader] \in Writing
        <5>1. t = Loader /\ part = "newline"
          BY <1>t, <2>1, <3>2, <4>2 DEF Writing
        <5>2. return[Loader] = "on_load"
          BY <1>p, <3>2, <4>2 DEF Place, Writing, LogLabels
        <5>3. message[Loader] = [text |-> "Loading mod", about |-> entry]
          BY <1>i, <5>1, <5>2 DEF AnnounceInv, SpokenInv
        <5>4. n + 1 \in 1..Len(mod_log_file')
          BY <2>2
        <5>5. \E j \in 1..Len(mod_log_file') :
                /\ mod_log_file'[j].part = "newline"
                /\ mod_log_file'[j].message = [text |-> "Loading mod", about |-> entry]
          BY <2>4, <5>1, <5>3, <5>4
        <5> QED
          BY <1>u, <5>5 DEF Announced
      <4> QED
        BY <4>1, <4>2
    <3> QED
      BY <3>1, <3>2 DEF AnnouncedInv
  <2>9. AnnouncedFirst'
    <3>a. \A i \in 1..(n + 1) :
            /\ i \in 1..n \/ i = n + 1
            /\ \A j \in 1..n : i = n + 1 => j \in 1..(i - 1)
            /\ \A j \in 1..(i - 1) : j \in 1..n
      OBVIOUS
    <3> SUFFICES ASSUME NEW i \in 1..(n + 1),
                        mod_log_file'[i].message.text = "mod text"
                 PROVE  \E j \in 1..(i - 1) :
                          /\ mod_log_file'[j].part = "newline"
                          /\ mod_log_file'[j].message =
                               [text |-> "Loading mod",
                                about |-> mod_log_file'[i].message.about]
      BY <2>2 DEF AnnouncedFirst
    <3>1. CASE i \in 1..n
      <4>1. PICK j \in 1..(i - 1) :
               /\ mod_log_file[j].part = "newline"
               /\ mod_log_file[j].message = [text |-> "Loading mod",
                                             about |-> mod_log_file[i].message.about]
        BY <2>0, <2>3, <3>1 DEF AnnounceInv, AnnouncedFirst
      <4>2. j \in 1..n
        BY <2>0, <3>1, <3>a
      <4> QED
        BY <2>3, <3>1, <4>1, <4>2
    <3>2. CASE i = n + 1
      <4>1. message[t].text = "mod text"
        BY <2>4, <3>2
      <4>2. message[t].about \in Entries /\ on_load_calls[message[t].about] # 0
        BY <1>i, <4>1 DEF AnnounceInv, SpokenInv
      <4>3. Announced(message[t].about)
        BY <2>5, <4>2 DEF AnnounceInv, AnnouncedInv
      <4>4. PICK j \in 1..n :
               /\ mod_log_file[j].part = "newline"
               /\ mod_log_file[j].message = [text |-> "Loading mod",
                                             about |-> message[t].about]
        BY <2>0, <4>3 DEF Announced
      <4>5. j \in 1..(i - 1)
        BY <2>0, <3>2, <3>a
      <4> QED
        BY <2>3, <2>4, <3>2, <4>4, <4>5
    <3> QED
      BY <3>1, <3>2, <3>a
  <2> QED
    BY <1>1, <2>7, <2>8, <2>9 DEF AnnounceInv
<1>3. CASE EnterLog(t) \/ LeaveLog(t) \/ LogReturns(t)
  <2>1. mod_log_file' = mod_log_file
    BY <1>3 DEF EnterLog, LeaveLog, LogReturns, logVars
  <2>2. /\ pc'[Loader] \notin Writing => pc[Loader] \notin Writing
        /\ \A s \in Threads : pc'[s] \in Writing \cup {"log_leave"}
                                => pc[s] \in Writing \cup {"log_leave"}
    BY <1>3, <1>t, <1>r DEF EnterLog, LeaveLog, LogReturns, Writing
  <2>3. FileInv' /\ AnnouncedInv' /\ AnnouncedFirst'
    <3>1. FileInv'
      BY <1>p, <1>u, <2>1, <2>2 DEF AnnounceInv, FileInv
    <3>2. AnnouncedInv'
      BY <1>p, <1>u, <2>1, <2>2 DEF AnnounceInv, AnnouncedInv, Announced
    <3>3. AnnouncedFirst'
      BY <2>1 DEF AnnounceInv, AnnouncedFirst
    <3> QED
      BY <3>1, <3>2, <3>3
  <2> QED
    BY <1>1, <2>3 DEF AnnounceInv
<1> QED
  BY <1>2, <1>3 DEF mod_log

(* A step of load_mods lets no thread write to the file but, through mod_log, *)
(* the loader itself.                                                         *)
LEMMA LoadModsOthers ==
  ASSUME TypeOK, LoadInv, load_mods
  PROVE  /\ mod_log_file' = mod_log_file
         /\ Place # "open_log" => g_log_file' = g_log_file
         /\ Place' \notin {"none", "open_log"}
         /\ \A t \in Entries :
              /\ message'[t] = message[t]
              /\ pc'[t] = pc[t] \/ {pc[t], pc'[t]} \cap LogLabels = {}
         /\ \A e \in Entries :
              ~(e = entry /\ Place = "on_load") => on_load_calls'[e] = on_load_calls[e]
<1>t. /\ pc \in [Threads -> Labels] /\ return \in [Threads -> Labels]
      /\ message \in [Threads -> MessageType]
      /\ on_load_calls \in [Entries -> 0..1]
      /\ Loader \in Threads /\ Loader \notin Entries /\ Entries \subseteq Threads
      /\ entry \in Threads
  BY ModLoaderAssumption DEF TypeOK
<1>r. pc[Loader] \in LoaderLabels \ {"done"} /\ Place = pc[Loader]
  BY LoaderRuns
<1> USE DEF LoaderUnchanged, callVars, modVars
<1>1. mod_log_file' = mod_log_file
  BY DEF load_mods, OpenLog, FindFirstFails, NextEntry, EndOfEnumeration, Inspect, LoadMod,
         ResolveOnLoad, FreeUnresolved, OnLoad, OnLoadLogs, OnLoadReturns
<1>2. Place # "open_log" => g_log_file' = g_log_file
  BY <1>r DEF load_mods, OpenLog, FindFirstFails, NextEntry, EndOfEnumeration, Inspect,
              LoadMod, ResolveOnLoad, FreeUnresolved, OnLoad, OnLoadLogs, OnLoadReturns
<1>3. Place' \notin {"none", "open_log"}
  <2>1. CASE OpenLog \/ NextEntry \/ EndOfEnumeration \/ FreeUnresolved \/ OnLoad
    BY <1>t, <2>1
       DEF OpenLog, NextEntry, EndOfEnumeration, FreeUnresolved, OnLoad, Place, LogLabels
  <2>3. ASSUME \E text \in Texts, about \in Threads, then \in LoaderLabels \ {"open_log"} :
                 CallLog(Loader, text, about, then)
        PROVE  Place' \notin {"none", "open_log"}
    <3>1. PICK text \in Texts, about \in Threads, then \in LoaderLabels \ {"open_log"} :
             CallLog(Loader, text, about, then)
      BY <2>3
    <3>2. Place' = then
      BY <3>1, CallLogPlace
    <3> QED
      BY <3>2 DEF LoaderLabels
  <2>4. CASE FindFirstFails \/ Inspect \/ LoadMod
    <3>1. CASE FindFirstFails
      BY <1>t, <2>3, <3>1 DEF FindFirstFails, Texts, LoaderLabels
    <3>2. CASE Inspect
      <4>1. CASE has_on_mod_load_export(entry)
        BY <1>t, <3>2, <4>1 DEF Inspect, Place, LogLabels
      <4>2. CASE ~has_on_mod_load_export(entry)
        BY <1>t, <2>3, <3>2, <4>2 DEF Inspect, Texts, LoaderLabels
      <4> QED
        BY <4>1, <4>2
    <3>3. CASE LoadMod
      <4>1. CASE kind[entry] # "load_fails"
        BY <1>t, <3>3, <4>1 DEF LoadMod, Place, LogLabels
      <4>2. CASE kind[entry] = "load_fails"
        BY <1>t, <2>3, <3>3, <4>2 DEF LoadMod, Texts, LoaderLabels
      <4> QED
        BY <4>1, <4>2
    <3> QED
      BY <2>4, <3>1, <3>2, <3>3
  <2>5. CASE ResolveOnLoad \/ OnLoadLogs \/ OnLoadReturns
    BY <1>t, <2>3, <2>5 DEF ResolveOnLoad, OnLoadLogs, OnLoadReturns, Texts, LoaderLabels
  <2> QED
    BY <2>1, <2>4, <2>5 DEF load_mods
<1>4. \A t \in Entries :
        /\ message'[t] = message[t]
        /\ pc'[t] = pc[t] \/ {pc[t], pc'[t]} \cap LogLabels = {}
  <2>1. CASE OpenLog \/ NextEntry \/ EndOfEnumeration \/ FreeUnresolved
    BY <1>t, <2>1 DEF OpenLog, NextEntry, EndOfEnumeration, FreeUnresolved
  <2>2. CASE FindFirstFails \/ Inspect \/ LoadMod \/ ResolveOnLoad \/ OnLoadLogs
             \/ OnLoadReturns
    BY <1>t, <2>2 DEF FindFirstFails, Inspect, LoadMod, ResolveOnLoad, OnLoadLogs,
                      OnLoadReturns, CallLog
  <2>3. CASE OnLoad
    <3>1. Place = "on_load" /\ UNCHANGED message
      BY <1>r, <2>3 DEF OnLoad
    <3>2. entry \in Entries /\ on_load_calls[entry] = 0
      BY <3>1 DEF LoadInv, PlaceInv, SettledInv, AtHand, Current, InMod
    <3>3. pc[entry] \in {"none", "killed"}
      BY <3>2 DEF LoadInv, ModThreadInv
    <3>4. \A t \in Entries : pc'[t] = pc[t] \/ (t = entry /\ pc'[t] \in {"none", "idle"})
      BY <1>t, <2>3 DEF OnLoad
    <3> QED
      BY <3>1, <3>3, <3>4 DEF LogLabels
  <2> QED
    BY <2>1, <2>2, <2>3 DEF load_mods
<1>5. \A e \in Entries :
        ~(e = entry /\ Place = "on_load") => on_load_calls'[e] = on_load_calls[e]
  <2>1. CASE ~OnLoad
    BY <2>1 DEF load_mods, OpenLog, FindFirstFails, NextEntry, EndOfEnumeration, Inspect,
                LoadMod, ResolveOnLoad, FreeUnresolved, OnLoadLogs, OnLoadReturns
  <2>2. CASE OnLoad
    <3>1. Place = "on_load" /\ on_load_calls' = [on_load_calls EXCEPT ![entry] = @ + 1]
      BY <1>r, <2>2 DEF OnLoad
    <3> QED
      BY <1>t, <3>1
  <2> QED
    BY <2>1, <2>2
<1> QED
  BY <1>1, <1>2, <1>3, <1>4, <1>5

(* What the loader says when it calls mod_log.                                *)
Speaks ==
  /\ g_log_file' = g_log_file /\ entry' = entry /\ on_load_calls' = on_load_calls
  /\ pc'[Loader] = IF g_log_file = "invalid" THEN "log_done" ELSE "log_enter"
  /\ return'[Loader] = "on_load"
       => message'[Loader] = [text |-> "Loading mod", about |-> entry]
  /\ message'[Loader].text = "mod text"
       => /\ message'[Loader].about \in Entries
          /\ on_load_calls[message'[Loader].about] # 0

LEMMA LoadModsSpeaks ==
  ASSUME TypeOK, LoadInv, load_mods
  PROVE  Speaks \/ (pc'[Loader] \notin LogLabels /\ Place' # "on_load")
<1>t. /\ pc \in [Threads -> Labels] /\ return \in [Threads -> Labels]
      /\ message \in [Threads -> MessageType]
      /\ Loader \in Threads /\ Loader \notin Entries /\ Entries \subseteq Threads
  BY ModLoaderAssumption DEF TypeOK
<1>r. pc[Loader] \in LoaderLabels \ {"done"} /\ Place = pc[Loader]
  BY LoaderRuns
<1>c. ASSUME NEW text, NEW about, NEW then, CallLog(Loader, text, about, then),
             UNCHANGED <<g_log_file, entry, on_load_calls>>,
             then = "on_load" => text = "Loading mod" /\ about = entry,
             text = "mod text" => about \in Entries /\ on_load_calls[about] # 0
      PROVE  Speaks
  <2>1. /\ pc'[Loader] = (IF g_log_file = "invalid" THEN "log_done" ELSE "log_enter")
        /\ return'[Loader] = then
        /\ message'[Loader] = [text |-> text, about |-> about]
    BY <1>c, <1>t DEF CallLog
  <2>2. message'[Loader].text = text /\ message'[Loader].about = about
    BY <2>1
  <2>3. return'[Loader] = "on_load"
          => message'[Loader] = [text |-> "Loading mod", about |-> entry]
    BY <1>c, <2>1
  <2>4. message'[Loader].text = "mod text"
          => /\ message'[Loader].about \in Entries
             /\ on_load_calls[message'[Loader].about] # 0
    BY <1>c, <2>2
  <2> QED
    BY <1>c, <2>1, <2>3, <2>4 DEF Speaks
<1>1. CASE OpenLog \/ NextEntry \/ EndOfEnumeration \/ FreeUnresolved \/ OnLoad
  BY <1>1, <1>t
     DEF OpenLog, NextEntry, EndOfEnumeration, FreeUnresolved, OnLoad, Place, LogLabels
<1>2. CASE FindFirstFails
  <2>1. CallLog(Loader, "No mods", Loader, "done")
    BY <1>2 DEF FindFirstFails
  <2>2. UNCHANGED <<g_log_file, entry, on_load_calls>>
    BY <1>2 DEF FindFirstFails, modVars
  <2> QED
    BY <1>c, <2>1, <2>2
<1>3. CASE Inspect
  <2>1. CASE has_on_mod_load_export(entry)
    BY <1>3, <2>1, <1>t DEF Inspect, Place, LogLabels
  <2>2. CASE ~has_on_mod_load_export(entry)
    <3>1. CallLog(Loader, "Skipped DLL", entry, "next")
      BY <1>3, <2>2 DEF Inspect
    <3>2. UNCHANGED <<g_log_file, entry, on_load_calls>>
      BY <1>3 DEF Inspect, modVars
    <3> QED
      BY <1>c, <3>1, <3>2
  <2> QED
    BY <2>1, <2>2
<1>4. CASE LoadMod
  <2>1. CASE kind[entry] # "load_fails"
    BY <1>4, <2>1, <1>t DEF LoadMod, Place, LogLabels
  <2>2. CASE kind[entry] = "load_fails"
    <3>1. CallLog(Loader, "Failed to load", entry, "next")
      BY <1>4, <2>2 DEF LoadMod
    <3>2. UNCHANGED <<g_log_file, entry, on_load_calls>>
      BY <1>4 DEF LoadMod
    <3> QED
      BY <1>c, <3>1, <3>2
  <2> QED
    BY <2>1, <2>2
<1>5. CASE ResolveOnLoad
  <2>1. \/ CallLog(Loader, "Failed to resolve", entry, "free")
        \/ CallLog(Loader, "Loading mod", entry, "on_load")
    BY <1>5 DEF ResolveOnLoad
  <2>2. UNCHANGED <<g_log_file, entry, on_load_calls>>
    BY <1>5 DEF ResolveOnLoad, modVars
  <2> QED
    BY <1>c, <2>1, <2>2
<1>6. CASE OnLoadLogs
  <2>1. CallLog(Loader, "mod text", entry, "on_load_returned")
    BY <1>6 DEF OnLoadLogs
  <2>2. UNCHANGED <<g_log_file, entry, on_load_calls>>
    BY <1>6 DEF OnLoadLogs, modVars
  <2>3. Place = "on_load_running"
    BY <1>6, <1>r DEF OnLoadLogs
  <2>4. entry \in Entries
    BY <2>3 DEF LoadInv, PlaceInv, Current, InMod
  <2>5. on_load_calls[entry] # 0
    BY <2>3, <2>4 DEF LoadInv, SettledInv, AtHand, Current, InMod
  <2> QED
    BY <1>c, <2>1, <2>2, <2>4, <2>5
<1>7. CASE OnLoadReturns
  <2>1. CallLog(Loader, "Loaded mod", entry, "next")
    BY <1>7 DEF OnLoadReturns
  <2>2. UNCHANGED <<g_log_file, entry, on_load_calls>>
    BY <1>7 DEF OnLoadReturns, modVars
  <2> QED
    BY <1>c, <2>1, <2>2
<1> QED
  BY <1>1, <1>2, <1>3, <1>4, <1>5, <1>6, <1>7 DEF load_mods

LEMMA LoadModsAnnounces ==
  ASSUME TypeOK, LoadInv, AnnounceInv, load_mods PROVE AnnounceInv'
<1>t. /\ Threads = Entries \cup {Loader} /\ Loader \notin Entries
      /\ on_load_calls \in [Entries -> 0..1]
      /\ g_log_file \in {"invalid", "open", "closed"}
  BY ModLoaderAssumption DEF TypeOK
<1>r. pc[Loader] \in LoaderLabels \ {"done"} /\ pc[Loader] \notin LogLabels
      /\ Place = pc[Loader]
  BY LoaderRuns
<1>s. /\ mod_log_file' = mod_log_file
      /\ Place # "open_log" => g_log_file' = g_log_file
      /\ Place' \notin {"none", "open_log"}
      /\ \A t \in Entries :
           /\ message'[t] = message[t]
           /\ pc'[t] = pc[t] \/ {pc[t], pc'[t]} \cap LogLabels = {}
      /\ \A e \in Entries :
           ~(e = entry /\ Place = "on_load") => on_load_calls'[e] = on_load_calls[e]
  BY LoadModsOthers
<1>l. Speaks \/ (pc'[Loader] \notin LogLabels /\ Place' # "on_load")
  BY LoadModsSpeaks
<1> USE DEF Speaks
<1>1. FileInv'
  <2>1. Place = "open_log" => g_log_file = "invalid"
    BY DEF AnnounceInv, FileInv
  <2>2. g_log_file' = "invalid" => g_log_file = "invalid"
    BY <1>s, <2>1
  <2>3. ASSUME g_log_file' = "invalid", NEW t \in Threads
        PROVE  pc'[t] \notin Writing \cup {"log_leave"}
    BY <1>t, <1>s, <1>l, <2>2, <2>3 DEF AnnounceInv, FileInv, Writing, LogLabels
  <2> QED
    BY <1>s, <2>2, <2>3 DEF AnnounceInv, FileInv
<1>2. AnnouncedInv'
  <2>1. \A e : Announced(e)' <=> Announced(e)
    BY <1>s DEF Announced
  <2>2. CASE Place = "open_log"
    <3>1. \A e \in Entries : on_load_calls[e] = 0
      BY <1>t, <2>2 DEF LoadInv, PlaceInv, SettledInv, AtHand, Current, InMod, Calls
    <3>2. g_log_file = "invalid"
      BY <2>2 DEF AnnounceInv, FileInv
    <3>3. \A e \in Entries : on_load_calls'[e] = 0
      BY <1>s, <2>2, <3>1
    <3>4. g_log_file' # "invalid" => Place' # "on_load"
      BY <1>l, <3>2
    <3> QED
      BY <3>3, <3>4 DEF AnnouncedInv
  <2>3. CASE Place # "open_log"
    <3> SUFFICES ASSUME g_log_file' # "invalid" PROVE AnnouncedInv'
      BY DEF AnnouncedInv
    <3>1. g_log_file # "invalid"
      BY <1>s, <2>3
    <3>2. \A e \in Entries : on_load_calls'[e] # 0 => Announced(e)'
      BY <1>r, <1>s, <2>1, <3>1 DEF AnnounceInv, AnnouncedInv, Writing, LogLabels
    <3>3. ~(Place' = "on_load" /\ pc'[Loader] \notin Writing)
      BY <1>l, <3>1 DEF Writing
    <3> QED
      BY <3>2, <3>3 DEF AnnouncedInv
  <2> QED
    BY <2>2, <2>3
<1>3. SpokenInv'
  <2>1. ASSUME NEW t \in Entries, pc'[t] \in LogLabels, message'[t].text = "mod text"
        PROVE  message'[t].about \in Entries /\ on_load_calls'[message'[t].about] # 0
    <3>1. message'[t] = message[t] /\ pc[t] \in LogLabels
      BY <1>s, <2>1 DEF LogLabels
    <3>2. message[t].about \in Entries /\ on_load_calls[message[t].about] # 0
      BY <1>t, <2>1, <3>1 DEF AnnounceInv, SpokenInv
    <3>3. \A e \in Entries : on_load_calls[e] # 0 => on_load_calls'[e] # 0
      <4>1. \A e \in Entries : e = entry /\ Place = "on_load" => on_load_calls[e] = 0
        BY DEF LoadInv, SettledInv, AtHand, Current, InMod
      <4> QED
        BY <1>s, <4>1
    <3> QED
      BY <3>1, <3>2, <3>3
  <2> QED
    BY <1>t, <1>l, <2>1 DEF SpokenInv
<1>4. AnnouncedFirst'
  BY <1>s DEF AnnounceInv, AnnouncedFirst
<1> QED
  BY <1>1, <1>2, <1>3, <1>4 DEF AnnounceInv

LEMMA NextAnnounce == TypeOK /\ LoadInv /\ AnnounceInv /\ [Next]_vars => AnnounceInv'
<1> SUFFICES ASSUME TypeOK, LoadInv, AnnounceInv, [Next]_vars PROVE AnnounceInv'
  OBVIOUS
<1>t. /\ pc \in [Threads -> Labels] /\ return \in [Threads -> Labels]
      /\ message \in [Threads -> MessageType]
      /\ Loader \in Threads /\ Loader \notin Entries /\ Entries \subseteq Threads
  BY ModLoaderAssumption DEF TypeOK
<1>f. ASSUME mod_log_file' = mod_log_file, on_load_calls' = on_load_calls, entry' = entry,
             g_log_file' = "invalid" <=> g_log_file = "invalid"
      PROVE  /\ AnnouncedFirst'
             /\ (Place' = "on_load" /\ pc'[Loader] \notin Writing
                   => Place = "on_load" /\ pc[Loader] \notin Writing) => AnnouncedInv'
  BY <1>f DEF AnnounceInv, AnnouncedFirst, AnnouncedInv, Announced
<1>1. CASE UNCHANGED vars
  <2>1. UNCHANGED <<mod_log_file, on_load_calls, entry, g_log_file, pc, return, message>>
    BY <1>1 DEF vars, logVars, modVars, callVars
  <2> QED
    BY <2>1 DEF AnnounceInv, FileInv, AnnouncedInv, SpokenInv, AnnouncedFirst, Announced,
                Place
<1>2. CASE Attach
  <2>1. UNCHANGED <<mod_log_file, on_load_calls, entry, g_log_file, return, message>>
    BY <1>2 DEF Attach, InitializeLogLock, LoadRealDll, load_functions, CreateLoaderThread,
                AttachFails, AttachUnchanged, modVars, callVars
  <2>2. phase = "attaching" /\ \A t \in Threads : pc[t] = "none"
    BY <1>2 DEF Attach, InitializeLogLock, LoadRealDll, load_functions, CreateLoaderThread,
                AttachFails, LoadInv, PhaseInv
  <2>3. pc' = pc \/ pc' = [pc EXCEPT ![Loader] = "open_log"]
    BY <1>2 DEF Attach, InitializeLogLock, LoadRealDll, load_functions, CreateLoaderThread,
                AttachFails
  <2>4. \A t \in Threads : pc'[t] \in {"none", "open_log"}
    BY <1>t, <2>2, <2>3
  <2>5. Place = "none" /\ Place' \in {"none", "open_log"}
    BY <1>t, <2>2, <2>4 DEF Place, LogLabels
  <2>6. FileInv'
    BY <2>1, <2>4, <2>5 DEF AnnounceInv, FileInv, Writing
  <2>7. AnnouncedInv' /\ AnnouncedFirst'
    BY <1>f, <2>1, <2>5
  <2>8. SpokenInv'
    BY <1>t, <2>4 DEF SpokenInv, LogLabels
  <2> QED
    BY <2>6, <2>7, <2>8 DEF AnnounceInv
<1>3. ASSUME NEW e \in Entries, ModLogs(e) PROVE AnnounceInv'
  <2>1. UNCHANGED <<mod_log_file, on_load_calls, entry, g_log_file>>
    BY <1>3 DEF ModLogs, logVars, modVars
  <2>2. /\ pc[e] = "idle"
        /\ pc' = [pc EXCEPT ![e] = IF g_log_file = "invalid" THEN "log_done" ELSE "log_enter"]
        /\ return' = [return EXCEPT ![e] = "idle"]
        /\ message' = [message EXCEPT ![e] = [text |-> "mod text", about |-> e]]
    BY <1>3 DEF ModLogs, CallLog
  <2>3. pc'[Loader] = pc[Loader] /\ return'[Loader] = return[Loader]
    BY <1>t, <2>2
  <2>4. Place' = Place
    BY <2>3 DEF Place
  <2>5. FileInv'
    BY <1>t, <2>1, <2>2, <2>4 DEF AnnounceInv, FileInv, Writing
  <2>6. AnnouncedInv' /\ AnnouncedFirst'
    BY <1>f, <2>1, <2>3, <2>4
  <2>7. on_load_calls[e] # 0
    BY <2>2 DEF LoadInv, ModThreadInv
  <2>8. SpokenInv'
    <3>1. message'[Loader] = message[Loader]
      BY <1>t, <2>2
    <3>2. ASSUME NEW t \in Threads, pc'[t] \in LogLabels, message'[t].text = "mod text"
          PROVE  message'[t].about \in Entries /\ on_load_calls'[message'[t].about] # 0
      <4>1. CASE t = e
        BY <1>t, <2>1, <2>2, <2>7, <4>1
      <4>2. CASE t # e
        <5>1. pc[t] \in LogLabels /\ message'[t] = message[t]
          BY <1>t, <2>2, <3>2, <4>2
        <5> QED
          BY <2>1, <3>2, <5>1 DEF AnnounceInv, SpokenInv
      <4> QED
        BY <4>1, <4>2
    <3> QED
      BY <2>1, <2>3, <3>1, <3>2 DEF AnnounceInv, SpokenInv
  <2> QED
    BY <2>5, <2>6, <2>8 DEF AnnounceInv
<1>4. CASE ExitProcess
  <2>1. /\ UNCHANGED <<mod_log_file, on_load_calls, entry, g_log_file>>
        /\ \A t \in Threads : pc'[t] = "killed"
    BY <1>4 DEF ExitProcess, logVars, modVars
  <2>2. Place' = "killed" /\ pc'[Loader] = "killed"
    BY <1>t, <2>1 DEF Place, LogLabels
  <2>3. FileInv' /\ SpokenInv'
    BY <2>1, <2>2 DEF AnnounceInv, FileInv, SpokenInv, Writing, LogLabels
  <2>4. AnnouncedInv' /\ AnnouncedFirst'
    BY <1>f, <2>1, <2>2
  <2> QED
    BY <2>3, <2>4 DEF AnnounceInv
<1>5. CASE Detach
  <2>1. UNCHANGED <<mod_log_file, on_load_calls, entry, pc, return, message>>
    BY <1>5 DEF Detach, modVars, callVars
  <2>2. g_log_file' = "invalid" <=> g_log_file = "invalid"
    BY <1>5 DEF Detach
  <2>3. Place' = Place
    BY <2>1 DEF Place
  <2>4. FileInv' /\ SpokenInv'
    BY <2>1, <2>2, <2>3 DEF AnnounceInv, FileInv, SpokenInv
  <2>5. AnnouncedInv' /\ AnnouncedFirst'
    BY <1>f, <2>1, <2>2, <2>3
  <2> QED
    BY <2>4, <2>5 DEF AnnounceInv
<1> QED
  BY <1>1, <1>2, <1>3, <1>4, <1>5, LogAnnounces, LoadModsAnnounces DEF Next

(* A reader of mod.log meets the record that announces a mod before anything  *)
(* the mod wrote, from whatever thread (load_mods, mod_log).                  *)
THEOREM ModsAreAnnouncedFirst == Spec => []AnnouncedFirst
<1>1. Init => AnnounceInv
  BY InitAnnounce
<1>2. TypeOK /\ LoadInv /\ AnnounceInv /\ [Next]_vars => AnnounceInv'
  BY NextAnnounce
<1>3. AnnounceInv => AnnouncedFirst
  BY DEF AnnounceInv
<1> QED
  BY <1>1, <1>2, <1>3, LoadInvariant, PTL DEF Spec

-------------------------------------------------------------------------------
(* mod_log implements RecordLog. Between two records the file holds a whole   *)
(* number of them; inside the lock it holds, after those, the parts that the  *)
(* owner of the lock has written of its own.                                  *)
Inside == {"log_prefix", "log_text", "log_newline", "log_leave"}

Whole == Len(mod_log_file) \div 3
Rest == Len(mod_log_file) % 3

(* How many parts of its record a thread at this label has written.           *)
Written(label) == CASE label = "log_text" -> 1
                    [] label = "log_newline" -> 2
                    [] OTHER -> 0

Own(t, i) == mod_log_file[i].writer = t /\ mod_log_file[i].message = message[t]

LockInv == ~Ended => \A t \in Threads : g_log_lock = t <=> pc[t] \in Inside

PartsInv ==
  ~Ended =>
    /\ Rest = IF g_log_lock \in Threads THEN Written(pc[g_log_lock]) ELSE 0
    /\ g_log_lock \in Threads =>
         \A i \in (3 * Whole + 1)..(3 * Whole + Rest) : Own(g_log_lock, i)

RecordInv == LockInv /\ PartsInv

LEMMA Thirds ==
  ASSUME NEW n \in Nat
  PROVE  /\ n \div 3 \in Nat /\ n % 3 \in 0..2
         /\ n = 3 * (n \div 3) + (n % 3)
         /\ n % 3 # 2 => (n + 1) \div 3 = n \div 3 /\ (n + 1) % 3 = (n % 3) + 1
         /\ n % 3 = 2 => (n + 1) \div 3 = (n \div 3) + 1 /\ (n + 1) % 3 = 0
<1>1. n \div 3 \in Nat /\ n % 3 \in 0..2
  OBVIOUS
<1>2. n = 3 * (n \div 3) + (n % 3)
  OBVIOUS
<1>3. n % 3 # 2 => (n + 1) \div 3 = n \div 3 /\ (n + 1) % 3 = (n % 3) + 1
  OBVIOUS
<1>4. n % 3 = 2 => (n + 1) \div 3 = (n \div 3) + 1 /\ (n + 1) % 3 = 0
  OBVIOUS
<1> QED
  BY <1>1, <1>2, <1>3, <1>4

LEMMA InitRecord == Init => RecordInv
<1> SUFFICES ASSUME Init PROVE RecordInv
  OBVIOUS
<1> USE ModLoaderAssumption DEF Init
<1>1. LockInv
  BY DEF LockInv, Inside
<1>2. Len(mod_log_file) = 0 /\ g_log_lock \notin Threads
  OBVIOUS
<1>3. Rest = 0
  BY <1>2, Thirds DEF Rest
<1> QED
  BY <1>1, <1>2, <1>3 DEF RecordInv, PartsInv

(* A step that writes nothing, and moves no thread into the lock or out of it.*)
Quiet ==
  /\ UNCHANGED <<mod_log_file, g_log_lock>>
  /\ Ended' = Ended
  /\ \A t \in Threads :
       \/ pc'[t] = pc[t] /\ message'[t] = message[t]
       \/ pc[t] \notin Inside \cup Writing /\ pc'[t] \notin Inside

LEMMA QuietRecord ==
  ASSUME RecordInv, Quiet PROVE RecordInv'
<1> USE DEF Quiet
<1>1. Whole' = Whole /\ Rest' = Rest
  BY DEF Whole, Rest
<1>2. LockInv'
  BY DEF RecordInv, LockInv
<1>3. PartsInv'
  <2> SUFFICES ASSUME ~Ended PROVE PartsInv'
    BY DEF PartsInv
  <2>1. CASE g_log_lock \notin Threads
    BY <1>1, <2>1 DEF RecordInv, PartsInv
  <2>2. CASE g_log_lock \in Threads
    <3>1. pc'[g_log_lock] = pc[g_log_lock] /\ message'[g_log_lock] = message[g_log_lock]
      BY <2>2 DEF RecordInv, LockInv
    <3>2. Rest' = Written(pc'[g_log_lock])
      BY <1>1, <2>2, <3>1 DEF RecordInv, PartsInv
    <3>3. \A i \in (3 * Whole + 1)..(3 * Whole + Rest) : Own(g_log_lock, i)'
      BY <2>2, <3>1 DEF RecordInv, PartsInv, Own
    <3> QED
      BY <1>1, <2>2, <3>2, <3>3 DEF PartsInv
  <2> QED
    BY <2>1, <2>2
<1> QED
  BY <1>2, <1>3 DEF RecordInv

(* The parts of the first two writes go after the whole records; the third    *)
(* completes one, and the three are about the same call.                      *)
LEMMA WriteRecord ==
  ASSUME TypeOK, LoadInv, RecordInv, NEW t \in Threads, WritePart(t)
  PROVE  /\ RecordInv'
         /\ Records' = IF pc[t] = "log_newline" THEN Append(Records, {<<t, message[t]>>})
                                                ELSE Records
<1>t. pc \in [Threads -> Labels] /\ phase \in {"attaching", "running", "exiting", "terminated"}
  BY DEF TypeOK
<1>1. PICK part \in {"prefix", "text", "newline"} :
        LET r == [writer |-> t, part |-> part, message |-> message[t]]
        IN  /\ mod_log_file' = Append(mod_log_file, r)
            /\ Len(mod_log_file) \in Nat /\ Len(mod_log_file') = Len(mod_log_file) + 1
            /\ \A i \in 1..Len(mod_log_file) : mod_log_file'[i] = mod_log_file[i]
            /\ mod_log_file'[Len(mod_log_file) + 1] = r
            /\ pc[t] \in Writing \ {"log_enter"}
            /\ pc[t] = IF part = "prefix" THEN "log_prefix"
                       ELSE IF part = "text" THEN "log_text" ELSE "log_newline"
            /\ pc' = [pc EXCEPT ![t] = IF part = "prefix" THEN "log_text"
                                       ELSE IF part = "text" THEN "log_newline"
                                       ELSE "log_leave"]
  BY WriteGrows
<1>2. PICK n \in Nat, w \in Nat, m \in 0..2 :
        n = Len(mod_log_file) /\ w = Whole /\ m = Rest /\ n = 3 * w + m
  BY <1>1, Thirds DEF Whole, Rest
<1>3. /\ m # 2 => Whole' = w /\ Rest' = m + 1
      /\ m = 2 => Whole' = w + 1 /\ Rest' = 0
  BY <1>1, <1>2, Thirds DEF Whole, Rest
<1>4. \A i \in 1..n : mod_log_file'[i] = mod_log_file[i]
  BY <1>1, <1>2
<1>5. mod_log_file'[n + 1].writer = t /\ mod_log_file'[n + 1].message = message[t]
  BY <1>1, <1>2
<1>u. UNCHANGED <<g_log_lock, message, phase>>
  BY DEF WritePart, WriteFile, LogUnchanged, processVars, callVars
<1>6. ~Ended /\ ~Ended'
  <2>1. pc[t] \in LogLabels
    BY <1>1 DEF Writing, LogLabels
  <2> QED
    BY <1>t, <1>u, <2>1 DEF LoadInv, PhaseInv, Ended, LogLabels
<1>7. g_log_lock = t
  BY <1>1, <1>6 DEF RecordInv, LockInv, Inside, Writing
<1>8. m = Written(pc[t]) /\ \A i \in (3 * w + 1)..(3 * w + m) : Own(t, i)
  BY <1>2, <1>6, <1>7 DEF RecordInv, PartsInv
<1>9. LockInv'
  BY <1>1, <1>t, <1>u, <1>6 DEF RecordInv, LockInv, Inside, Writing
<1>10. \A k \in 1..w : Record(k)' = Record(k)
  <2>1. \A k \in 1..w : (3 * k - 2)..(3 * k) \subseteq 1..n
    BY <1>2
  <2> QED
    BY <1>4, <2>1 DEF Record
<1>11. CASE part # "newline"
  <2>1. m # 2 /\ pc[t] # "log_newline" /\ Written(pc'[t]) = m + 1
    BY <1>1, <1>8, <1>t, <1>11 DEF Written
  <2>2. \A i \in (3 * w + 1)..(3 * w + m + 1) : Own(t, i)'
    <3> SUFFICES ASSUME NEW i \in (3 * w + 1)..(3 * w + m + 1) PROVE Own(t, i)'
      OBVIOUS
    <3>1. CASE i \in (3 * w + 1)..(3 * w + m)
      <4>1. i \in 1..n
        BY <1>2, <3>1
      <4> QED
        BY <1>4, <1>8, <1>u, <3>1, <4>1 DEF Own
    <3>2. CASE i = n + 1
      BY <1>5, <1>u, <3>2 DEF Own
    <3> QED
      BY <1>2, <3>1, <3>2
  <2>3. PartsInv'
    BY <1>3, <1>7, <1>u, <2>1, <2>2 DEF PartsInv
  <2>4. Records' = Records
    <3>1. Records = [k \in 1..w |-> Record(k)]
      BY <1>2 DEF Records, Whole
    <3>2. Records' = [k \in 1..w |-> Record(k)']
      BY <1>3, <2>1 DEF Records, Whole
    <3> QED
      BY <1>10, <3>1, <3>2
  <2> QED
    BY <1>9, <2>1, <2>3, <2>4 DEF RecordInv
<1>12. CASE part = "newline"
  <2>1. m = 2 /\ pc[t] = "log_newline" /\ Written(pc'[t]) = 0
    BY <1>1, <1>8, <1>t, <1>12 DEF Written
  <2>2. PartsInv'
    BY <1>3, <1>7, <1>u, <2>1 DEF PartsInv
  <2>3. Record(w + 1)' = {<<t, message[t]>>}
    <3>1. \A i \in (3 * w + 1)..(3 * w + 3) :
            mod_log_file'[i].writer = t /\ mod_log_file'[i].message = message[t]
      <4> SUFFICES ASSUME NEW i \in (3 * w + 1)..(3 * w + 3)
                   PROVE  mod_log_file'[i].writer = t /\ mod_log_file'[i].message = message[t]
        OBVIOUS
      <4>1. CASE i \in (3 * w + 1)..(3 * w + 2)
        <5>1. i \in 1..n
          BY <1>2, <2>1, <4>1
        <5> QED
          BY <1>4, <1>8, <2>1, <4>1, <5>1 DEF Own
      <4>2. CASE i = n + 1
        BY <1>5, <4>2
      <4> QED
        BY <1>2, <2>1, <4>1, <4>2
    <3>2. 3 * (w + 1) - 2 = 3 * w + 1 /\ 3 * (w + 1) = 3 * w + 3
      OBVIOUS
    <3>3. Record(w + 1)' = {<<mod_log_file'[i].writer, mod_log_file'[i].message>> :
                               i \in (3 * w + 1)..(3 * w + 3)}
      BY <3>2 DEF Record
    <3>4. 3 * w + 1 \in (3 * w + 1)..(3 * w + 3)
      OBVIOUS
    <3> QED
      BY <3>1, <3>3, <3>4
  <2>4. Records' = Append(Records, {<<t, message[t]>>})
    <3> DEFINE S == {Record(k) : k \in 1..w} \cup {Record(w + 1)'}
    <3>1. Records = [k \in 1..w |-> Record(k)]
      BY <1>2 DEF Records, Whole
    <3>2. Records' = [k \in 1..(w + 1) |-> Record(k)']
      BY <1>3, <2>1 DEF Records, Whole
    <3>3. Records \in Seq(S) /\ Len(Records) = w
      BY <3>1
    <3>4. Records' \in Seq(S) /\ Len(Records') = w + 1
      <4>1. \A k \in 1..(w + 1) : Record(k)' \in S
        BY <1>10
      <4> QED
        BY <3>2, <4>1
    <3>5. Record(w + 1)' \in S
      OBVIOUS
    <3> HIDE DEF S
    <3>6. /\ Append(Records, Record(w + 1)') \in Seq(S)
          /\ Len(Append(Records, Record(w + 1)')) = w + 1
          /\ \A k \in 1..w : Append(Records, Record(w + 1)')[k] = Records[k]
          /\ Append(Records, Record(w + 1)')[w + 1] = Record(w + 1)'
      BY <3>3, <3>5
    <3>7. \A k \in 1..(w + 1) : Records'[k] = Append(Records, Record(w + 1)')[k]
      BY <1>10, <3>1, <3>2, <3>6
    <3>8. Records' = Append(Records, Record(w + 1)')
      BY <3>4, <3>6, <3>7, SeqEqual
    <3> QED
      BY <2>3, <3>8
  <2> QED
    BY <1>9, <2>1, <2>2, <2>4 DEF RecordInv
<1> QED
  BY <1>11, <1>12

(* What each step does to the lock and the file, and which step of RecordLog  *)
(* it is.                                                                     *)
LogStep == [Log!Next]_<<Records, Pending, Ended>>

LEMMA SamePending ==
  ASSUME \A t \in Threads : \/ pc'[t] = pc[t] /\ message'[t] = message[t]
                            \/ {pc[t], pc'[t]} \cap Writing = {}
  PROVE  Pending' = Pending
  BY DEF Pending, Writing

LEMMA SameRecords == mod_log_file' = mod_log_file => Records' = Records
  BY DEF Records, Record

LEMMA CallStep ==
  ASSUME NEW t \in Threads, ~Ended, Ended' = Ended, mod_log_file' = mod_log_file,
         pc[t] \notin Writing, pc'[t] \in Writing, message'[t] \in MessageType,
         \A s \in Threads \ {t} : \/ pc'[s] = pc[s] /\ message'[s] = message[s]
                                  \/ {pc[s], pc'[s]} \cap Writing = {}
  PROVE  LogStep
<1>1. Pending[t] = {}
  BY DEF Pending, Writing
<1>2. Pending' = [Pending EXCEPT ![t] = {message'[t]}]
  BY DEF Pending, Writing
<1> QED
  BY <1>1, <1>2, SameRecords DEF LogStep, Log!Next, Log!Call

LEMMA EndStep ==
  ASSUME Ended', mod_log_file' = mod_log_file, \A t \in Threads : pc'[t] \in {"none", "killed"}
  PROVE  LogStep
<1>1. Pending' = [t \in Threads |-> {}]
  BY DEF Pending
<1> QED
  BY <1>1, SameRecords DEF LogStep, Log!Next, Log!End

LEMMA LogRecord ==
  ASSUME TypeOK, LoadInv, RecordInv, NEW t \in Threads, mod_log(t)
  PROVE  RecordInv' /\ LogStep
<1>t. /\ pc \in [Threads -> Labels] /\ message \in [Threads -> MessageType]
      /\ phase \in {"attaching", "running", "exiting", "terminated"}
      /\ NoThread \notin Threads
  BY ModLoaderAssumption DEF TypeOK
<1>i. pc[t] \in LogLabels
  BY DEF mod_log, EnterLog, WritePart, WriteFile, LeaveLog, LogReturns, LogLabels
<1>u. phase' = phase
  BY DEF mod_log, EnterLog, WritePart, WriteFile, LeaveLog, LogReturns, LogUnchanged,
         processVars
<1>e. ~Ended /\ Ended' = Ended
  BY <1>t, <1>i, <1>u DEF LoadInv, PhaseInv, Ended, LogLabels
<1>1. CASE EnterLog(t)
  <2>1. /\ pc[t] = "log_enter" /\ pc' = [pc EXCEPT ![t] = "log_prefix"]
        /\ g_log_lock = NoThread /\ g_log_lock' = t
        /\ UNCHANGED <<mod_log_file, message>>
    BY <1>1 DEF EnterLog, callVars
  <2>2. Whole' = Whole /\ Rest' = Rest /\ Rest = 0
    BY <1>e, <1>t, <2>1 DEF Whole, Rest, RecordInv, PartsInv
  <2>3. LockInv'
    BY <1>e, <1>t, <2>1 DEF RecordInv, LockInv, Inside
  <2>4. PartsInv'
    <3>1. Written(pc'[t]) = 0 /\ Whole \in Nat
      <4>1. Whole \in Nat
        <5>1. Len(mod_log_file) \in Nat
          BY DEF TypeOK
        <5> QED
          BY <5>1, Thirds DEF Whole
      <4> QED
        BY <1>t, <2>1, <4>1 DEF Written
    <3> QED
      BY <2>1, <2>2, <3>1 DEF PartsInv
  <2>5. Pending' = Pending
    BY <1>t, <2>1 DEF Pending
  <2> QED
    BY <1>e, <2>1, <2>3, <2>4, <2>5, SameRecords DEF RecordInv, LogStep
<1>2. CASE WritePart(t)
  <2>1. RecordInv'
    BY <1>2, WriteRecord
  <2>2. CASE pc[t] = "log_newline"
    <3>1. Records' = Append(Records, {<<t, message[t]>>})
      BY <1>2, <2>2, WriteRecord
    <3>2. Pending[t] = {message[t]}
      BY <2>2 DEF Pending
    <3>3. pc' = [pc EXCEPT ![t] = "log_leave"] /\ message' = message
      BY <1>2, <2>2 DEF WritePart, WriteFile, callVars
    <3>4. Pending' = [Pending EXCEPT ![t] = {}]
      BY <1>t, <3>3 DEF Pending
    <3>5. Log!Write(t)
      BY <1>e, <3>1, <3>2, <3>4 DEF Log!Write
    <3> QED
      BY <2>1, <3>5 DEF LogStep, Log!Next
  <2>3. CASE pc[t] # "log_newline"
    <3>1. Records' = Records
      BY <1>2, <2>3, WriteRecord
    <3>2. /\ message' = message /\ pc[t] \in {"log_prefix", "log_text"}
          /\ pc' = [pc EXCEPT ![t] = IF pc[t] = "log_prefix" THEN "log_text"
                                                            ELSE "log_newline"]
      BY <1>2, <2>3 DEF WritePart, WriteFile, callVars
    <3>3. Pending' = Pending
      BY <1>t, <3>2 DEF Pending
    <3> QED
      BY <1>e, <2>1, <3>1, <3>3 DEF LogStep
  <2> QED
    BY <2>2, <2>3
<1>3. CASE LeaveLog(t)
  <2>1. /\ pc[t] = "log_leave" /\ pc' = [pc EXCEPT ![t] = "log_done"]
        /\ g_log_lock' = NoThread /\ UNCHANGED <<mod_log_file, message>>
    BY <1>3 DEF LeaveLog, callVars
  <2>2. g_log_lock = t
    BY <1>e, <2>1 DEF RecordInv, LockInv, Inside
  <2>3. Rest' = 0
    BY <1>e, <2>1, <2>2 DEF Rest, RecordInv, PartsInv, Written
  <2>4. LockInv'
    BY <1>e, <1>t, <2>1, <2>2 DEF RecordInv, LockInv, Inside
  <2>5. PartsInv'
    BY <1>t, <2>1, <2>3 DEF PartsInv
  <2>6. Pending' = Pending
    BY <1>t, <2>1 DEF Pending
  <2> QED
    BY <1>e, <2>1, <2>4, <2>5, <2>6, SameRecords DEF RecordInv, LogStep
<1>4. CASE LogReturns(t)
  <2>1. return[t] \in {"idle", "done", "next", "free", "on_load", "on_load_returned"}
    BY <1>i DEF LoadInv, PlaceInv, ModThreadInv
  <2>2. /\ pc[t] = "log_done" /\ pc' = [pc EXCEPT ![t] = return[t]]
        /\ message' = [message EXCEPT ![t] = NoMessage]
        /\ UNCHANGED <<mod_log_file, g_log_lock>>
    BY <1>4 DEF LogReturns, logVars
  <2>3. \A s \in Threads : \/ pc'[s] = pc[s] /\ message'[s] = message[s]
                           \/ {pc[s], pc'[s]} \cap (Inside \cup Writing) = {}
    BY <1>t, <2>1, <2>2 DEF Inside, Writing
  <2>4. Quiet
    BY <1>e, <2>2, <2>3 DEF Quiet
  <2>5. Pending' = Pending
    BY <2>3, SamePending
  <2> QED
    BY <1>e, <2>2, <2>4, <2>5, QuietRecord, SameRecords DEF LogStep
<1> QED
  BY <1>1, <1>2, <1>3, <1>4 DEF mod_log

LEMMA LoadModsRecord ==
  ASSUME TypeOK, TypeOK', LoadInv, RecordInv, load_mods
  PROVE  RecordInv' /\ LogStep
<1>t. Threads = Entries \cup {Loader} /\ message' \in [Threads -> MessageType]
  BY DEF TypeOK
<1>r. pc[Loader] \notin LogLabels /\ phase = "running"
  BY LoaderRuns
<1>u. UNCHANGED <<phase, g_log_lock>>
  BY DEF load_mods, OpenLog, FindFirstFails, NextEntry, EndOfEnumeration, Inspect, LoadMod,
         ResolveOnLoad, FreeUnresolved, OnLoad, OnLoadLogs, OnLoadReturns, LoaderUnchanged,
         processVars
<1>s. /\ mod_log_file' = mod_log_file
      /\ \A t \in Entries :
           /\ message'[t] = message[t]
           /\ pc'[t] = pc[t] \/ {pc[t], pc'[t]} \cap LogLabels = {}
  BY LoadModsOthers
<1>l. \/ pc'[Loader] \notin LogLabels
      \/ pc'[Loader] = IF g_log_file = "invalid" THEN "log_done" ELSE "log_enter"
  BY LoadModsSpeaks DEF Speaks
<1>e. ~Ended /\ Ended' = Ended
  BY <1>r, <1>u DEF Ended
<1>1. RecordInv'
  <2>1. Quiet
    BY <1>t, <1>r, <1>u, <1>s, <1>l, <1>e DEF Quiet, Inside, Writing, LogLabels
  <2> QED
    BY <2>1, QuietRecord
<1>2. \A t \in Threads \ {Loader} : \/ pc'[t] = pc[t] /\ message'[t] = message[t]
                                    \/ {pc[t], pc'[t]} \cap Writing = {}
  BY <1>t, <1>s DEF Writing, LogLabels
<1>3. CASE pc'[Loader] \in Writing
  <2>1. Loader \in Threads /\ pc[Loader] \notin Writing /\ message'[Loader] \in MessageType
    BY <1>t, <1>r DEF Writing, LogLabels
  <2> QED
    BY <1>1, <1>2, <1>3, <1>e, <1>s, <2>1, CallStep
<1>4. CASE pc'[Loader] \notin Writing
  <2>1. {pc[Loader], pc'[Loader]} \cap Writing = {}
    BY <1>r, <1>4 DEF Writing, LogLabels
  <2>2. Pending' = Pending
    BY <1>2, <2>1, SamePending
  <2> QED
    BY <1>1, <1>e, <1>s, <2>2, SameRecords DEF LogStep
<1> QED
  BY <1>3, <1>4

LEMMA NextRecord ==
  TypeOK /\ TypeOK' /\ LoadInv /\ RecordInv /\ [Next]_vars
    => RecordInv' /\ LogStep
<1> SUFFICES ASSUME TypeOK, TypeOK', LoadInv, RecordInv, [Next]_vars
             PROVE  RecordInv' /\ LogStep
  OBVIOUS
<1>t. /\ pc \in [Threads -> Labels] /\ message \in [Threads -> MessageType]
      /\ message' \in [Threads -> MessageType] /\ Entries \subseteq Threads
      /\ phase \in {"attaching", "running", "exiting", "terminated"}
      /\ Loader \in Threads
  BY DEF TypeOK
<1>1. CASE UNCHANGED vars
  <2>1. UNCHANGED <<mod_log_file, g_log_lock, phase, pc, message>>
    BY <1>1 DEF vars, logVars, processVars, callVars
  <2>2. Quiet /\ Ended' = Ended
    BY <2>1 DEF Quiet, Ended
  <2>3. Pending' = Pending
    BY <2>1 DEF Pending
  <2> QED
    BY <2>1, <2>2, <2>3, QuietRecord, SameRecords DEF LogStep
<1>2. CASE Attach
  <2>1. UNCHANGED <<mod_log_file, g_log_lock, message>>
    BY <1>2 DEF Attach, InitializeLogLock, LoadRealDll, load_functions, CreateLoaderThread,
                AttachFails, AttachUnchanged, callVars
  <2>2. phase = "attaching" /\ \A t \in Threads : pc[t] = "none"
    BY <1>2 DEF Attach, InitializeLogLock, LoadRealDll, load_functions, CreateLoaderThread,
                AttachFails, LoadInv, PhaseInv
  <2>3. CASE AttachFails
    <3>1. Ended' /\ pc' = pc
      BY <2>3 DEF AttachFails, Ended
    <3>2. RecordInv'
      BY <3>1 DEF RecordInv, LockInv, PartsInv
    <3> QED
      BY <2>1, <2>2, <3>1, <3>2, EndStep
  <2>4. CASE ~AttachFails
    <3>1. /\ pc' = pc \/ pc' = [pc EXCEPT ![Loader] = "open_log"]
          /\ phase' \in {"attaching", "running"}
      BY <1>2, <2>2, <2>4
         DEF Attach, InitializeLogLock, LoadRealDll, load_functions, CreateLoaderThread
    <3>2. \A t \in Threads : {pc[t], pc'[t]} \cap (Inside \cup Writing) = {}
      BY <1>t, <2>2, <3>1 DEF Inside, Writing
    <3>3. Quiet /\ Ended' = Ended
      BY <2>1, <2>2, <3>1, <3>2 DEF Quiet, Ended
    <3>4. Pending' = Pending
      BY <3>2, SamePending
    <3> QED
      BY <2>1, <3>3, <3>4, QuietRecord, SameRecords DEF LogStep
  <2> QED
    BY <2>3, <2>4
<1>3. ASSUME NEW e \in Entries, ModLogs(e) PROVE RecordInv' /\ LogStep
  <2>1. /\ pc[e] = "idle" /\ UNCHANGED <<mod_log_file, g_log_lock, phase>>
        /\ pc' = [pc EXCEPT ![e] = IF g_log_file = "invalid" THEN "log_done" ELSE "log_enter"]
        /\ message' = [message EXCEPT ![e] = [text |-> "mod text", about |-> e]]
    BY <1>3 DEF ModLogs, CallLog, logVars, processVars
  <2>2. ~Ended /\ Ended' = Ended
    BY <1>t, <2>1 DEF LoadInv, PhaseInv, Ended
  <2>3. \A s \in Threads \ {e} : pc'[s] = pc[s] /\ message'[s] = message[s]
    BY <1>t, <2>1
  <2>4. pc[e] \notin Inside \cup Writing /\ pc'[e] \notin Inside
    BY <1>t, <2>1 DEF Inside, Writing
  <2>5. Quiet
    BY <2>1, <2>2, <2>3, <2>4 DEF Quiet
  <2>6. RecordInv'
    BY <2>5, QuietRecord
  <2>7. CASE pc'[e] \in Writing
    BY <1>t, <2>1, <2>2, <2>3, <2>4, <2>6, <2>7, CallStep
  <2>8. CASE pc'[e] \notin Writing
    <3>1. Pending' = Pending
      BY <2>3, <2>4, <2>8, SamePending
    <3> QED
      BY <2>1, <2>2, <2>6, <3>1, SameRecords DEF LogStep
  <2> QED
    BY <2>7, <2>8
<1>4. CASE ExitProcess
  <2>1. /\ Ended' /\ mod_log_file' = mod_log_file
        /\ \A t \in Threads : pc'[t] \in {"none", "killed"}
    BY <1>4 DEF ExitProcess, logVars, Ended
  <2>2. RecordInv'
    BY <2>1 DEF RecordInv, LockInv, PartsInv
  <2> QED
    BY <2>1, <2>2, EndStep
<1>5. CASE Detach
  <2>1. /\ Ended' /\ mod_log_file' = mod_log_file
        /\ \A t \in Threads : pc'[t] \in {"none", "killed"}
    BY <1>5 DEF Detach, Ended, LoadInv, PhaseInv
  <2>2. RecordInv'
    BY <2>1 DEF RecordInv, LockInv, PartsInv
  <2> QED
    BY <2>1, <2>2, EndStep
<1> QED
  BY <1>1, <1>2, <1>3, <1>4, <1>5, LogRecord, LoadModsRecord DEF Next

(* mod.log is a log of whole records, one for each call of mod_log, however   *)
(* the threads interleave and wherever the process is killed (mod_log).       *)
THEOREM LogImplementsRecordLog == Spec => ImplementsRecordLog
<1>1. Init => Log!Init
  <2> SUFFICES ASSUME Init PROVE Log!Init
    OBVIOUS
  <2>1. Len(mod_log_file) \div 3 = 0
    BY DEF Init
  <2>2. Records = <<>>
    BY <2>1 DEF Records
  <2>3. Pending = [t \in Threads |-> {}] /\ Ended = FALSE
    BY DEF Init, Pending, Ended
  <2> QED
    BY <2>2, <2>3 DEF Log!Init
<1>2. Init => RecordInv
  BY InitRecord
<1>3. TypeOK /\ TypeOK' /\ LoadInv /\ RecordInv /\ [Next]_vars
        => RecordInv' /\ LogStep
  BY NextRecord
<1> QED
  BY <1>1, <1>2, <1>3, LoadInvariant, PTL DEF Spec, LogStep, ImplementsRecordLog, Log!Spec

-------------------------------------------------------------------------------
(* What RecordLog gives to who reads mod.log: three writes of one call next   *)
(* to each other, however many threads log.                                   *)
WholeRecords ==
  \A k \in 1..Len(Records) : \E t \in Threads, m \in MessageType : Records[k] = {<<t, m>>}

RecordsKept ==
  \A k \in 1..Len(Records) : k \in 1..Len(Records') /\ Records'[k] = Records[k]

LEMMA RecordsLength ==
  TypeOK => Len(Records) \in Nat /\ Records \in [1..Len(Records) -> {Record(k) : k \in Nat}]
<1> SUFFICES ASSUME TypeOK
             PROVE  /\ Len(Records) \in Nat
                    /\ Records \in [1..Len(Records) -> {Record(k) : k \in Nat}]
  OBVIOUS
<1>1. Len(mod_log_file) \in Nat
  BY DEF TypeOK
<1>2. PICK n \in Nat : n = Len(mod_log_file) \div 3
  BY <1>1, Thirds
<1>3. Records = [k \in 1..n |-> Record(k)]
  BY <1>2 DEF Records
<1> DEFINE S == {Record(k) : k \in Nat}
<1>4. \A k \in 1..n : Record(k) \in S
  OBVIOUS
<1> HIDE DEF S
<1>5. Records \in Seq(S) /\ Len(Records) = n /\ Records \in [1..n -> S]
  BY <1>3, <1>4
<1> QED
  BY <1>5 DEF S

(* A record is written by a step of its own, after all the others.            *)
LEMMA OneRecordAtATime ==
  ASSUME TypeOK, LogStep
  PROVE  \/ Records' = Records
         \/ /\ Len(Records') = Len(Records) + 1
            /\ \A k \in 1..Len(Records) : Records'[k] = Records[k]
            /\ \E t \in Threads, m \in MessageType : Records'[Len(Records')] = {<<t, m>>}
<1>1. CASE Records' = Records
  BY <1>1
<1>2. ASSUME NEW t \in Threads, Log!Write(t)
      PROVE  /\ Len(Records') = Len(Records) + 1
             /\ \A k \in 1..Len(Records) : Records'[k] = Records[k]
             /\ \E u \in Threads, m \in MessageType : Records'[Len(Records')] = {<<u, m>>}
  <2>1. PICK m \in Pending[t] : Records' = Append(Records, {<<t, m>>})
    BY <1>2 DEF Log!Write
  <2>2. m \in MessageType
    BY DEF TypeOK, Pending
  <2> DEFINE S == {Record(k) : k \in Nat} \cup {{<<t, m>>}}
  <2>3. Records \in Seq(S) /\ {<<t, m>>} \in S
    BY RecordsLength
  <2> HIDE DEF S
  <2>4. /\ Len(Append(Records, {<<t, m>>})) = Len(Records) + 1
        /\ \A k \in 1..Len(Records) : Append(Records, {<<t, m>>})[k] = Records[k]
        /\ Append(Records, {<<t, m>>})[Len(Records) + 1] = {<<t, m>>}
    BY <2>3
  <2> QED
    BY <2>1, <2>2, <2>4
<1>3. CASE \E t \in Threads : Log!Write(t)
  BY <1>2, <1>3
<1>4. CASE Log!End \/ \E t \in Threads : Log!Call(t)
  BY <1>4 DEF Log!End, Log!Call
<1> QED
  BY <1>1, <1>3, <1>4 DEF LogStep, Log!Next

LEMMA RecordInvariant == Spec => [](TypeOK /\ LoadInv /\ RecordInv)
<1>1. Init => RecordInv
  BY InitRecord
<1>2. TypeOK /\ TypeOK' /\ LoadInv /\ RecordInv /\ [Next]_vars => RecordInv'
  BY NextRecord
<1> QED
  BY <1>1, <1>2, LoadInvariant, PTL DEF Spec

(* The prefix, the text and the newline of a record are of one call: no other *)
(* thread writes between them, and the end of the process leaves at most one  *)
(* record behind that is not whole (mod_log).                                 *)
THEOREM RecordsAreWhole == Spec => []WholeRecords
<1>1. Init => WholeRecords
  <2> SUFFICES ASSUME Init PROVE WholeRecords
    OBVIOUS
  <2>1. Len(mod_log_file) \div 3 = 0
    BY DEF Init
  <2>2. Records = <<>>
    BY <2>1 DEF Records
  <2> QED
    BY <2>2 DEF WholeRecords
<1>2. TypeOK /\ LogStep /\ WholeRecords => WholeRecords'
  <2> SUFFICES ASSUME TypeOK, LogStep, WholeRecords PROVE WholeRecords'
    OBVIOUS
  <2>1. CASE Records' = Records
    BY <2>1 DEF WholeRecords
  <2>2. CASE Records' # Records
    <3>1. PICK n \in Nat : n = Len(Records)
      BY RecordsLength
    <3>2. /\ Len(Records') = n + 1
          /\ \A k \in 1..n : Records'[k] = Records[k]
          /\ \E t \in Threads, m \in MessageType : Records'[n + 1] = {<<t, m>>}
      BY <2>2, <3>1, OneRecordAtATime
    <3> SUFFICES ASSUME NEW k \in 1..(n + 1)
                 PROVE  \E t \in Threads, m \in MessageType : Records'[k] = {<<t, m>>}
      BY <3>2 DEF WholeRecords
    <3>3. CASE k \in 1..n
      <4>1. \E t \in Threads, m \in MessageType : Records[k] = {<<t, m>>}
        BY <3>1, <3>3 DEF WholeRecords
      <4> QED
        BY <3>2, <3>3, <4>1
    <3>4. CASE k = n + 1
      BY <3>2, <3>4
    <3> QED
      BY <3>3, <3>4
  <2> QED
    BY <2>1, <2>2
<1>3. TypeOK /\ TypeOK' /\ LoadInv /\ RecordInv /\ [Next]_vars => LogStep
  BY NextRecord
<1> QED
  BY <1>1, <1>2, <1>3, RecordInvariant, PTL DEF Spec

(* What is in the log stays there, as it is: a later record is written after  *)
(* it (mod_log).                                                              *)
THEOREM RecordsAreKept == Spec => [][RecordsKept]_vars
<1>1. TypeOK /\ LogStep => RecordsKept
  <2> SUFFICES ASSUME TypeOK, LogStep, NEW k \in 1..Len(Records)
               PROVE  k \in 1..Len(Records') /\ Records'[k] = Records[k]
    BY DEF RecordsKept
  <2> QED
    BY RecordsLength, OneRecordAtATime
<1>2. TypeOK /\ TypeOK' /\ LoadInv /\ RecordInv /\ [Next]_vars => LogStep
  BY NextRecord
<1> QED
  BY <1>1, <1>2, RecordInvariant, PTL DEF Spec

-------------------------------------------------------------------------------
(* The lifetime of the lock and of the file, against the threads that use     *)
(* them: DllMain initialises the lock before any thread starts, load_mods     *)
(* opens the file before any mod has one, and DllMain destroys both after the *)
(* threads are gone.                                                          *)
Using == Writing \cup Inside

LogIsUsable ==
  \A t \in Threads : pc[t] \in Using => lock_state = "initialized" /\ g_log_file = "open"

LifetimeInv ==
  /\ dll_main # "lock" /\ phase # "terminated" => lock_state = "initialized"
  /\ phase # "terminated" => g_log_file # "closed"
  /\ \A t \in Threads : pc[t] \in Using => g_log_file = "open"

LEMMA NextLifetime == TypeOK /\ LoadInv /\ LifetimeInv /\ [Next]_vars => LifetimeInv'
<1> SUFFICES ASSUME TypeOK, LoadInv, LifetimeInv, [Next]_vars PROVE LifetimeInv'
  OBVIOUS
<1> USE DEF LifetimeInv
<1>t. /\ pc \in [Threads -> Labels] /\ Entries \subseteq Threads /\ Loader \in Threads
      /\ Threads = Entries \cup {Loader} /\ g_log_file \in {"invalid", "open", "closed"}
      /\ Using = LogLabels \ {"log_done"}
  BY DEF TypeOK, Using, Writing, Inside, LogLabels
<1>1. CASE UNCHANGED vars
  BY <1>1 DEF vars, processVars, proxyVars, logVars
<1>2. CASE Attach
  <2>1. phase = "attaching" /\ g_log_file' = g_log_file /\ \A t \in Threads : pc[t] = "none"
    BY <1>2 DEF Attach, InitializeLogLock, LoadRealDll, load_functions, CreateLoaderThread,
                AttachFails, AttachUnchanged, LoadInv, PhaseInv
  <2>2. pc' = pc \/ pc' = [pc EXCEPT ![Loader] = "open_log"]
    BY <1>2 DEF Attach, InitializeLogLock, LoadRealDll, load_functions, CreateLoaderThread,
                AttachFails
  <2>3. \/ lock_state' = "initialized"
        \/ lock_state' = lock_state /\ dll_main # "lock"
    BY <1>2 DEF Attach, InitializeLogLock, LoadRealDll, load_functions, CreateLoaderThread,
                AttachFails
  <2>4. \A t \in Threads : pc'[t] \notin Using
    BY <1>t, <2>1, <2>2 DEF LogLabels
  <2> QED
    BY <2>1, <2>3, <2>4
<1>3. CASE load_mods
  <2>1. UNCHANGED <<phase, dll_main, lock_state>> /\ phase = "running"
    BY <1>3, LoaderRuns
       DEF load_mods, OpenLog, FindFirstFails, NextEntry, EndOfEnumeration, Inspect, LoadMod,
           ResolveOnLoad, FreeUnresolved, OnLoad, OnLoadLogs, OnLoadReturns, LoaderUnchanged,
           processVars, proxyVars
  <2>2. CASE OpenLog
    <3>1. \A e \in Entries : pc[e] = "none"
      <4>1. /\ Place = "open_log"
            /\ unvisited = {e \in Entries : kind[e] # "absent"}
        BY <1>3, <2>2, LoaderRuns DEF OpenLog, LoadInv, PlaceInv
      <4>2. \A e \in Entries : on_load_calls[e] = 0
        BY <4>1 DEF LoadInv, SettledInv, AtHand, Current, InMod, Calls
      <4> QED
        BY <1>t, <2>1, <4>2 DEF LoadInv, ModThreadInv, PhaseInv
    <3>2. /\ g_log_file' \in {"open", "invalid"}
          /\ \A t \in Threads : pc'[t] \notin Using
      BY <1>t, <2>2, <3>1 DEF OpenLog, LogLabels
    <3> QED
      BY <2>1, <3>2
  <2>3. CASE ~OpenLog
    <3>1. g_log_file' = g_log_file
      BY <1>3, <2>3
         DEF load_mods, FindFirstFails, NextEntry, EndOfEnumeration, Inspect, LoadMod,
             ResolveOnLoad, FreeUnresolved, OnLoad, OnLoadLogs, OnLoadReturns
    <3>2. \A e \in Entries : pc'[e] = pc[e] \/ pc'[e] \notin Using
      BY <1>3, <1>t, LoadModsOthers
    <3>3. pc'[Loader] \in Using => g_log_file # "invalid"
      BY <1>3, <1>t, LoadModsSpeaks DEF Speaks
    <3>4. g_log_file # "closed"
      BY <2>1
    <3> QED
      BY <1>t, <2>1, <3>1, <3>2, <3>3, <3>4
  <2> QED
    BY <2>2, <2>3
<1>4. ASSUME NEW t \in Threads, mod_log(t) PROVE LifetimeInv'
  <2>1. /\ UNCHANGED <<phase, dll_main, lock_state, g_log_file>>
        /\ \E label \in Labels : pc' = [pc EXCEPT ![t] = label]
        /\ pc'[t] \in Using => pc[t] \in Using
    <3>1. CASE LogReturns(t)
      <4>1. return[t] \in {"idle", "done", "next", "free", "on_load", "on_load_returned"}
        BY <1>t, <3>1 DEF LogReturns, LogLabels, LoadInv, PlaceInv, ModThreadInv
      <4> QED
        BY <1>t, <3>1, <4>1
           DEF LogReturns, LogUnchanged, logVars, processVars, proxyVars, LogLabels, Labels,
               LoaderLabels
    <3>2. CASE ~LogReturns(t)
      BY <1>4, <1>t, <3>2
         DEF mod_log, EnterLog, WritePart, WriteFile, LeaveLog, LogUnchanged, processVars,
             proxyVars, LogLabels, Labels
    <3> QED
      BY <3>1, <3>2
  <2> QED
    BY <1>t, <2>1
<1>5. ASSUME NEW e \in Entries, ModLogs(e) PROVE LifetimeInv'
  <2>1. /\ UNCHANGED <<phase, dll_main, lock_state, g_log_file>> /\ pc[e] = "idle"
        /\ pc' = [pc EXCEPT ![e] = IF g_log_file = "invalid" THEN "log_done" ELSE "log_enter"]
    BY <1>5 DEF ModLogs, CallLog, logVars, processVars, proxyVars
  <2>2. phase = "running"
    BY <1>t, <2>1 DEF LoadInv, PhaseInv, TypeOK
  <2> QED
    BY <1>t, <2>1, <2>2 DEF LogLabels
<1>6. CASE ExitProcess
  BY <1>6, <1>t DEF ExitProcess, proxyVars, logVars, LogLabels
<1>7. CASE Detach
  <2>1. \A t \in Threads : pc'[t] \in {"none", "killed"}
    BY <1>7 DEF Detach, LoadInv, PhaseInv
  <2> QED
    BY <1>7, <1>t, <2>1 DEF Detach, proxyVars, LogLabels
<1> QED
  BY <1>1, <1>2, <1>3, <1>4, <1>5, <1>6, <1>7 DEF Next

(* Whoever is inside mod_log uses a lock that is initialised and not yet      *)
(* deleted, and a file that is open: no thread waits for the lock before      *)
(* DllMain made it, or writes after DllMain closed the file.                  *)
THEOREM TheLogOutlivesItsUsers == Spec => []LogIsUsable
<1>1. Init => LifetimeInv
  BY ModLoaderAssumption DEF Init, LifetimeInv, Using, Writing, Inside
<1>2. TypeOK /\ LoadInv /\ LifetimeInv /\ [Next]_vars => LifetimeInv'
  BY NextLifetime
<1>3. TypeOK /\ LoadInv /\ LifetimeInv => LogIsUsable
  <2> SUFFICES ASSUME TypeOK, LoadInv, LifetimeInv, NEW t \in Threads, pc[t] \in Using
               PROVE  lock_state = "initialized" /\ g_log_file = "open"
    BY DEF LogIsUsable
  <2>1. phase = "running"
    BY DEF LoadInv, PhaseInv, TypeOK, Using, Writing, Inside
  <2> QED
    BY <2>1 DEF LoadInv, ForwardInv, LifetimeInv
<1> QED
  BY <1>1, <1>2, <1>3, LoadInvariant, PTL DEF Spec

LockIsGivenBack ==
  phase = "running" /\ g_log_lock \in Threads => pc[g_log_lock] \in Inside

(* Nobody who has the lock waits for anything, and nobody keeps it: as long   *)
(* as the process runs, a thread that waits for the lock waits for one that   *)
(* is between EnterCriticalSection and LeaveCriticalSection (mod_log). Only   *)
(* the end of the process leaves the lock taken.                              *)
THEOREM OwnersAreInside == Spec => []LockIsGivenBack
<1>1. TypeOK /\ LoadInv /\ RecordInv => LockIsGivenBack
  BY DEF RecordInv, LockInv, LockIsGivenBack, Ended
<1> QED
  BY <1>1, RecordInvariant, PTL
===============================================================================
