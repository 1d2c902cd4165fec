--------------------------- MODULE SteamAchievement ---------------------------
(* steam_achievement/main.cpp: a mod whose worker waits for the Steam library *)
(* of the game and for its achievement data, each at most a minute, and then  *)
(* unlocks the achievements that config.ini names.                            *)
(*                                                                            *)
(* Time is kept as what is left of each deadline: a tick is a second, and any *)
(* number of them may pass between two steps of the worker. Steam and the     *)
(* game are external.                                                         *)
EXTENDS Naturals, SequencesExt

CONSTANTS
  Known,               \* the achievements of the game
  Unknown,             \* ids that config.ini may name and Steam does not have
  Blank,               \* an empty entry of achievement_id
  IdLists,             \* what achievement_id may be, entry by entry
  ExportSets,          \* what the Steam library of the game may export
  LIBRARY_WAIT, STATS_WAIT, REQUEST_INTERVAL, RETRY_INTERVAL,
  Faults               \* what may fail: thread, config, set, store

Ids == Known \cup Unknown
Exports == {"count", "name", "get", "attribute", "set", "store", "accessor", "request"}

ASSUME SteamAchievementAssumption ==
  /\ Known \cap Unknown = {} /\ Blank \notin Ids
  /\ IdLists \subseteq Seq(Ids \cup {Blank})
  /\ ExportSets \subseteq SUBSET Exports
  /\ {LIBRARY_WAIT, STATS_WAIT, REQUEST_INTERVAL, RETRY_INTERVAL} \subseteq Nat \ {0}
  /\ Faults \subseteq {"thread", "config", "set", "store"}

VARIABLES
  g_started,
  achievement_id, list,       \* config.ini
  ids,                        \* the parsed list
  rest,                       \* what parse_ids, and then run, have still to look at
  pc,
  deadline, sleep, next_request,      \* the time left until each
  loaded, exports,            \* the Steam library
  steam,                      \* down: no interface; empty: count = 0; listed: names
                              \*   are known; ready: achievements can be read
  unlocked,                   \* in the memory of the Steam client
  changed,
  accepted, refused, unread,  \* history: ids that the mod set, that Steam refused to
                              \*   set, that could not be read
  lost,                       \* history: was the data lost while run was going on?
  stores, submitted,          \* history: StoreStats calls, what they submitted
  waited, unasked             \* history: time since the library was found, since
                              \*   the last request

configVars == <<g_started, achievement_id, list, ids>>
timeVars == <<deadline, sleep, next_request, waited, unasked>>
steamVars == <<loaded, exports, steam>>
triedVars == <<accepted, refused, unread>>
runVars == <<rest, unlocked, changed, triedVars, lost, stores, submitted>>
vars == <<configVars, pc, timeVars, steamVars, runVars>>

Init ==
  /\ g_started = FALSE
  /\ achievement_id \in IdLists /\ list \in BOOLEAN
  /\ ids = <<>> /\ rest = <<>>
  /\ pc = "load"
  /\ deadline = 0 /\ sleep = 0 /\ next_request = 0
  /\ loaded = FALSE /\ exports \in ExportSets
  /\ steam = "down"
  /\ unlocked = {} /\ changed = FALSE
  /\ accepted = {} /\ refused = {} /\ unread = {} /\ lost = FALSE
  /\ stores = 0 /\ submitted = {}
  /\ waited = 0 /\ unasked = REQUEST_INTERVAL

-------------------------------------------------------------------------------
(* A second call, by another copy of the mod loader, changes nothing.         *)
on_mod_load ==
  /\ pc = "load" /\ ~g_started
  /\ g_started' = TRUE
  /\ pc' \in {"config"} \cup (IF "thread" \in Faults THEN {"stopped"} ELSE {})
  /\ UNCHANGED <<achievement_id, list, ids, timeVars, steamVars, runVars>>

KeepBlanks(id) ==            \* mutated
  IF Contains(ids, id) THEN ids ELSE Append(ids, id)

(* What the loop of parse_ids makes of one entry.                             *)
WithId(id) == IF id = Blank \/ Contains(ids, id) THEN ids ELSE Append(ids, id)

(* An invalid list_achievement, and a path or text that cannot be read whole, *)
(* end the worker.                                                            *)
read_config ==
  /\ pc = "config"
  /\ \/ rest' = achievement_id /\ pc' = "parse"
     \/ "config" \in Faults /\ pc' = "stopped" /\ UNCHANGED rest
  /\ UNCHANGED <<configVars, timeVars, steamVars, unlocked, changed, triedVars, lost,
                 stores, submitted>>

parse_ids ==
  /\ pc = "parse" /\ rest # <<>>
  /\ ids' = WithId(Head(rest))
  /\ rest' = Tail(rest)
  /\ UNCHANGED <<g_started, achievement_id, list, pc, timeVars, steamVars, unlocked,
                 changed, triedVars, lost, stores, submitted>>

(* work. A configuration that asks for nothing ends the worker.               *)
StartWaiting ==
  /\ pc = "parse" /\ rest = <<>>
  /\ pc' = IF list \/ ids # <<>> THEN "library" ELSE "stopped"
  /\ deadline' = LIBRARY_WAIT
  /\ UNCHANGED <<configVars, sleep, next_request, waited, unasked, steamVars, runVars>>

-------------------------------------------------------------------------------
RestartWait ==               \* mutated: each attempt gets a deadline of its own
  /\ pc = "library"
  /\ IF loaded THEN pc' = "resolve" /\ UNCHANGED <<sleep, deadline>>
     ELSE pc' = "sleep_library" /\ sleep' = RETRY_INTERVAL /\ deadline' = LIBRARY_WAIT
  /\ UNCHANGED <<configVars, next_request, waited, unasked, steamVars, runVars>>

(* The library is pinned when it is found and so never unloaded again.        *)
FindLibrary ==
  /\ pc = "library"
  /\ IF deadline = 0 THEN pc' = "stopped" /\ UNCHANGED sleep
     ELSE IF loaded THEN pc' = "resolve" /\ UNCHANGED sleep
     ELSE pc' = "sleep_library" /\ sleep' = RETRY_INTERVAL
  /\ UNCHANGED <<configVars, deadline, next_request, waited, unasked, steamVars,
                 runVars>>

RequiredForEither ==         \* mutated: setters are not required for a mere list
  {"count", "name", "get", "accessor"} \cup
    (IF list THEN {"attribute"} ELSE {"set", "store"})

Required ==
  {"count", "name", "get", "accessor"} \cup
    (IF list THEN {"attribute"} ELSE {}) \cup
    (IF ids # <<>> THEN {"set", "store"} ELSE {})

OneDeadline ==               \* mutated: both waits share one deadline
  /\ pc = "resolve"
  /\ pc' = IF Required \subseteq exports THEN "stats" ELSE "stopped"
  /\ waited' = 0
  /\ UNCHANGED <<configVars, deadline, sleep, next_request, unasked, steamVars, runVars>>

(* Any of the three versions of the accessor will do.                         *)
ResolveExports ==
  /\ pc = "resolve"
  /\ pc' = IF Required \subseteq exports THEN "stats" ELSE "stopped"
  /\ deadline' = STATS_WAIT /\ waited' = 0
  /\ UNCHANGED <<configVars, sleep, next_request, unasked, steamVars, runVars>>

RequestEveryTime ==          \* mutated: the time of the next request is not kept
  /\ unasked' = IF steam # "down" /\ "request" \in exports THEN 0 ELSE unasked
  /\ UNCHANGED next_request

(* RequestCurrentStats may be refused, or accepted and never answered: it is  *)
(* called again later whatever came of it. The interval counts from the       *)
(* moment at which the worker reads the clock.                                *)
RequestStats ==
  IF steam # "down" /\ "request" \in exports /\ next_request = 0
    THEN next_request' = REQUEST_INTERVAL /\ unasked' = 0
    ELSE UNCHANGED <<next_request, unasked>>

(* The achievements are ready when the first one can be read.                 *)
StatsReady == steam = "ready"

ProbeStats ==
  /\ pc = "stats"
  /\ IF deadline = 0
       THEN pc' = "timed_out" /\ UNCHANGED <<sleep, next_request, unasked, rest>>
     ELSE IF StatsReady
       THEN /\ pc' = IF list THEN "list" ELSE "next"
            /\ rest' = ids
            /\ UNCHANGED <<sleep, next_request, unasked>>
       ELSE /\ RequestStats
            /\ pc' = "sleep_stats" /\ sleep' = RETRY_INTERVAL
            /\ UNCHANGED rest
  /\ UNCHANGED <<configVars, deadline, waited, steamVars, unlocked, changed, triedVars,
                 lost, stores, submitted>>

Wake ==
  /\ sleep = 0
  /\ \/ pc = "sleep_library" /\ pc' = "library"
     \/ pc = "sleep_stats" /\ pc' = "stats"
  /\ UNCHANGED <<configVars, timeVars, steamVars, runVars>>

-------------------------------------------------------------------------------
(* run. Listing only reads.                                                   *)
RunUnchanged == UNCHANGED <<configVars, timeVars, steamVars, lost, stores, submitted>>

ListAchievements ==
  /\ pc = "list"
  /\ pc' = "next"
  /\ UNCHANGED runVars /\ RunUnchanged

(* An id that cannot be read, or that is unlocked already, is passed over.    *)
GetAchievement ==
  /\ pc = "next" /\ rest # <<>>
  /\ IF steam # "ready" \/ Head(rest) \notin Known
       THEN unread' = unread \cup {Head(rest)} /\ rest' = Tail(rest) /\ UNCHANGED pc
     ELSE IF Head(rest) \in unlocked
       THEN rest' = Tail(rest) /\ UNCHANGED <<unread, pc>>
       ELSE pc' = "set" /\ UNCHANGED <<rest, unread>>
  /\ UNCHANGED <<unlocked, changed, accepted, refused>> /\ RunUnchanged

LastResult(ok) == ok         \* mutated: the last id decides whether to store
AnyResult(ok) == changed \/ ok

SetAchievement ==
  /\ pc = "set"
  /\ \E ok \in {TRUE} \cup (IF "set" \in Faults THEN {FALSE} ELSE {}) :
       /\ changed' = AnyResult(ok)
       /\ unlocked' = IF ok THEN unlocked \cup {Head(rest)} ELSE unlocked
       /\ accepted' = IF ok THEN accepted \cup {Head(rest)} ELSE accepted
       /\ refused' = IF ok THEN refused ELSE refused \cup {Head(rest)}
  /\ rest' = Tail(rest)
  /\ pc' = "next"
  /\ UNCHANGED unread /\ RunUnchanged

(* One StoreStats submits whatever the client has in its memory.              *)
StoreStats ==
  /\ pc = "next" /\ rest = <<>>
  /\ pc' = "finished"
  /\ IF changed
       THEN /\ stores' = stores + 1
            /\ submitted' \in {unlocked} \cup (IF "store" \in Faults THEN {{}} ELSE {})
       ELSE UNCHANGED <<stores, submitted>>
  /\ UNCHANGED <<configVars, timeVars, steamVars, rest, unlocked, changed, triedVars,
                 lost>>

WorkerStep ==
  \/ on_mod_load \/ read_config \/ parse_ids \/ StartWaiting
  \/ FindLibrary \/ ResolveExports \/ ProbeStats \/ Wake
  \/ ListAchievements \/ GetAchievement \/ SetAchievement \/ StoreStats

-------------------------------------------------------------------------------
(* The game loads the library, and may unload it until it is pinned. Steam's  *)
(* data arrives, in answer to a request or not, and can be lost again; the    *)
(* game plays on.                                                             *)
Pinned == pc \notin {"load", "config", "parse", "library", "sleep_library", "stopped"}

LibraryChanges ==
  /\ ~Pinned /\ loaded' = ~loaded
  /\ steam' = IF loaded THEN "down" ELSE steam
  /\ UNCHANGED <<configVars, pc, timeVars, exports, runVars>>

SteamChanges ==
  /\ loaded
  /\ \E step \in {<<"down", "empty">>, <<"empty", "listed">>, <<"listed", "ready">>,
                  <<"ready", "listed">>} : steam = step[1] /\ steam' = step[2]
  /\ lost' = (lost \/ (steam = "ready" /\ pc \in {"list", "next", "set"}))
  /\ UNCHANGED <<configVars, pc, timeVars, loaded, exports, rest, unlocked, changed,
                 triedVars, stores, submitted>>

GameUnlocks ==
  /\ steam = "ready"
  /\ \E id \in Known : unlocked' = unlocked \cup {id}
  /\ UNCHANGED <<configVars, pc, timeVars, steamVars, rest, changed, triedVars, lost,
                 stores, submitted>>

Less(n) == IF n = 0 THEN 0 ELSE n - 1
More(n, limit) == IF n = limit THEN limit ELSE n + 1

Tick ==
  /\ deadline' = Less(deadline) /\ sleep' = Less(sleep)
  /\ next_request' = Less(next_request)
  /\ waited' = More(waited, STATS_WAIT)
  /\ unasked' = More(unasked, REQUEST_INTERVAL)
  /\ UNCHANGED <<configVars, pc, steamVars, runVars>>

Next == WorkerStep \/ LibraryChanges \/ SteamChanges \/ GameUnlocks \/ Tick

Spec == Init /\ [][Next]_vars

(* The worker is scheduled and time goes on. Steam owes nothing.              *)
FairSpec == Spec /\ WF_vars(WorkerStep) /\ WF_vars(Tick)

-------------------------------------------------------------------------------
TypeOK ==
  /\ g_started \in BOOLEAN
  /\ achievement_id \in IdLists /\ list \in BOOLEAN
  /\ ids \in Seq(Ids) /\ rest \in Seq(IF pc = "parse" THEN Ids \cup {Blank} ELSE Ids)
  /\ pc \in {"load", "config", "parse", "library", "sleep_library", "resolve", "stats",
             "sleep_stats", "list", "next", "set", "stopped", "timed_out", "finished"}
  /\ deadline \in Nat /\ sleep \in 0..RETRY_INTERVAL
  /\ next_request \in 0..REQUEST_INTERVAL
  /\ waited \in 0..STATS_WAIT /\ unasked \in 0..REQUEST_INTERVAL
  /\ loaded \in BOOLEAN /\ exports \in ExportSets
  /\ steam \in {"down", "empty", "listed", "ready"}
  /\ unlocked \subseteq Known /\ changed \in BOOLEAN
  /\ accepted \subseteq Ids /\ refused \subseteq Ids /\ unread \subseteq Ids
  /\ lost \in BOOLEAN
  /\ stores \in 0..1 /\ submitted \subseteq Known

(* No function of Steam is called that the library of the game lacks, whatever*)
(* the configuration asks for (work).                                         *)
Calls ==
  CASE pc = "stats" -> {"accessor", "count", "name", "get"}
    [] pc = "list" -> {"count", "name", "attribute"}
    [] pc = "next" -> IF rest # <<>> THEN {"get"} ELSE IF changed THEN {"store"} ELSE {}
    [] pc = "set" -> {"set"}
    [] OTHER -> {}
OnlyResolvedCalls == Calls \subseteq exports

(* While the data is missing a request is made at most once in an interval,   *)
(* and no interval passes without one, whether or not Steam answers           *)
(* (README.md; work).                                                         *)
RequestsPaced ==
  [][pc = "stats" /\ pc' = "sleep_stats" =>
       /\ unasked' = 0 => unasked = REQUEST_INTERVAL
       /\ steam # "down" /\ "request" \in exports => unasked' < REQUEST_INTERVAL]_vars

(* The data gets its own full minute, however late the library was found      *)
(* (README.md; work).                                                         *)
StatsGetTheirOwnWait == pc = "timed_out" => waited = STATS_WAIT

(* When a run is over each achievement that config.ini names, whatever stands *)
(* before it, is unlocked, by the mod or not, unless Steam refused that very  *)
(* id or does not have it: the run never begins so early that an id of the    *)
(* game is taken for unknown. What Steam accepted is submitted, by one call,  *)
(* whatever happened to the ids after it (README.md; parse_ids, work, run).   *)
RunIsComplete ==
  pc = "finished" =>
    /\ ToSet(achievement_id) \ {Blank} \subseteq unlocked \cup refused \cup unread
    /\ unread \subseteq Unknown \/ lost
    /\ stores = IF accepted = {} THEN 0 ELSE 1
    /\ submitted # {} \/ "store" \notin Faults => accepted \subseteq submitted

(* Both waits end: the worker never outlives them (work).                     *)
WorkerEnds == pc = "config" ~> pc \in {"stopped", "timed_out", "finished"}
===============================================================================
