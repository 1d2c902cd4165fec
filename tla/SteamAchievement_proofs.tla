------------------------ MODULE SteamAchievement_proofs ------------------------
(* Safety of steam_achievement for any achievements and configured lists, any *)
(* library that the game may have and any lengths of the waits.               *)
EXTENDS SteamAchievement, TLAPS

(* The definitions that only group the variables.                             *)
USE DEF configVars, timeVars, steamVars, triedVars, runVars, RunUnchanged

-------------------------------------------------------------------------------
(* Sequences and the sets of their elements.                                  *)
LEMMA HeadAndTail ==
  ASSUME NEW S, NEW s \in Seq(S), s # <<>>
  PROVE  /\ Head(s) \in S /\ Tail(s) \in Seq(S)
         /\ ToSet(s) = {Head(s)} \cup ToSet(Tail(s))
<1>1. Head(s) \in S /\ Tail(s) \in Seq(S)
  OBVIOUS
<1>2. Len(s) \in Nat /\ Len(s) > 0 /\ DOMAIN s = 1..Len(s) /\ Head(s) = s[1]
  OBVIOUS
<1>3. /\ Len(Tail(s)) = Len(s) - 1 /\ DOMAIN Tail(s) = 1..Len(Tail(s))
      /\ \A i \in 1..Len(Tail(s)) : Tail(s)[i] = s[i + 1]
  OBVIOUS
<1>4. \A x : x \in ToSet(s) <=> x = s[1] \/ x \in ToSet(Tail(s))
  <2> TAKE x
  <2>1. ASSUME NEW i \in 1..Len(s), x = s[i], x # s[1] PROVE x \in ToSet(Tail(s))
    <3>1. i - 1 \in 1..Len(Tail(s)) /\ Tail(s)[i - 1] = s[i]
      BY <1>2, <1>3, <2>1
    <3> QED
      BY <1>3, <2>1, <3>1 DEF ToSet
  <2>2. ASSUME NEW i \in 1..Len(Tail(s)), x = Tail(s)[i] PROVE x \in ToSet(s)
    <3>1. i + 1 \in 1..Len(s) /\ Tail(s)[i] = s[i + 1]
      BY <1>2, <1>3
    <3> QED
      BY <1>2, <2>2, <3>1 DEF ToSet
  <2> QED
    BY <1>2, <1>3, <2>1, <2>2 DEF ToSet
<1> QED
  BY <1>1, <1>2, <1>4

LEMMA OneMoreElement ==
  ASSUME NEW S, NEW s \in Seq(S), NEW x \in S
  PROVE  /\ Append(s, x) \in Seq(S) /\ Append(s, x) # <<>>
         /\ ToSet(Append(s, x)) = ToSet(s) \cup {x}
<1>1. /\ Append(s, x) \in Seq(S) /\ Len(Append(s, x)) = Len(s) + 1 /\ Len(s) \in Nat
      /\ DOMAIN s = 1..Len(s) /\ DOMAIN Append(s, x) = 1..(Len(s) + 1)
      /\ \A i \in 1..Len(s) : Append(s, x)[i] = s[i]
      /\ Append(s, x)[Len(s) + 1] = x
  OBVIOUS
<1>2. 1..(Len(s) + 1) = (1..Len(s)) \cup {Len(s) + 1}
  BY <1>1
<1> QED
  BY <1>1, <1>2 DEF ToSet

LEMMA Elements ==
  ASSUME NEW S, NEW s \in Seq(S)
  PROVE  /\ ToSet(s) \subseteq S
         /\ \A x : Contains(s, x) <=> x \in ToSet(s)
<1>1. DOMAIN s = 1..Len(s) /\ \A i \in 1..Len(s) : s[i] \in S
  OBVIOUS
<1> QED
  BY <1>1 DEF ToSet, Contains

LEMMA NoElements == ToSet(<<>>) = {}
BY DEF ToSet

(* One entry of achievement_id, read into the list.                           *)
LEMMA WithIdEffect ==
  ASSUME ids \in Seq(Ids), NEW id \in Ids \cup {Blank}
  PROVE  /\ WithId(id) \in Seq(Ids) /\ (ids # <<>> => WithId(id) # <<>>)
         /\ ToSet(WithId(id)) = ToSet(ids) \cup ({id} \ {Blank})
<1>1. CASE id = Blank
  BY <1>1 DEF WithId
<1>2. CASE id # Blank /\ Contains(ids, id)
  BY <1>2, Elements DEF WithId
<1>3. CASE id # Blank /\ ~Contains(ids, id)
  BY <1>3, OneMoreElement DEF WithId
<1> QED
  BY <1>1, <1>2, <1>3

-------------------------------------------------------------------------------
Running == {"list", "next", "set"}

(* The run: whatever is set is known to Steam and to the history, and nothing *)
(* is submitted before the last id.                                           *)
RunInv ==
  /\ pc = "set" => rest # <<>> /\ Head(rest) \in Known
  /\ changed <=> accepted # {}
  /\ accepted \subseteq unlocked
  /\ pc # "finished" => stores = 0 /\ submitted = {}
  /\ pc = "finished" =>
       /\ stores = IF changed THEN 1 ELSE 0
       /\ submitted # {} \/ "store" \notin Faults => accepted \subseteq submitted

LEMMA InitTypeAchievement == Init => TypeOK /\ RunInv
<1> SUFFICES ASSUME Init PROVE TypeOK /\ RunInv
  OBVIOUS
<1>1. /\ ids \in Seq(Ids) /\ rest \in Seq(IF pc = "parse" THEN Ids \cup {Blank} ELSE Ids)
      /\ sleep \in 0..RETRY_INTERVAL /\ next_request \in 0..REQUEST_INTERVAL
      /\ waited \in 0..STATS_WAIT /\ unasked \in 0..REQUEST_INTERVAL /\ deadline \in Nat
  BY SteamAchievementAssumption DEF Init
<1>2. TypeOK
  <2>1. /\ g_started \in BOOLEAN /\ list \in BOOLEAN /\ loaded \in BOOLEAN
        /\ changed \in BOOLEAN /\ lost \in BOOLEAN
    BY DEF Init
  <2>2. /\ pc = "load" /\ steam = "down" /\ stores \in 0..1
        /\ unlocked \subseteq Known /\ submitted \subseteq Known
        /\ accepted \subseteq Ids /\ refused \subseteq Ids /\ unread \subseteq Ids
    BY DEF Init
  <2>3. achievement_id \in IdLists /\ exports \in ExportSets
    BY DEF Init
  <2> QED
    BY <1>1, <2>1, <2>2, <2>3 DEF TypeOK
<1>3. RunInv
  BY DEF Init, RunInv
<1> QED
  BY <1>2, <1>3

LEMMA NextTypeAchievement == TypeOK /\ RunInv /\ [Next]_vars => TypeOK' /\ RunInv'
<1> SUFFICES ASSUME TypeOK, RunInv, [Next]_vars PROVE TypeOK' /\ RunInv'
  OBVIOUS
<1>c. /\ LIBRARY_WAIT \in Nat \ {0} /\ STATS_WAIT \in Nat \ {0}
      /\ REQUEST_INTERVAL \in Nat \ {0} /\ RETRY_INTERVAL \in Nat \ {0}
  BY SteamAchievementAssumption
<1> USE DEF TypeOK, RunInv
<1>1. CASE UNCHANGED vars
  BY <1>1 DEF vars
<1>2. CASE on_mod_load
  BY <1>2 DEF on_mod_load
<1>3. CASE read_config
  <2>1. achievement_id \in Seq(Ids \cup {Blank})
    BY SteamAchievementAssumption
  <2> QED
    BY <1>3, <2>1 DEF read_config
<1>4. CASE parse_ids
  <2>1. Head(rest) \in Ids \cup {Blank} /\ Tail(rest) \in Seq(Ids \cup {Blank})
    BY <1>4, HeadAndTail DEF parse_ids
  <2>2. WithId(Head(rest)) \in Seq(Ids)
    BY <2>1, WithIdEffect
  <2> QED
    BY <1>4, <2>1, <2>2 DEF parse_ids
<1>5. CASE StartWaiting
  BY <1>5, <1>c DEF StartWaiting
<1>6. CASE FindLibrary
  BY <1>6, <1>c DEF FindLibrary
<1>7. CASE ResolveExports
  BY <1>7, <1>c DEF ResolveExports
<1>8. CASE ProbeStats
  BY <1>8, <1>c DEF ProbeStats, RequestStats
<1>9. CASE Wake
  BY <1>9 DEF Wake
<1>10. CASE ListAchievements
  BY <1>10 DEF ListAchievements
<1>11. CASE GetAchievement
  <2>1. Head(rest) \in Ids /\ Tail(rest) \in Seq(Ids)
    BY <1>11, HeadAndTail DEF GetAchievement
  <2> QED
    BY <1>11, <2>1 DEF GetAchievement
<1>12. CASE SetAchievement
  <2>1. Head(rest) \in Known /\ Head(rest) \in Ids /\ Tail(rest) \in Seq(Ids)
    BY <1>12, HeadAndTail DEF SetAchievement
  <2> QED
    BY <1>12, <2>1 DEF SetAchievement, AnyResult
<1>13. CASE StoreStats
  BY <1>13 DEF StoreStats
<1>14. CASE LibraryChanges \/ SteamChanges \/ GameUnlocks
  <2>1. CASE LibraryChanges
    BY <2>1 DEF LibraryChanges
  <2>2. CASE SteamChanges
    <3>1. steam' \in {"empty", "listed", "ready"} /\ lost' \in BOOLEAN
      BY <2>2 DEF SteamChanges
    <3> QED
      BY <2>2, <3>1 DEF SteamChanges
  <2>3. CASE GameUnlocks
    BY <2>3 DEF GameUnlocks
  <2> QED
    BY <1>14, <2>1, <2>2, <2>3
<1>15. CASE Tick
  BY <1>15, <1>c DEF Tick, Less, More
<1> QED
  BY <1>1, <1>2, <1>3, <1>4, <1>5, <1>6, <1>7, <1>8, <1>9, <1>10, <1>11, <1>12, <1>13,
     <1>14, <1>15 DEF Next, WorkerStep

LEMMA RunInvariant == Spec => [](TypeOK /\ RunInv)
<1>1. TypeOK /\ RunInv /\ [Next]_vars => (TypeOK /\ RunInv)'
  BY NextTypeAchievement
<1> QED
  BY InitTypeAchievement, <1>1, PTL DEF Spec

(* The worker and its run stay in the states of steam_achievement/main.cpp:   *)
(* the list of ids holds no blank entry, what is unlocked are achievements of *)
(* the game, and StoreStats is called once at most.                           *)
THEOREM TypeCorrect == Spec => []TypeOK
BY RunInvariant, PTL

-------------------------------------------------------------------------------
(* From the check of the exports on, the library has what the configuration   *)
(* requires, and what a step will call is part of that.                       *)
ExportInv ==
  /\ pc \in {"stats", "sleep_stats"} \cup Running => Required \subseteq exports
  /\ pc = "list" => list
  /\ pc \in Running /\ rest # <<>> => ids # <<>>
  /\ changed => ids # <<>>

LEMMA NextExport == TypeOK /\ RunInv /\ ExportInv /\ [Next]_vars => ExportInv'
<1> SUFFICES ASSUME TypeOK, RunInv, ExportInv, [Next]_vars PROVE ExportInv'
  OBVIOUS
<1>r. ASSUME UNCHANGED <<list, ids>> PROVE Required' = Required
  BY <1>r DEF Required
<1> USE DEF ExportInv, Running
<1>1. CASE UNCHANGED vars
  BY <1>1, <1>r DEF vars
<1>2. CASE on_mod_load \/ read_config \/ StartWaiting \/ FindLibrary \/ Wake
  BY <1>2, <1>r DEF on_mod_load, read_config, StartWaiting, FindLibrary, Wake
<1>3. CASE parse_ids
  <2>1. /\ pc = "parse" /\ rest # <<>> /\ ids' = WithId(Head(rest))
        /\ UNCHANGED <<pc, changed>>
    BY <1>3 DEF parse_ids
  <2>2. Head(rest) \in Ids \cup {Blank} /\ ids \in Seq(Ids)
    BY <2>1, HeadAndTail DEF TypeOK
  <2>3. ids # <<>> => ids' # <<>>
    BY <2>1, <2>2, WithIdEffect
  <2> QED
    BY <2>1, <2>3
<1>4. CASE ResolveExports
  BY <1>4, <1>r DEF ResolveExports
<1>5. CASE ProbeStats
  BY <1>5, <1>r DEF ProbeStats
<1>6. CASE ListAchievements \/ GetAchievement \/ StoreStats
  BY <1>6, <1>r DEF ListAchievements, GetAchievement, StoreStats
<1>7. CASE SetAchievement
  <2>1. /\ pc = "set" /\ pc' = "next" /\ UNCHANGED <<list, ids, exports>>
    BY <1>7 DEF SetAchievement
  <2>2. ids # <<>>
    BY <2>1 DEF RunInv
  <2> QED
    BY <1>r, <2>1, <2>2
<1>8. CASE LibraryChanges \/ SteamChanges \/ GameUnlocks \/ Tick
  <2>1. UNCHANGED <<pc, list, ids, exports, rest, changed>>
    BY <1>8 DEF LibraryChanges, SteamChanges, GameUnlocks, Tick
  <2> QED
    BY <1>r, <2>1
<1> QED
  BY <1>1, <1>2, <1>3, <1>4, <1>5, <1>6, <1>7, <1>8 DEF Next, WorkerStep

(* Whatever the configuration asks for and whatever the library of the game   *)
(* exports, no function is called that resolve did not find (work, run): the  *)
(* setters are required exactly when there are ids to set.                    *)
THEOREM CallsOnlyWhatIsResolved == Spec => []OnlyResolvedCalls
<1>1. Init => ExportInv
  BY DEF Init, ExportInv, Running
<1>2. RunInv /\ ExportInv => OnlyResolvedCalls
  <2> SUFFICES ASSUME RunInv, ExportInv PROVE Calls \subseteq exports
    BY DEF OnlyResolvedCalls
  <2> USE DEF RunInv, ExportInv, Calls, Required, Running
  <2>1. CASE pc = "stats"
    BY <2>1
  <2>2. CASE pc = "list"
    BY <2>2
  <2>3. CASE pc = "next"
    BY <2>3
  <2>4. CASE pc = "set"
    BY <2>4
  <2> QED
    BY <2>1, <2>2, <2>3, <2>4
<1> QED
  BY <1>1, <1>2, NextExport, RunInvariant, PTL DEF Spec

-------------------------------------------------------------------------------
(* The deadline of the second wait counts from its beginning.                 *)
WaitInv ==
  /\ pc \in {"stats", "sleep_stats"} => waited + deadline >= STATS_WAIT
  /\ pc = "timed_out" => waited = STATS_WAIT

LEMMA NextWait == TypeOK /\ WaitInv /\ [Next]_vars => WaitInv'
<1> SUFFICES ASSUME TypeOK, WaitInv, [Next]_vars PROVE WaitInv'
  OBVIOUS
<1>t. deadline \in Nat /\ STATS_WAIT \in Nat /\ waited \in 0..STATS_WAIT
  BY SteamAchievementAssumption DEF TypeOK
<1> USE DEF WaitInv
<1>1. CASE UNCHANGED vars
  BY <1>1 DEF vars
<1>2. CASE on_mod_load \/ read_config \/ parse_ids \/ StartWaiting \/ FindLibrary
  BY <1>2 DEF on_mod_load, read_config, parse_ids, StartWaiting, FindLibrary
<1>3. CASE ResolveExports
  BY <1>3, <1>t DEF ResolveExports
<1>4. CASE ProbeStats
  BY <1>4, <1>t DEF ProbeStats
<1>5. CASE Wake
  BY <1>5 DEF Wake
<1>6. CASE ListAchievements \/ GetAchievement \/ SetAchievement \/ StoreStats
  BY <1>6 DEF ListAchievements, GetAchievement, SetAchievement, StoreStats
<1>7. CASE LibraryChanges \/ SteamChanges \/ GameUnlocks
  BY <1>7 DEF LibraryChanges, SteamChanges, GameUnlocks
<1>8. CASE Tick
  BY <1>8, <1>t DEF Tick, Less, More
<1> QED
  BY <1>1, <1>2, <1>3, <1>4, <1>5, <1>6, <1>7, <1>8 DEF Next, WorkerStep

(* The worker gives up on the achievement data only after a full wait of its  *)
(* own, however much of the first wait the library took (stats_deadline).     *)
THEOREM StatsAreWaitedFor == Spec => []StatsGetTheirOwnWait
<1>1. Init => WaitInv
  BY DEF Init, WaitInv
<1>2. WaitInv => StatsGetTheirOwnWait
  BY DEF WaitInv, StatsGetTheirOwnWait
<1> QED
  BY <1>1, <1>2, NextWait, RunInvariant, PTL DEF Spec

-------------------------------------------------------------------------------
(* next_request and the time since the last request add up to an interval,    *)
(* and a probe always comes after some time without a request.                *)
PaceInv ==
  /\ next_request + unasked = REQUEST_INTERVAL
  /\ unasked > 0 \/ (pc = "sleep_stats" /\ sleep > 0)

LEMMA NextPace == TypeOK /\ PaceInv /\ [Next]_vars => PaceInv'
<1> SUFFICES ASSUME TypeOK, PaceInv, [Next]_vars PROVE PaceInv'
  OBVIOUS
<1>t. /\ REQUEST_INTERVAL \in Nat \ {0} /\ RETRY_INTERVAL \in Nat \ {0}
      /\ next_request \in 0..REQUEST_INTERVAL /\ unasked \in 0..REQUEST_INTERVAL
      /\ sleep \in 0..RETRY_INTERVAL
  BY SteamAchievementAssumption DEF TypeOK
<1> USE DEF PaceInv
<1>1. CASE UNCHANGED vars
  BY <1>1 DEF vars
<1>2. CASE on_mod_load \/ read_config \/ parse_ids \/ StartWaiting \/ FindLibrary
             \/ ResolveExports
  BY <1>2 DEF on_mod_load, read_config, parse_ids, StartWaiting, FindLibrary,
              ResolveExports
<1>3. CASE ProbeStats
  <2>1. CASE UNCHANGED <<sleep, next_request, unasked>>
    BY <1>3, <2>1 DEF ProbeStats
  <2>2. CASE RequestStats /\ pc' = "sleep_stats" /\ sleep' = RETRY_INTERVAL
    BY <1>t, <2>2 DEF RequestStats
  <2> QED
    BY <1>3, <2>1, <2>2 DEF ProbeStats
<1>4. CASE Wake
  BY <1>4, <1>t DEF Wake
<1>5. CASE ListAchievements \/ GetAchievement \/ SetAchievement \/ StoreStats
  BY <1>5 DEF ListAchievements, GetAchievement, SetAchievement, StoreStats
<1>6. CASE LibraryChanges \/ SteamChanges \/ GameUnlocks
  BY <1>6 DEF LibraryChanges, SteamChanges, GameUnlocks
<1>7. CASE Tick
  BY <1>7, <1>t DEF Tick, Less, More
<1> QED
  BY <1>1, <1>2, <1>3, <1>4, <1>5, <1>6, <1>7 DEF Next, WorkerStep

(* As long as the data is missing, two requests lie an interval apart and no  *)
(* interval goes by without one, whatever Steam answers (next_request).       *)
THEOREM RequestsArePaced == Spec => RequestsPaced
<1> DEFINE Paced == pc = "stats" /\ pc' = "sleep_stats" =>
                      /\ unasked' = 0 => unasked = REQUEST_INTERVAL
                      /\ steam # "down" /\ "request" \in exports =>
                           unasked' < REQUEST_INTERVAL
<1>1. Init => PaceInv
  BY SteamAchievementAssumption DEF Init, PaceInv
<1>2. TypeOK /\ PaceInv /\ [Next]_vars => [Paced]_vars
  <2> SUFFICES ASSUME TypeOK, PaceInv, Next, pc = "stats", pc' = "sleep_stats"
               PROVE  Paced
    OBVIOUS
  <2>t. /\ REQUEST_INTERVAL \in Nat \ {0}
        /\ next_request \in 0..REQUEST_INTERVAL /\ unasked \in 0..REQUEST_INTERVAL
    BY SteamAchievementAssumption DEF TypeOK
  <2>1. ProbeStats
    BY DEF Next, WorkerStep, on_mod_load, read_config, parse_ids, StartWaiting,
           FindLibrary, ResolveExports, Wake, ListAchievements, GetAchievement,
           SetAchievement, StoreStats, LibraryChanges, SteamChanges, GameUnlocks, Tick
  <2>2. RequestStats
    BY <2>1 DEF ProbeStats
  <2>3. next_request + unasked = REQUEST_INTERVAL /\ unasked > 0
    BY DEF PaceInv
  <2> QED
    BY <2>t, <2>2, <2>3 DEF RequestStats
<1>3. Spec => []PaceInv
  BY <1>1, NextPace, RunInvariant, PTL DEF Spec
<1>4. Spec => [][Paced]_vars
  BY <1>2, <1>3, RunInvariant, PTL DEF Spec
<1> QED
  BY <1>4 DEF RequestsPaced

-------------------------------------------------------------------------------
(* No configured id is ever dropped: it is still to be read, in the list,     *)
(* still to be tried, or dealt with. A run begins when the data is there.     *)
Configured == ToSet(achievement_id) \ {Blank}
Tried == unlocked \cup refused \cup unread

TriedInv ==
  /\ pc = "parse" => Configured \subseteq ToSet(ids) \cup ToSet(rest)
  /\ pc \in {"library", "sleep_library", "resolve", "stats", "sleep_stats"} =>
       Configured \subseteq ToSet(ids)
  /\ pc \in Running => Configured \subseteq ToSet(rest) \cup Tried
  /\ pc = "finished" => Configured \subseteq Tried
  /\ pc \in Running => steam = "ready" \/ lost
  /\ unread \subseteq Unknown \/ lost

LEMMA NextTried == TypeOK /\ RunInv /\ TriedInv /\ [Next]_vars => TriedInv'
<1> SUFFICES ASSUME TypeOK, RunInv, TriedInv, [Next]_vars PROVE TriedInv'
  OBVIOUS
<1>c. ASSUME UNCHANGED achievement_id PROVE Configured' = Configured
  BY <1>c DEF Configured
<1> USE DEF TriedInv, Running, Tried
<1>1. CASE UNCHANGED vars
  BY <1>1, <1>c DEF vars
<1>2. CASE on_mod_load \/ FindLibrary \/ ResolveExports \/ Wake
  BY <1>2, <1>c DEF on_mod_load, FindLibrary, ResolveExports, Wake
<1>3. CASE read_config
  <2>1. pc' = "parse" => Configured \subseteq ToSet(rest')
    BY <1>3 DEF read_config, Configured
  <2> QED
    BY <1>3, <1>c, <2>1 DEF read_config
<1>4. CASE parse_ids
  <2>1. /\ pc = "parse" /\ rest # <<>> /\ ids' = WithId(Head(rest)) /\ rest' = Tail(rest)
        /\ UNCHANGED <<achievement_id, pc, unread, lost>>
    BY <1>4 DEF parse_ids
  <2>2. /\ Head(rest) \in Ids \cup {Blank} /\ ids \in Seq(Ids)
        /\ ToSet(rest) = {Head(rest)} \cup ToSet(rest')
    BY <2>1, HeadAndTail DEF TypeOK
  <2>3. ToSet(ids') = ToSet(ids) \cup ({Head(rest)} \ {Blank})
    BY <2>1, <2>2, WithIdEffect
  <2>4. Blank \notin Configured
    BY DEF Configured
  <2> QED
    BY <1>c, <2>1, <2>2, <2>3, <2>4
<1>5. CASE StartWaiting
  <2>1. /\ pc = "parse" /\ rest = <<>> /\ pc' \in {"library", "stopped"}
        /\ UNCHANGED <<achievement_id, ids, unread, lost>>
    BY <1>5 DEF StartWaiting
  <2>2. Configured \subseteq ToSet(ids)
    BY <2>1, NoElements
  <2> QED
    BY <1>c, <2>1, <2>2
<1>6. CASE ProbeStats
  BY <1>6, <1>c DEF ProbeStats, StatsReady
<1>7. CASE ListAchievements
  BY <1>7, <1>c DEF ListAchievements
<1>8. CASE GetAchievement
  <2>1. /\ pc = "next" /\ rest # <<>> /\ pc' \in {"next", "set"}
        /\ UNCHANGED <<achievement_id, unlocked, refused, steam, lost>>
    BY <1>8 DEF GetAchievement
  <2>2. /\ ToSet(rest) = {Head(rest)} \cup ToSet(Tail(rest)) /\ Head(rest) \in Ids
    BY <2>1, HeadAndTail DEF TypeOK
  <2>3. /\ unread \subseteq unread'
        /\ \/ rest' = rest
           \/ rest' = Tail(rest) /\ Head(rest) \in unread' \cup unlocked
    BY <1>8 DEF GetAchievement
  <2>4. unread' \subseteq Unknown \/ lost
    BY <1>8, <2>1, <2>2 DEF GetAchievement, Ids
  <2> QED
    BY <1>c, <2>1, <2>2, <2>3, <2>4
<1>9. CASE SetAchievement
  <2>1. /\ pc = "set" /\ pc' = "next" /\ rest' = Tail(rest) /\ rest # <<>>
        /\ UNCHANGED <<achievement_id, unread, steam, lost>>
        /\ unlocked \subseteq unlocked' /\ refused \subseteq refused'
        /\ Head(rest) \in unlocked' \cup refused'
    BY <1>9 DEF SetAchievement, RunInv
  <2>2. ToSet(rest) = {Head(rest)} \cup ToSet(Tail(rest))
    BY <2>1, HeadAndTail DEF TypeOK
  <2> QED
    BY <1>c, <2>1, <2>2
<1>10. CASE StoreStats
  <2>1. /\ pc = "next" /\ rest = <<>> /\ pc' = "finished"
        /\ UNCHANGED <<achievement_id, unlocked, refused, unread, lost>>
    BY <1>10 DEF StoreStats
  <2>2. Configured \subseteq Tried
    BY <2>1, NoElements
  <2> QED
    BY <1>c, <2>1, <2>2
<1>11. CASE LibraryChanges
  BY <1>11, <1>c DEF LibraryChanges, Pinned
<1>12. CASE SteamChanges
  <2>1. /\ UNCHANGED <<achievement_id, ids, rest, pc, unlocked, refused, unread>>
        /\ lost' = (lost \/ (steam = "ready" /\ pc \in Running))
    BY <1>12 DEF SteamChanges
  <2> QED
    BY <1>c, <2>1
<1>13. CASE GameUnlocks \/ Tick
  BY <1>13, <1>c DEF GameUnlocks, Tick
<1> QED
  BY <1>1, <1>2, <1>3, <1>4, <1>5, <1>6, <1>7, <1>8, <1>9, <1>10, <1>11, <1>12, <1>13
     DEF Next, WorkerStep

(* A run that is over has tried every id of config.ini, has passed over only  *)
(* those that the game does not have, unless Steam lost the data meanwhile,   *)
(* and has submitted what Steam accepted, by one call (parse_ids, work, run). *)
THEOREM RunsAreComplete == Spec => []RunIsComplete
<1>1. Init => TriedInv
  BY DEF Init, TriedInv, Running
<1>2. RunInv /\ TriedInv => RunIsComplete
  BY DEF RunInv, TriedInv, Configured, Tried, RunIsComplete
<1> QED
  BY <1>1, <1>2, NextTried, RunInvariant, PTL DEF Spec

-------------------------------------------------------------------------------
(* The mod sets what it was asked to, and each id once: the list that it goes *)
(* through holds no id twice, and what it has still to try it has not tried.  *)
Distinct(s) == \A i, j \in 1..Len(s) : s[i] = s[j] => i = j

LEMMA DistinctTail ==
  ASSUME NEW S, NEW s \in Seq(S), s # <<>>, Distinct(s)
  PROVE  Distinct(Tail(s)) /\ Head(s) \notin ToSet(Tail(s))
<1>1. /\ Len(s) \in Nat /\ Len(s) > 0 /\ Head(s) = s[1]
      /\ Len(Tail(s)) = Len(s) - 1 /\ DOMAIN Tail(s) = 1..Len(Tail(s))
      /\ \A i \in 1..Len(Tail(s)) : Tail(s)[i] = s[i + 1]
  OBVIOUS
<1>2. \A i, j \in 1..Len(Tail(s)) : Tail(s)[i] = Tail(s)[j] => i = j
  <2> SUFFICES ASSUME NEW i \in 1..Len(Tail(s)), NEW j \in 1..Len(Tail(s)),
                      Tail(s)[i] = Tail(s)[j]
               PROVE  i = j
    OBVIOUS
  <2>1. s[i + 1] = s[j + 1] /\ i + 1 \in 1..Len(s) /\ j + 1 \in 1..Len(s)
    BY <1>1
  <2>2. i + 1 = j + 1
    BY <2>1 DEF Distinct
  <2> QED
    BY <1>1, <2>2
<1>3. ASSUME NEW i \in 1..Len(Tail(s)), Tail(s)[i] = s[1] PROVE FALSE
  <2>1. s[i + 1] = s[1] /\ i + 1 \in 1..Len(s) /\ 1 \in 1..Len(s) /\ i + 1 # 1
    BY <1>1, <1>3
  <2> QED
    BY <2>1 DEF Distinct
<1> QED
  BY <1>1, <1>2, <1>3 DEF Distinct, ToSet

LEMMA DistinctWithId ==
  ASSUME ids \in Seq(Ids), Distinct(ids), NEW id \in Ids \cup {Blank}
  PROVE  Distinct(WithId(id))
<1>1. CASE id = Blank \/ Contains(ids, id)
  BY <1>1 DEF WithId
<1>2. CASE id # Blank /\ ~Contains(ids, id)
  <2>1. WithId(id) = Append(ids, id) /\ id \in Ids
    BY <1>2 DEF WithId
  <2>2. /\ Len(ids) \in Nat /\ Len(Append(ids, id)) = Len(ids) + 1
        /\ \A i \in 1..Len(ids) : Append(ids, id)[i] = ids[i] /\ ids[i] # id
        /\ Append(ids, id)[Len(ids) + 1] = id
    <3>1. \A i \in 1..Len(ids) : ids[i] # id
      BY <1>2 DEF Contains
    <3> QED
      BY <2>1, <3>1
  <2>3. ASSUME NEW i \in 1..(Len(ids) + 1), NEW j \in 1..(Len(ids) + 1),
               Append(ids, id)[i] = Append(ids, id)[j]
        PROVE  i = j
    <3>1. CASE i \in 1..Len(ids) /\ j \in 1..Len(ids)
      BY <2>2, <2>3, <3>1 DEF Distinct
    <3>2. CASE i = Len(ids) + 1 /\ j = Len(ids) + 1
      BY <3>2
    <3>3. CASE i \in 1..Len(ids) /\ j = Len(ids) + 1
      BY <2>2, <2>3, <3>3
    <3>4. CASE i = Len(ids) + 1 /\ j \in 1..Len(ids)
      BY <2>2, <2>3, <3>4
    <3> QED
      BY <2>2, <3>1, <3>2, <3>3, <3>4
  <2> QED
    BY <2>1, <2>2, <2>3 DEF Distinct
<1> QED
  BY <1>1, <1>2

Asked == accepted \cup refused

OnceInv ==
  /\ Distinct(ids) /\ ToSet(ids) \subseteq Configured
  /\ pc = "parse" => ToSet(rest) \ {Blank} \subseteq Configured
  /\ pc \in Running =>
       Distinct(rest) /\ ToSet(rest) \subseteq Configured /\ ToSet(rest) \cap Asked = {}
  /\ pc \notin Running \cup {"finished"} => Asked = {}
  /\ Asked \subseteq Configured

LEMMA NextOnce == TypeOK /\ RunInv /\ OnceInv /\ [Next]_vars => OnceInv'
<1> SUFFICES ASSUME TypeOK, RunInv, OnceInv, [Next]_vars PROVE OnceInv'
  OBVIOUS
<1>c. ASSUME UNCHANGED achievement_id PROVE Configured' = Configured
  BY <1>c DEF Configured
<1> USE DEF OnceInv, Running, Asked
<1>1. CASE UNCHANGED vars
  BY <1>1, <1>c DEF vars
<1>2. CASE on_mod_load \/ StartWaiting \/ FindLibrary \/ ResolveExports \/ Wake
  BY <1>2, <1>c DEF on_mod_load, StartWaiting, FindLibrary, ResolveExports, Wake
<1>3. CASE read_config
  <2>1. pc' = "parse" => rest' = achievement_id
    BY <1>3 DEF read_config
  <2> QED
    BY <1>3, <1>c, <2>1 DEF read_config, Configured
<1>4. CASE parse_ids
  <2>1. /\ pc = "parse" /\ rest # <<>> /\ ids' = WithId(Head(rest)) /\ rest' = Tail(rest)
        /\ UNCHANGED <<achievement_id, pc, accepted, refused>>
    BY <1>4 DEF parse_ids
  <2>2. /\ Head(rest) \in Ids \cup {Blank} /\ ids \in Seq(Ids)
        /\ ToSet(rest) = {Head(rest)} \cup ToSet(rest')
    BY <2>1, HeadAndTail DEF TypeOK
  <2>3. ToSet(ids') = ToSet(ids) \cup ({Head(rest)} \ {Blank}) /\ Distinct(ids')
    BY <2>1, <2>2, WithIdEffect, DistinctWithId
  <2> QED
    BY <1>c, <2>1, <2>2, <2>3
<1>5. CASE ProbeStats
  <2>1. /\ pc = "stats" /\ pc' \in {"timed_out", "list", "next", "sleep_stats"}
        /\ UNCHANGED <<achievement_id, ids, accepted, refused>>
        /\ pc' \in {"list", "next"} => rest' = ids
    BY <1>5 DEF ProbeStats
  <2> QED
    BY <1>c, <2>1
<1>6. CASE ListAchievements
  BY <1>6, <1>c DEF ListAchievements
<1>7. CASE GetAchievement
  <2>1. /\ pc = "next" /\ rest # <<>> /\ pc' \in {"next", "set"}
        /\ UNCHANGED <<achievement_id, ids, accepted, refused>>
        /\ rest' = rest \/ rest' = Tail(rest)
    BY <1>7 DEF GetAchievement
  <2>2. ToSet(rest) = {Head(rest)} \cup ToSet(Tail(rest)) /\ Distinct(Tail(rest))
    BY <2>1, HeadAndTail, DistinctTail DEF TypeOK
  <2> QED
    BY <1>c, <2>1, <2>2
<1>8. CASE SetAchievement
  <2>1. /\ pc = "set" /\ pc' = "next" /\ rest' = Tail(rest) /\ rest # <<>>
        /\ UNCHANGED <<achievement_id, ids>>
        /\ Asked' = Asked \cup {Head(rest)}
    BY <1>8 DEF SetAchievement, RunInv
  <2>2. /\ ToSet(rest) = {Head(rest)} \cup ToSet(Tail(rest)) /\ Distinct(Tail(rest))
        /\ Head(rest) \notin ToSet(Tail(rest))
    BY <2>1, HeadAndTail, DistinctTail DEF TypeOK
  <2> HIDE DEF Asked
  <2> QED
    BY <1>c, <2>1, <2>2
<1>9. CASE StoreStats
  BY <1>9, <1>c DEF StoreStats
<1>10. CASE LibraryChanges \/ SteamChanges \/ GameUnlocks \/ Tick
  BY <1>10, <1>c DEF LibraryChanges, SteamChanges, GameUnlocks, Tick
<1> QED
  BY <1>1, <1>2, <1>3, <1>4, <1>5, <1>6, <1>7, <1>8, <1>9, <1>10 DEF Next, WorkerStep

SetsEachOnce ==
  /\ accepted \cup refused \subseteq Configured
  /\ pc = "set" => Head(rest) \in Configured \ (accepted \cup refused)

(* Nothing is unlocked that config.ini does not name, whatever the game       *)
(* unlocks meanwhile, and SetAchievement is called once for an id however     *)
(* often the list repeats it (parse_ids, run).                                *)
THEOREM OnlyConfiguredIdsOnce == Spec => []SetsEachOnce
<1>1. Init => OnceInv
  BY NoElements DEF Init, OnceInv, Running, Asked, Distinct
<1>2. TypeOK /\ RunInv /\ OnceInv => SetsEachOnce
  <2> SUFFICES ASSUME TypeOK, RunInv, OnceInv PROVE SetsEachOnce
    OBVIOUS
  <2>1. pc = "set" => rest # <<>> /\ rest \in Seq(Ids)
    BY DEF TypeOK, RunInv
  <2>2. pc = "set" => Head(rest) \in ToSet(rest)
    BY <2>1, HeadAndTail
  <2> QED
    BY <2>2 DEF OnceInv, Running, Asked, SetsEachOnce
<1> QED
  BY <1>1, <1>2, NextOnce, RunInvariant, PTL DEF Spec
===============================================================================
