# A verification project for mod_loader

This directory models the programs of the repository in TLA+, checks the models
with TLC and proves the most important results with TLAPS. Paths are relative to
the repository; the code is under `src/`.

## 1. The system

The repository holds a mod loader for Windows games, five mods that it can load
and one build-time tool.

| Component | Code | State it keeps | Operations |
|---|---|---|---|
| mod loader | `src/mod_loader/proxy.cpp` | the log file and its critical section, the real DLL's handle and functions | `DllMain` attach/detach, `load_proxy`, `load_mods`, `has_on_mod_load_export`, `mod_log` |
| forwarders | `src/mod_loader/proxy_generated.cpp`, `tools/generate_proxy.py` | one pointer per forwarded export | resolve all pointers, forward a call |
| dynamic_fps_limit: plugin | `src/dynamic_fps_limit/src/plugin.cpp` | the worker's locals: the rate last set, the last known state | read `config.ini`, install, poll every 300 ms, set the limit |
| dynamic_fps_limit: Streamline | `src/dynamic_fps_limit/src/streamline.cpp` | `g_reflex`: lock, atomic limit, cached options, trampoline | the hook of `slReflexSetOptions`, its installation, change of the limit, query of the state |
| dynamic_fps_limit: RTSS | `src/dynamic_fps_limit/src/rtss.cpp` | resolved functions, profile name, `incompatible` | load, change, save and apply the game's profile |
| reflex_fps_limit | `src/reflex_fps_limit/main.cpp` | `g_context`: lock, limit, trampoline, the flag that the first call is over | the same hook with one constant limit |
| unity_fps_limit | `src/unity_fps_limit/main.cpp` | two setting values | find the Unity runtime, call two setters |
| steam_achievement | `src/steam_achievement/main.cpp` | configuration, API pointers, `g_started` | wait for Steam, wait for stats, unlock, store |
| steamclient_rdata_patch | `src/steamclient_rdata_patch/main.cpp` | trampoline, redirect lock, path of the patched DLL | the hook of `LoadLibraryExW`, the redirection |
| rdata_patch | `src/rdata_patch/main.go` | a PE file in memory | find `.rdata`, set its writable flag |

How they interact: the game (or Windows) loads the proxy DLL in the place of a
system DLL; `DllMain` resolves the real DLL and starts a thread that loads every
DLL of `mods\` which exports `on_mod_load`, and hands it the `mod_log` callback.
Each mod starts a worker thread of its own from there. From that moment the
threads of the game, the workers and the loader run at once and share the log
file; the mods that hook a function (`dynamic_fps_limit`, `reflex_fps_limit`,
`steamclient_rdata_patch`) also share state with every game thread that calls
the hooked function. Nothing is persisted but `mod.log`, the RTSS profile, and
the achievements that Steam stores; the process can end at any instant.

What is hard: calls of the game that are already inside a function when it is
hooked; options objects that are changed for the time of a call and restored;
locks taken under the loader lock; installation steps that fail and are retried
for ever; libraries that appear late; external calls that fail after state was
changed on their behalf; log lines of several threads; the end of the process
while a thread holds a lock.

### What makes each component correct

* **dynamic_fps_limit**: the game's objects come back unchanged; the hook never
  runs unprepared; after each change the driver has the limit that the worker
  believes it set, whatever calls were in flight; a lasting state of frame
  generation ends up with its own limit; a profile on disk is never half written.
* **mod loader**: records of the log are not mixed; a DLL that is not a mod never
  runs any code; a mod that fails does not keep the others from loading; a process
  can always end; a call forwarded to the real DLL reaches it.
* **reflex_fps_limit**: every intercepted call is given the configured limit, the
  object is restored, and the mod's own first call is alone.
* **steamclient_rdata_patch**: every request for `steamclient64.dll` gets the
  patched DLL, its names are restored, the references balance, every request returns.
* **steam_achievement**: one run per process, at most one request in ten seconds,
  every configured id is tried, what Steam accepted is submitted, every wait ends.
* **unity_fps_limit**: the limit is not applied without switching off vertical
  synchronisation first; the search for the runtime is retried.
* **rdata_patch**: the section whose flag is set is `.rdata`.

## 2. Modules and how they correspond to the code

| Module | Models | Depends on |
|---|---|---|
| `FrameLimit` | `fps_to_frame_limit_us`, `read_config_fps`: pure functions that both FPS mods carry | |
| `Streamline` | `dynamic_fps_limit/src/streamline.cpp` and the threads of the game | `FrameLimit` |
| `Rtss` | `dynamic_fps_limit/src/rtss.cpp`, RTSS and its user | `Streamline` (labels of the worker) |
| `DynamicFpsLimit` | `plugin.cpp`: the worker's loop; composes the two above and states the properties | `Rtss` |
| `ReflexFpsLimit` | `reflex_fps_limit/main.cpp` | `FrameLimit` |
| `ModLoader` | `mod_loader/proxy.cpp`, `load_functions` of `proxy_generated.cpp` | |
| `SteamclientPatch` | `steamclient_rdata_patch/main.cpp` and the module table of Windows | |
| `SteamAchievement` | `steam_achievement/main.cpp`, Steam and the game's use of it | |
| `UnityFpsLimit` | `unity_fps_limit/main.cpp`, the scripting backends of Unity | |
| `RdataPatch` | `rdata_patch/main.go`, step by step | |
| `LimitedSetter` | abstract: what a limiter promises of an intercepted call | implemented by `DynamicFpsLimit` (serially) and `ReflexFpsLimit` |
| `RecordLog` | abstract: what `mod_log` promises to its callers | implemented by `ModLoader` |
| `FrameLimit_proofs` | theorems about the two pure functions | `FrameLimit` |
| `DynamicFpsLimit_proofs` | theorems about the objects of the game, the hook, the limits in force, the RTSS profile, and the refinement of `LimitedSetter` | `DynamicFpsLimit`, `FrameLimit_proofs` |
| `ReflexFpsLimit_proofs` | theorems about the module, among them its frame times | `ReflexFpsLimit`, `FrameLimit_proofs` |
| `ModLoader_proofs`, `SteamclientPatch_proofs`, `SteamAchievement_proofs`, `UnityFpsLimit_proofs`, `RdataPatch_proofs` | theorems about the module they are named after | that module |
| `MC...` | instances for TLC | the module they are named after |
| `MCPatchedSteamclient` | the tool and the mod together: the game is played with the library that the tool made | `MCRdataPatch`, `MCSteamclientPatch` |

All concurrent modules are written the same way. A thread is an element of a
set, `pc[t]` names its next step, and there is one action for every step between
two accesses to shared data, named for what the code does there; a function that
touches shared data once is one action under its own name. Locals of a call that
matter later are functions of the thread (`arg`, `original_frame_limit_us`,
`lock_required`). External calls that may fail are named in the constant
`Faults`, so that a configuration chooses which ones do. Log messages are left
out, except in `ModLoader`, where they are the subject. Streamline's refusal of the
worker's call (`"set"`) and of a call of the game (`"game_set"`) are two faults,
because only the worker looks at the answer.

**Streamline / DynamicFpsLimit.** `minhook` is what MinHook knows of the target,
`options[o]` the object behind each `ReflexOptions&` including the mod's own
`last_options` (`Cache`), `driver` the options that Streamline last accepted.
`HookStep` is `hooked_reflex_set_options` (lock, save and cache, override, call,
restore and unlock); `InstallStep` is `install_reflex_hook` with its two exits;
`SetReflexFpsLimit` stores the limit and enters the hook's code with the cached
object. A game call made before the hook is enabled (`direct`) may reach the
driver at any later time. `DynamicFpsLimit` adds the worker of `plugin.cpp`:
`ReadConfig`, `ChooseTarget` (lines 147-168), `SetReturned`, `Wake`.

**Rtss.** Three copies of the profile: `disk`, RTSS' `working` copy, and the one
it has `applied`. The steps are load, denominator, limit, save, update; each
returns early when it fails. `UserEdits` is the RTSS window. `writable` says whether
RTSS can write the profile: `SaveProfile` returns nothing, so the code cannot see
that it was not written.

**ReflexFpsLimit.** The same hook with a lock that goes out of use:
`lock_required` is the local that is read once per call. `CreateHook` stores the
trampoline in `original_set_options`, without which `CallOriginal` has nowhere to
go. `text` is what `config.ini` holds, a number of any size or no number, and
`frame_limit_us` what `read_config_fps` and `fps_to_frame_limit_us` make of it.

**ModLoader.** `dll_main` steps through `DLL_PROCESS_ATTACH`; `pc[Loader]` through
`load_mods`; `mod_log` is entered with `CallLog` by any thread and writes a record
in three parts. `kind[e]` says what each file of `mods\` is (absent, a directory,
without the export, refusing to load, no longer resolvable, a mod).
`ExitProcess` kills every thread where it stands, and `Detach` follows.

**SteamclientPatch.** `modules` is the loader's table by base address with file,
the two names and the reference count. Windows' loader calls are one step each
under the loader's lock, which is recursive; the mod's `LdrLockLoaderLock` holds it
over several steps. `LoadRequesting` loads another library whose `DllMain` asks for
Steam's library: its thread, `dll_main`, has the lock of the loader from before it
enters the detour until `DllMainReturns`. A thread that has just loaded the
library owns a reference of it, so the search for the loader's entry finds one;
the code's way out when there is none is the branch of `LockLoader` that goes
straight to the unlock, and is never taken.

**SteamAchievement.** `pc` walks through `work` and `run`. The loops of `parse_ids`
and of `run` are one action per entry, and `rest` is what they have still to look
at. Time is what is left of
each deadline (`deadline`, `sleep`, `next_request`), and a tick may fall between
any two steps of the worker. The interval between requests is measured from the
moment at which the worker reads the clock. `steam` says how far Steam's data is:
no interface yet, no achievements, names only, or readable. It can go back from
readable at any time, also during `run`; that an interface once obtained becomes
null again is left out. A second `on_mod_load` is a no-op, and the library is
pinned as soon as it is found. `waited`, `unasked`, `accepted`, `refused`,
`unread`, `lost`, `stores` and `submitted` are history variables.

**UnityFpsLimit.** A backend has a stage: module loaded, domain there, image with
the two setters found. `FindSetters` is one attempt's search in one backend,
`Invoke` one managed call; between the two calls the game may write the settings
and other backends go on coming up. `invoke_il2cpp_setters` and
`invoke_mono_setters` differ in the names of what they call only, and share the
actions. Both attach the thread on the way to their setters, which is not kept.
The game may also write later: the mod applies its settings once.

**RdataPatch.** A file is its length and the fields that the tool reads. `tool` is the
next step of `makeRdataWritable` or how it ended (`success`, `rejected`, `failed`,
`panic`). `Step` compares the file with the end that the code checks and then with
the end of what it accesses: an access that no check covers would be a panic of
Go, so the model tells a missing check from a strict one. The comparison of the
offset of the NT header cuts the length of the file to 32 bits first (`uint32`), as
the code does. `ReadSection` is one round of the loop. Reading may fail, and a
write that fails may leave any part of the copy behind. The properties do not
repeat the tool's checks: `Holds(f, k)` says that the headers up to section `k` lie
in the file, which needs no cut to 32 bits, no prefix and no order of the checks.

**Refinements.** `LimitedSetter` has one action for the choice of the limit, one for
its delivery and one for the end of the call. An intercepted call of either mod
maps to it so: what it holds is the limit in its object from the override to the
restore; an object that is in use counts as holding what was saved of it. In
`DynamicFpsLimit` calls are serial, so no older limit can follow a newer one.
`RecordLog` has one action for a record: the three writes of `mod_log` map to
stutters and, with the last one, to the append; a record made of parts of two
calls, or a call that returns without its record, has no counterpart.

## 3. Runs, bounds and what they show

| Run | Instance | Shows |
|---|---|---|
| `dynamic_reflex` | 2 game threads, 2 shared objects; the thread, each call of the installation and its undoing, and the worker's own calls to Streamline may fail | objects of the game stay intact, the hook is ready, the limit that the worker set holds, no limit for active frame generation before it was seen, the worker replays the game's settings without its chain; `LimitedSetter` is implemented serially |
| `dynamic_reflex_live` | 1 thread, transient failures, Streamline may refuse the game's calls | a lasting state gets its limit; a call that was past the hook takes it away for a moment only |
| `dynamic_reflex_lost_limit` | 1 thread, refused changes | **violated**: see findings |
| `dynamic_rtss` | RTSS late, old or current, failing calls, a profile that cannot be written, an editing user | no torn profile, no stale overwrite, the rate that was set is on disk and applied; a lasting state gets its rate |
| `reflex_fps_limit` | 2 threads with an object each, all failures; every rate 0..5000 and those around the boundaries of the clamp and of 32 bits | the frame time is the nearest one, never 0 for a limit, and an unusable or too large text falls back to the default; the mod's own call is alone; `LimitedSetter` is implemented: objects come back, every hooked call has the limit; the limit arrives without the game's help or the installation failed; every call returns |
| `reflex_fps_limit_shared` | 2 threads, one object | **violated**: see findings |
| `mod_loader` | 2 entries of every kind, every real DLL, one record per mod thread | `RecordLog` is implemented: records are whole and none is lost; each mod is announced before it starts, every mod is started and nothing else is, forwarding to one DLL; the loader gets through, the process ends |
| `steamclient_patch` | files of 21 lengths around each field, with up to two sections of any kind behind three positions of the NT header, lengths cut to a `uint32` of 180 values; 3 threads, 2 addresses for Steam's library and one for others, 2 references each, requests from a `DllMain`, every failure | no access past the end of a file; a file with a whole header of `.rdata` is not rejected, a rejected one leaves no output, any output differs by one flag of one section. One copy, right library, balanced references, names restored; every request returns, but for the one deadlock of section 6 |
| `steamclient_patch_reuse` | an address that other libraries may take over | **violated**: see findings |
| `rdata_patch_name` | a section whose name only begins with `.rdata` comes first | **violated**: see findings |
| `steam_achievement` | two achievements and an unknown id in lists with blanks and duplicates; waits of 2 and 4 seconds, requests every 2; calls that fail, data that is lost again | the ids are the configured ones, only resolved functions are called, the data gets its own wait, requests are paced; a run that ends has tried every id, took none for unknown too early and submitted once what was accepted; both waits end |
| `unity_fps_limit` | three backends in every order of coming up, with and without all functions; setters that throw; a game that writes the settings; rates in and out of range | the rate is never limited under the synchronisation that was found, both settings end up applied by one attempt; the settings are applied once a backend can be called |

Why the bounds are enough: the hooks protect a single section per call, so two
threads of the game and the worker give every pairwise race, and a third thread
only waits for the same lock (the theorems below cover any number). Two objects
are one that is shared and one that is not. Two entries in `mods\` give each
kind before and after each other, so that a failure is followed by a success.
A wait for Steam's data that is twice the interval of
requests holds a second request and the end of the wait; the library's wait, half
as long, can end first, last or never. A file with two section headers has a match
first, second, twice or not at all, and is cut off before, inside and after each
field; with `uint32` scaled to 180 values, files shorter than that and longer occur.
The two halves of `steamclient_patch` meet in one file: the game is played with the
copy of one of them only, since the mod does not look into the library. Likewise
all but two texts of `reflex_fps_limit` are for a game without Streamline, where the
worker goes no further than to its search; the frame time is settled by then.
`dynamic_reflex` leaves out that `config.ini` cannot be read: the worker ends before
it touches anything, which `dynamic_rtss` has. Three
backends are all there are. Two addresses let Steam's library come back
elsewhere; three threads let a third one act between two that hold and wait.
`MaxLogs` and `MaxHandles` are the only bounds on counters. `UINT32_MAX` is scaled
down in the `.cfg` files, because TLC's integers are 32 bits wide and signed; the
proofs do not fix it.

Every property of a passing run has a mutated form of the code (the operators
marked `mutated`) that breaks it in the same run, so none of them holds for want
of something that could go wrong.

**Deadlock** is checked everywhere but in the runs `mod_loader`, where the process
terminates, `steamclient_patch`, where a patch that did not go well is the end and
threads may wait for each other (which `RequestsReturn` bounds), its sibling
`steamclient_patch_reuse`, and `rdata_patch_name`, where the tool ends.

## 4. Fairness

* Every thread that can run does (weak fairness per thread): the Windows
  scheduler. The game is never obliged to call anything, nor the user to edit.
* A critical section is not a fair lock. That a thread which waits for one is
  not passed over for ever is assumed as strong fairness on the acquisition;
  the owners hold it for one call or one log record.
* `dynamic_fps_limit` retries installation, polls and changes without limit. A
  liveness claim needs that an attempt repeated for ever succeeds some time:
  strong fairness on the successful outcome of the retried calls, listed in
  `ReflexFairness` and `RtssFairness`. Lasting failures are the subject of the
  safety runs.
* The state of frame generation must stay the same in the end (`<>[]Stable`), or
  there is nothing to follow.
* `steam_achievement`: its worker and time go on; Steam owes nothing.
* `unity_fps_limit`: its worker goes on, and a setter that is called for ever
  succeeds some time. No backend need come up: the property is about one that can
  be called for good.
* `on_mod_load` of every mod returns. The loader calls it on its own thread and
  without a time limit, and nothing in the API header asks a mod to return, so this
  is an assumption; it holds of the five mods of the repository.

## 5. What is proved

Checked by `tlapm` for every value of the constants, with only the named
assumptions of the modules:

* `FrameLimit_proofs`: `FrameLimitBounded`, `UnlimitedOnlyForZero`,
  `FrameLimitNearest`, `FrameLimitAntitone`, `ConfigFpsInRange`. All rest on one
  lemma, `Quotient`, that characterises the rounded division by multiplication.
* `DynamicFpsLimit_proofs`:
  * `TypeCorrect`: `Spec => []TypeOK`.
  * `GameOptionsStayIntact`: `Spec => []GameOptionsIntact`, for any number of
    threads and objects and any sharing. The property is not inductive: that a
    restore brings back the game's limit needs that what was saved was the game's
    limit, which needs that no other call had overridden it at that moment, which
    needs that the lock is owned by exactly the thread in the section. `IntactInv`
    is the conjunction `LockInv`, `SavedInv`, `OnlyLimitTouched` and the property.
  * `HookIsAlwaysReady`: `Spec => []HookIsReady`. `ReadyInv` adds that an existing
    hook was prepared, that the installation is not entered again after it
    succeeded, and that the worker calls the hook only with Reflex as limiter.
  * `BelievedLimitIsApplied` (`AppliedLimitHolds`) and `EarlyCallsGetInitialLimit`
    (`InitialLimitUntilActive`). `LimitInv` says that the object of a call past its
    override has the limit that is set, unless the worker has just stored a new
    one and waits for the lock: then every call in flight is over before its own.
  * `ProfileIsNeverTorn`, `NoStaleSave`, `BelievedRateIsApplied`. `ProfileInv` says,
    for each step of `set_fps_limit`, which of the three copies of the profile
    agree and on what.
  * `WorkerPassesNoChain`, and `WorkerRepeatsTheGame` (`WorkerReplaysGameOptions`)
    under the hypothesis that Streamline refuses no call of the game
    (`"game_set" \notin Faults`): `last_options` is stored before the call, so a
    refused call leaves settings there that never were in force.
  * `HookImplementsLimitedSetter`: initial states and every step map to the
    abstract setter.
  * `OnlyTheChosenLimiter` (`UntouchedInv`: until `config.ini` is read both limiters
    are untouched, and from then on the one that was not chosen),
    `TheHookStaysEnabled` (an action property: after the hook was enabled no step
    of the installation is reached, so no failing one that removes it), and
    `CallsAreSerial`, which `LockInv` gives.
  * `LimitsArriveInOrder`, an action property derived from the refinement: a step of
    `LimitedSetter` that brings a limit to the driver through the hook is the
    delivery of one call, and by `LockInv` no other call has chosen its limit by then.
* `RdataPatch_proofs`: `PatchesOneSection` (`OneFlagPatched`) for any files. `ToolInv`
  says what each step of the tool knows of the file: what was checked so far
  (`DosHeaderKnown`, `SignatureKnown`), that the headers passed in the scan fit and
  do not match (`ScanInv`), and how the copy differs from the file (`CopyInv`). It
  needs that a check of a header implies the ones before, so that the property,
  which asks only for the header of a `.rdata`, agrees with a scan that gives up
  at the first one that does not fit.
* `ReflexFpsLimit_proofs`: `TypeCorrect`; `InitialCallIsAlone`, whose `AloneInv` ties
  the local `lock_required` of each call to the flag at the time it was read;
  `HookedCallsAreLimited` and `HookImplementsLimitedSetter` under the hypothesis
  `~SharedObjects`. Without it both are false: finding 2. `LockedCallsUnlock`
  follows from `AloneInv` without a hypothesis: a call unlocks exactly if it
  locked, whenever the worker's first call ends. `TheHookIsPrepared`: a call in the
  hook finds the limit and the trampoline (`InstallInv`). `FrameTimesAreNearest`:
  `FrameTimeIsNearest` for every text and any width of the integers.
* `ModLoader_proofs`:
  * `TypeCorrect`, `LoadsAllModsAndOnlyMods`, `ForwardsToTheChosenDll` rest on
    `LoadInv`: what each place of `load_mods` knows of the entry at hand
    (`PlaceInv`), what became of the entries that were enumerated before
    (`SettledInv`), which threads exist (`ModThreadInv`, `PhaseInv`) and what
    `load_proxy` chose (`ForwardInv`).
  * `ModsAreAnnouncedFirst`: nobody logs for a mod that was not called, and a mod is
    called only after the record that names it is whole (`AnnounceInv`).
  * `LogImplementsRecordLog`: all parts of the log but the last ones form whole
    records, and the last ones are those that the owner of `g_log_lock` has
    written so far (`RecordInv`). A killed owner never gives the lock back.
  * What a reader of `mod.log` gets from it: `RecordsAreWhole` (the three parts of a
    record are of one call) and the action property `RecordsAreKept`.
  * `TheLogOutlivesItsUsers`: `LifetimeInv` says from which step of `DllMain` and of
    `load_mods` to which the lock and the file can be used, and that the threads
    that use them exist only in between. `OwnersAreInside`: while the process runs,
    the lock of the log belongs to a thread inside `mod_log`.
* `SteamclientPatch_proofs`:
  * `TypeCorrect`, `OneCopyOfThePatchedLibrary`, `ReferencesAreBalanced` rest on
    `SteamInv`: the locks belong to the threads in the sections (`LockInv`), the
    loader counts the references that threads own (`BalanceInv`), the owner of the
    redirect lock owns a reference of what it is to return, so that nobody
    unmaps it (`HandleInv`), and `g_loaded_steamclient` finds the patched library
    wherever it is mapped (`PatchedInv`).
  * `NamesAreRestored`: `NamesInv` gives both names at each step of the renaming.
  * `RedirectsToThePatchedLibrary` under the hypothesis that no other library is
    mapped at an address where Steam's may be (`Bases \cap OtherBases = {}`). The
    code does not ensure that: finding 3 is what happens otherwise.
  * `OnlyDllMainsDeadlock`: unless a `DllMain` waits for the redirect lock while its
    owner wants the loader's lock (`DllMainDeadlock`), a thread waits for a thread
    that runs, or for one that waits for a thread that runs. `LockInv` ties each lock
    to the places of its owner. The two locks are not taken in one order, and the
    theorem says that this one circle is all that can come of it.
* `SteamAchievement_proofs`: `TypeCorrect` with `RunInv`; `CallsOnlyWhatIsResolved`
  (`ExportInv`: what the configuration requires is there from the check on, and the
  configuration does not change); `StatsAreWaitedFor` (`WaitInv`: the time waited
  and the time left add up to the wait); the action property `RequestsArePaced`
  (`PaceInv`: the same of an interval, and every probe follows some time without a
  request); `RunsAreComplete` (`TriedInv`: each configured id is still to be read,
  in the list, still to be tried or dealt with); `OnlyConfiguredIdsOnce` (`OnceInv`: the
  list of `run` has no id twice and none of those that were tried).
* `UnityFpsLimit_proofs`: `TypeCorrect`; `SettingsAreAppliedTogether` (`AttemptInv`:
  past its first setter an attempt has written the synchronisation itself,
  unless the game did so since); the action properties `SettersAreFoundFirst`
  (`SettersFound`: the backend at hand is complete) and `TheGameHasTheLastWord`.

Four theorems have a hypothesis on the constants beyond the assumptions of the
modules: `~SharedObjects` (the last two of `ReflexFpsLimit_proofs`),
`"game_set" \notin Faults` (`WorkerRepeatsTheGame`) and disjoint addresses
(`RedirectsToThePatchedLibrary`). Each is named above with what fails without it.

Only model-checked:

* Liveness (`ReflexLimitFollowsState`, `RtssLimitFollowsState`, `LoadingEnds`,
  `LimitReached`, `CallsReturn`, `RequestsReturn`, `WorkerEnds`, `LimitApplied`): the
  prover has no support for `ENABLED` and hence for fairness. What they need of
  the locks is proved as safety: owners are inside their sections
  (`OwnersAreInside`, `LockedCallsUnlock`, `CallsAreSerial`) and waiting is circular
  in one way only (`OnlyDllMainsDeadlock`).
* That `LimitedSetter` and `RecordLog` are fit abstractions is read from them. What
  they give their users is in part stated by `LimitsArriveInOrder`, `RecordsAreWhole`
  and `RecordsAreKept`.

## 6. Findings

1. `dynamic_reflex_lost_limit`: `set_reflex_fps_limit` stores the new limit
   before the call that may be refused (`streamline.cpp:224`). If the state flips
   back before the retry, the worker believes that nothing is left to set
   (`plugin.cpp:165`), but the hook gives the game's next call the limit of the
   other state. `README.md:8-10` of the mod promises the limit of the observed state.
2. `reflex_fps_limit_shared`: after the worker's first call the hook takes no lock
   (`main.cpp:94`). Two calls at once with the same object restore each other's
   limit, and a call may reach Streamline with the limit of the game, which
   `README.md:6-7` says is replaced. `dynamic_fps_limit` locks every call.
3. `steamclient_patch_reuse`: a remembered base address that another library has
   taken over since is taken for the patched library (`main.cpp:161`);
   `README.md:10-12` says that such requests are redirected to `steamclient6p.dll`.
4. `rdata_patch_name`: the tool takes the first section whose name begins with
   `.rdata` (`main.go:101`). When one named, say, `.rdata2` comes before `.rdata`, it
   reports success (`main.go:31`: "`.rdata` section is now writable") and leaves
   `.rdata` read-only; `README.md:3` of the tool promises that section.

Without a run of their own:

* A `DllMain` that loads `steamclient64.dll` has the loader's lock and waits for the
  redirect lock (`steamclient_rdata_patch/main.cpp:157`); a redirected load on
  another thread has the redirect lock and calls the loader. Neither goes on
  (`DllMainDeadlock`). Windows advises against loading libraries in a `DllMain`, and no
  document of the repository speaks of it, so no run states the opposite.
* The comment at `steamclient_rdata_patch/main.cpp:142` calls both
  replacement names shorter than the patched ones; the base names have equal
  length, which is enough for the buffer.

## 7. Not modelled, and why

* Formatting and wording of log messages, path arithmetic and UTF conversion: no
  property is about them.
* Short writes to `mod.log` and a full disk: `mod_log` ignores the result.
* The layout checks of `has_on_mod_load_export`: the outcome of the inspection is
  the kind of a file.
* Unloading of Streamline, RTSS, MinHook or the proxy at run time: the code keeps
  addresses into them for ever and the models assume that they stay.
* Files of 4 GiB and more, which the tool may reject for its cut to 32 bits: a PE
  file has offsets of 32 bits.
* Headers of a PE file that overlap each other or the fields before them: each
  field has a value of its own. The command line of `rdata_patch`.
* Calls through the forwarders: they declare no parameters and depend on the
  compiler turning them into jumps, which is below the level of a model of states.
  `generate_proxy.py` and the build files.
* Exceptions of the C++ library in `steam_achievement` (out of memory), after which
  the worker ends.
* `dynamic_fps_limit` and `reflex_fps_limit` in one process, each with its own copy
  of MinHook on one function: nothing in the repository supports that use.

## 8. Plan

Done: the core (`FrameLimit`, `Streamline`, `Rtss`, `DynamicFpsLimit` and their
proofs), the other programs whose threads share state with the game (`ModLoader`,
`ReflexFpsLimit`, `SteamclientPatch`), the two mods that wait for other libraries
(`SteamAchievement`, `UnityFpsLimit`), the tool (`RdataPatch`), and the two
abstract specifications with their refinements.

Proved: every safety invariant and action property of the passing runs, the
three refinements, and the further theorems of section 5 that no run states.

What is left:

Shorter proofs: several steps of `ModLoader_proofs` repeat a case split that a lemma
on the unchanged parts of the state would share.
