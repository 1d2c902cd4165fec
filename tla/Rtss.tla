--------------------------------- MODULE Rtss ---------------------------------
(* dynamic_fps_limit/src/rtss.cpp: the limit is written to the RTSS profile   *)
(* of the game through RTSSHooks64.dll, whose API edits one working copy in   *)
(* the process (LoadProfile, SetProfileProperty, SaveProfile). The worker     *)
(* enters set_fps_limit at label "rtss" and leaves it at "set_returned".      *)
EXTENDS Streamline

CONSTANTS
  InitialRate        \* the rate in the game's profile before the mod runs

RateType == [limit : Nat, denominator : Nat]

ASSUME RtssAssumption == InitialRate \in RateType

(* The properties that the mod does not set, as one value.                    *)
Others == {"default", "user_1", "user_2"}
ProfileType == [rate : RateType, other : Others]

VARIABLES
  rtss_hooks,        \* RTSSHooks64.dll in the process: absent, old or current
  load_profile,      \* are the functions of the API resolved?
  profile,           \* is the name of the game's profile known?
  incompatible,      \* were exports missing?
  working,           \* the working copy inside RTSSHooks64.dll
  disk,              \* the profile file of the game
  applied,           \* the profile that RTSS limits the game with
  edited,            \* history: has the user edited the file since LoadProfile?
  writable           \* can the profile file be written?

apiVars == <<rtss_hooks, load_profile, profile, incompatible, writable>>
vars_rtss == <<apiVars, working, disk, applied, edited>>

InitRtss ==
  /\ rtss_hooks = "absent"
  /\ load_profile = FALSE
  /\ profile = FALSE
  /\ incompatible = FALSE
  /\ working = [rate |-> InitialRate, other |-> "default"]
  /\ disk = [rate |-> InitialRate, other |-> "user_1"]
  /\ applied = disk
  /\ edited = FALSE
  /\ writable \in Outcomes("rtss_save")

(* Everything of streamline.cpp that a step of rtss.cpp leaves alone.         *)
RtssUnchanged ==
  UNCHANGED <<lockVars, hookVars, callVars, pollVars, streamlineVars,
              frame_limit_us, options, driver>>

Return(ok) == result' = ok /\ Goto(Worker, "set_returned")

-------------------------------------------------------------------------------
AbsentIsIncompatible ==      \* mutated: an RTSS not there yet is given up too
  /\ At(Worker, "rtss")
  /\ load_profile' = (load_profile \/ (~incompatible /\ rtss_hooks = "current"))
  /\ incompatible' = ~load_profile'
  /\ IF load_profile'
       THEN Goto(Worker, "rtss_load") /\ UNCHANGED result
       ELSE Return(FALSE)
  /\ UNCHANGED <<rtss_hooks, profile, writable, working, disk, applied, edited>>
  /\ RtssUnchanged

(* initialize: an RTSS that lacks an export is never asked again.             *)
Initialize ==
  /\ At(Worker, "rtss")
  /\ load_profile' = (load_profile \/ (~incompatible /\ rtss_hooks = "current"))
  /\ incompatible' = (incompatible \/ (~load_profile /\ rtss_hooks = "old"))
  /\ IF load_profile'
       THEN Goto(Worker, "rtss_load") /\ UNCHANGED result
       ELSE Return(FALSE)
  /\ UNCHANGED <<rtss_hooks, profile, writable, working, disk, applied, edited>>
  /\ RtssUnchanged

(* initialize_profile fails when the path of the executable is too long.      *)
ProfileNameFails ==
  /\ At(Worker, "rtss_load")
  /\ ~profile /\ May("rtss_name")
  /\ Return(FALSE)
  /\ UNCHANGED vars_rtss
  /\ RtssUnchanged

LoadNothing ==               \* mutated: the working copy is reused
  /\ At(Worker, "rtss_load")
  /\ profile' = TRUE
  /\ edited' = FALSE
  /\ Goto(Worker, "rtss_denominator")
  /\ UNCHANGED <<rtss_hooks, load_profile, incompatible, writable, working, disk,
                 applied, result>>
  /\ RtssUnchanged

LoadProfile ==
  /\ At(Worker, "rtss_load")
  /\ profile' = TRUE
  /\ working' = disk
  /\ edited' = FALSE
  /\ Goto(Worker, "rtss_denominator")
  /\ UNCHANGED <<rtss_hooks, load_profile, incompatible, writable, disk, applied,
                 result>>
  /\ RtssUnchanged

(* Both properties must be accepted; the first failure returns, and what was  *)
(* already set stays in the working copy only.                                *)
SetDenominator ==
  /\ At(Worker, "rtss_denominator")
  /\ working' = [working EXCEPT !.rate.denominator = 1]
  /\ Goto(Worker, "rtss_limit")
  /\ UNCHANGED <<apiVars, disk, applied, edited, result>>
  /\ RtssUnchanged

SetLimit(fps) ==
  /\ At(Worker, "rtss_limit")
  /\ working' = [working EXCEPT !.rate.limit = fps]
  /\ Goto(Worker, "rtss_save")
  /\ UNCHANGED <<apiVars, disk, applied, edited, result>>
  /\ RtssUnchanged

FailureIsSaved ==            \* mutated: a refused property does not stop the save
  /\ At(Worker, "rtss_denominator") \/ At(Worker, "rtss_limit")
  /\ May("rtss_set")
  /\ Goto(Worker, "rtss_save")
  /\ UNCHANGED <<vars_rtss, result>>
  /\ RtssUnchanged
FailureIsSuccess ==          \* mutated: a refused property is reported as set
  /\ At(Worker, "rtss_denominator") \/ At(Worker, "rtss_limit")
  /\ May("rtss_set")
  /\ Return(TRUE)
  /\ UNCHANGED vars_rtss
  /\ RtssUnchanged

SetPropertyFails ==
  /\ At(Worker, "rtss_denominator") \/ At(Worker, "rtss_limit")
  /\ May("rtss_set")
  /\ Return(FALSE)
  /\ UNCHANGED vars_rtss
  /\ RtssUnchanged

(* SaveProfile reports nothing, so a file that cannot be written goes         *)
(* unnoticed.                                                                 *)
SaveProfile ==
  /\ At(Worker, "rtss_save")
  /\ disk' = IF writable THEN working ELSE disk
  /\ Goto(Worker, "rtss_update")
  /\ UNCHANGED <<apiVars, working, applied, edited, result>>
  /\ RtssUnchanged

UpdateProfiles ==
  /\ At(Worker, "rtss_update")
  /\ applied' = disk
  /\ Return(TRUE)
  /\ UNCHANGED <<apiVars, working, disk, edited>>
  /\ RtssUnchanged

RtssStep(fps) ==
  \/ Initialize \/ ProfileNameFails \/ LoadProfile
  \/ SetDenominator \/ SetLimit(fps) \/ SetPropertyFails
  \/ SaveProfile \/ UpdateProfiles

-------------------------------------------------------------------------------
(* RTSS itself: it injects its DLL into the game at some point, and its user  *)
(* may edit other properties of the profile at any time.                      *)
RtssInjects ==
  /\ rtss_hooks = "absent"
  /\ rtss_hooks' \in {"old", "current"}
  /\ UNCHANGED <<load_profile, profile, incompatible, writable, working, disk,
                 applied, edited>>

UserEdits ==
  /\ \E other \in Others \ {"default", disk.other} :
       disk' = [disk EXCEPT !.other = other]
  /\ applied' = disk'
  /\ edited' = TRUE
  /\ UNCHANGED <<apiVars, working>>

RtssChanges ==
  /\ RtssInjects \/ UserEdits
  /\ UNCHANGED vars_streamline
===============================================================================
