-------------------------- MODULE MCSteamAchievement --------------------------
(* Small instances of SteamAchievement: two achievements and an unknown id,   *)
(* lists of up to three entries, and Steam libraries that lack one function   *)
(* or another.                                                                *)
EXTENDS SteamAchievement

CONSTANTS won, tutorial, typo

MCIdLists ==
  BoundedSeq({won, typo, Blank}, 2) \cup
    {<<won, typo, tutorial>>, <<tutorial, Blank, tutorial>>}

MCExportSets == {Exports} \cup {Exports \ {e} : e \in Exports}
===============================================================================
