------------------------- MODULE MCPatchedSteamclient -------------------------
(* The tool and the mod together: rdata_patch makes steamclient6p.dll before  *)
(* the game is started, of any of the files, and the game is played with the  *)
(* copy of one of them, whose patch went well.                                *)
EXTENDS MCSteamclientPatch, MCRdataPatch

Steamclient ==
  [len |-> 168, lfanew |-> 64, signature |-> TRUE, count |-> 2, opt |-> 0,
   sections |-> [k \in 0..1 |-> [name |-> IF k = 0 THEN "other" ELSE ".rdata",
                                 chars |-> {"READ"}]]]

BothInit == Init /\ InitTool

PatchFile == makeRdataWritable /\ UNCHANGED vars

Play == tool = "success" /\ file = Steamclient /\ Next /\ UNCHANGED toolVars

PatchAndPlay ==
  /\ BothInit
  /\ [][PatchFile \/ Play]_<<vars, toolVars>>
  /\ Fairness
===============================================================================
