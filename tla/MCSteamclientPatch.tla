-------------------------- MODULE MCSteamclientPatch --------------------------
(* Small instances of SteamclientPatch.                                       *)
EXTENDS SteamclientPatch

CONSTANTS t1, t2, t3, a1, a2, a3
===============================================================================
