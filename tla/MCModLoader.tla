------------------------------ MODULE MCModLoader ------------------------------
(* Small instances of ModLoader: two files of every kind and a real DLL that  *)
(* lacks one of the forwarded functions.                                      *)
EXTENDS ModLoader

CONSTANTS a, b, f, g

MCExportsOf == [dll \in Dlls |-> IF dll = "alt" THEN {f} ELSE {f, g}]
===============================================================================
