---------------------------- MODULE MCUnityFpsLimit ----------------------------
(* Small instances of UnityFpsLimit: the values that a configuration file     *)
(* cannot spell.                                                              *)
EXTENDS UnityFpsLimit

MCIntMin == -200
MCFpsTexts == {-1, 201, -201, Invalid}
===============================================================================
