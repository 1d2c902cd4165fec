--------------------------- MODULE MCReflexFpsLimit ---------------------------
(* Small instances of ReflexFpsLimit. With most texts of config.ini the game  *)
(* is one without Streamline, where the worker goes no further than to its    *)
(* search; with the others it is played.                                      *)
EXTENDS ReflexFpsLimit

CONSTANTS
  t1, t2, o1, o2,
  DenseFps,       \* every rate from 0 to this one is a text,
  LargeFps,       \* and these rates, around the boundaries
  PlayedTexts     \* the texts with which the game has Streamline

MCTexts == (0..DenseFps) \cup LargeFps \cup {Invalid}

Played == text \in PlayedTexts /\ Next

WithoutStreamline ==
  /\ text \notin PlayedTexts
  /\ \/ WorkerStep
     \/ pc[Worker] \in {"find", "stopped", "failed"} /\ UNCHANGED vars

PlayedOrNot == Init /\ [][Played \/ WithoutStreamline]_vars /\ Fairness
===============================================================================
