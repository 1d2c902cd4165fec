-------------------------- MODULE MCDynamicFpsLimit --------------------------
(* Small instances of DynamicFpsLimit. Frame rates are real ones; the game    *)
(* owns one or two options objects that differ in everything.                 *)
EXTENDS DynamicFpsLimit, TLC

CONSTANTS game1, game2, object1, object2

MCGameOptions ==
  [o \in Objects |->
     IF o = object1
       THEN [limit |-> 5000, settings |-> "boost", next |-> "game_chain",
             version |-> 2]
       ELSE [limit |-> 0, settings |-> "off", next |-> "null", version |-> 1]]

GameSymmetry == Permutations(GameThreads)

MCInitialRate == [limit |-> 119, denominator |-> 2]
===============================================================================
