----------------------------- MODULE LimitedSetter -----------------------------
(* What a limiter promises of slReflexSetOptions while it overrides the frame *)
(* limit of the game. An intercepted call does three things, however many     *)
(* steps it takes: it chooses the limit that is set at that moment, delivers  *)
(* that one, and is over. If Serial, one call at a time does, so that limits  *)
(* are delivered in the order in which they were set and none comes back. A   *)
(* call that passes the hook by delivers what it finds in the object, which   *)
(* can be the limit of an intercepted call that uses the same object. Calls   *)
(* leave the objects as the game wrote them.                                  *)
EXTENDS Naturals

CONSTANTS
  Threads,      \* that call
  Objects,      \* the options objects of the game
  Serial        \* does one intercepted call at a time reach the driver?

VARIABLES
  limit,        \* the limit that is set
  objects,      \* the limit that the game wrote in each object
  held,         \* of each thread: what its call, if any, has chosen
  driver        \* the limit that the driver accepted, and by which way

Init ==
  /\ limit \in Nat
  /\ objects \in [Objects -> Nat]
  /\ held = [t \in Threads |-> {}]
  /\ driver.via = "none"

SetLimit == limit' \in Nat /\ UNCHANGED <<objects, held, driver>>

GameWrites ==
  /\ objects' \in [Objects -> Nat]
  /\ \E o \in Objects : \A other \in Objects \ {o} : objects'[other] = objects[other]
  /\ UNCHANGED <<limit, held, driver>>

Choose(t) ==
  /\ held[t] = {}
  /\ Serial => \A u \in Threads : held[u] = {}
  /\ held' = [held EXCEPT ![t] = {[limit |-> limit, delivered |-> FALSE]}]
  /\ UNCHANGED <<limit, objects, driver>>

(* The driver may refuse.                                                     *)
Deliver(t) ==
  /\ \E choice \in held[t] :
       /\ ~choice.delivered
       /\ driver' \in {driver, [limit |-> choice.limit, via |-> "hook"]}
       /\ held' = [held EXCEPT ![t] = {[limit |-> choice.limit, delivered |-> TRUE]}]
  /\ UNCHANGED <<limit, objects>>

Finish(t) ==
  /\ \E choice \in held[t] : choice.delivered
  /\ held' = [held EXCEPT ![t] = {}]
  /\ UNCHANGED <<limit, objects, driver>>

PassBy ==
  /\ \E n \in {objects[o] : o \in Objects} \cup
             {choice.limit : choice \in UNION {held[t] : t \in Threads}} :
       driver' = [limit |-> n, via |-> "direct"]
  /\ UNCHANGED <<limit, objects, held>>

Next ==
  \/ SetLimit \/ GameWrites \/ PassBy
  \/ \E t \in Threads : Choose(t) \/ Deliver(t) \/ Finish(t)

Spec == Init /\ [][Next]_<<limit, objects, held, driver>>
===============================================================================
