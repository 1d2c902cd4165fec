------------------------------- MODULE RecordLog -------------------------------
(* What the mod_log callback promises to the threads that call it: a log of   *)
(* whole records. Each call writes its own record, once, at some moment       *)
(* before it returns; records are never changed or taken back. When the       *)
(* process ends, the records of the calls in progress are lost.               *)
EXTENDS Sequences

CONSTANTS Threads, Messages

VARIABLES
  log,          \* the records, each the set of what is written in it
  pending,      \* what the call of each thread, if any, has still to write
  ended

Init ==
  /\ log = <<>>
  /\ pending = [t \in Threads |-> {}]
  /\ ended = FALSE

Call(t) ==
  /\ ~ended
  /\ pending[t] = {}
  /\ \E m \in Messages : pending' = [pending EXCEPT ![t] = {m}]
  /\ UNCHANGED <<log, ended>>

Write(t) ==
  /\ ~ended
  /\ \E m \in pending[t] : log' = Append(log, {<<t, m>>})
  /\ pending' = [pending EXCEPT ![t] = {}]
  /\ UNCHANGED ended

End ==
  /\ ended' = TRUE
  /\ pending' = [t \in Threads |-> {}]
  /\ UNCHANGED log

Next == End \/ \E t \in Threads : Call(t) \/ Write(t)

Spec == Init /\ [][Next]_<<log, pending, ended>>
===============================================================================
