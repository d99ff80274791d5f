------------------------------- MODULE Driver -------------------------------
(***************************************************************************)
(* What a run promises of one workload driver to whoever reads its totals, *)
(* with nothing of its ticks, bursts and resources: it makes one call at a *)
(* time, counts each once it has returned, as an error too if it failed,   *)
(* and exits between two calls of a run that has ended.  Agent is how it   *)
(* gets there; Orchestrate counts in two steps.                            *)
(***************************************************************************)
EXTENDS Integers

VARIABLES ended,        \* has the run context ended?
          at,           \* idle, calling or done
          ops, errors   \* the totals

driverVars == <<ended, at, ops, errors>>

Init == ended = FALSE /\ at = "idle" /\ ops = 0 /\ errors = 0

Call ==
  /\ at = "idle"
  /\ at' = "calling"
  /\ UNCHANGED <<ended, ops, errors>>

Return ==
  /\ at = "calling"
  /\ at' = "idle"
  /\ ops' = ops + 1
  /\ errors' \in {errors, errors + 1}
  /\ UNCHANGED ended

Exit ==
  /\ at = "idle" /\ ended
  /\ at' = "done"
  /\ UNCHANGED <<ended, ops, errors>>

End ==
  /\ ~ended
  /\ ended' = TRUE
  /\ UNCHANGED <<at, ops, errors>>

Next == Call \/ Return \/ Exit \/ End

Safety == Init /\ [][Next]_driverVars
=============================================================================
