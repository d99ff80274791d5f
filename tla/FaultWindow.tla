----------------------------- MODULE FaultWindow -----------------------------
(***************************************************************************)
(* What one injector block of a scenario promises, with nothing of how the *)
(* goroutine of orchestrate.go keeps the promise: a fault window that      *)
(* opens at most once and not before at_offset, that a recoverable         *)
(* schedule closes exactly once, early only when the run is stopped, and   *)
(* that a stopped run leaves settled.                                      *)
(***************************************************************************)
EXTENDS Integers

CONSTANTS Injectors,     \* the injector blocks of the scenario
          Schedules      \* the schedules a block can carry

VARIABLES schedule,      \* schedule[i]: at_offset and recover_at of block i
          now,           \* the clock, in ticks since the run was armed
          stopped,       \* has the run context ended?
          phase,         \* pending, open, closed or skipped
          openedAt       \* when the window of i opened, once it has

abstractVars == <<schedule, now, stopped, phase, openedAt>>

Phases == {"pending", "open", "closed", "skipped"}

Gap(i) == schedule[i].recoverAt - schedule[i].atOffset

\* A block whose window is meant to close.
Closes(i) == schedule[i].hasRecover /\ Gap(i) > 0

Init == /\ schedule \in [Injectors -> Schedules]
        /\ now = 0
        /\ stopped = FALSE
        /\ phase = [i \in Injectors |-> "pending"]
        /\ openedAt = [i \in Injectors |-> -1]

Open(i) ==
  /\ phase[i] = "pending"
  /\ now >= schedule[i].atOffset
  /\ phase' = [phase EXCEPT ![i] = "open"]
  /\ openedAt' = [openedAt EXCEPT ![i] = now]
  /\ UNCHANGED <<schedule, now, stopped>>

Skip(i) ==
  /\ phase[i] = "pending"
  /\ stopped
  /\ phase' = [phase EXCEPT ![i] = "skipped"]
  /\ UNCHANGED <<schedule, now, stopped, openedAt>>

Close(i) ==
  /\ phase[i] = "open"
  /\ Closes(i)
  /\ stopped \/ now >= openedAt[i] + Gap(i)
  /\ phase' = [phase EXCEPT ![i] = "closed"]
  /\ UNCHANGED <<schedule, now, stopped, openedAt>>

Stop ==
  /\ ~stopped
  /\ stopped' = TRUE
  /\ UNCHANGED <<schedule, now, phase, openedAt>>

Advance ==
  /\ now' = now + 1
  /\ UNCHANGED <<schedule, stopped, phase, openedAt>>

Next == \/ \E i \in Injectors : Open(i) \/ Skip(i) \/ Close(i)
        \/ Stop
        \/ Advance

Safety == Init /\ [][Next]_abstractVars

\* A stopped run settles: it cannot stay between "due to be skipped" and
\* skipped, nor between "due to be closed" and closed.
Spec == Safety /\ \A i \in Injectors : /\ WF_abstractVars(Skip(i))
                                       /\ WF_abstractVars(Close(i))
=============================================================================
