---------------------- MODULE ScheduledInjectors_proofs ----------------------
(***************************************************************************)
(* Theorems about the injector goroutines, for every set of injectors,     *)
(* every set of schedules and every deadline.  None of them needs the      *)
(* fairness of Spec, so they are stated of Safety and hold wherever the    *)
(* goroutines are embedded, as in a whole run (Orchestrate).               *)
(***************************************************************************)
EXTENDS ScheduledInjectors, TLAPS

-----------------------------------------------------------------------------
(* The inductive invariant: what the journal row, the timer and the fault  *)
(* of an injector are at each step of its goroutine.                       *)

Blank(i) ==
  event[i].appliedAt = Never /\ event[i].revertedAt = Never /\ event[i].detail = ""

BeforeApply(i) ==
  pc[i] \in {"spawned", "armed", "applying"} => Blank(i) /\ ~fault[i]

ApplyTimer(i) ==
  /\ pc[i] \in {"armed", "applying"} => timer[i] >= schedule[i].atOffset
  /\ pc[i] = "applying" => now >= timer[i]

Applied(i) ==
  event[i].appliedAt # Never =>
    schedule[i].atOffset <= event[i].appliedAt /\ event[i].appliedAt <= now

InWindow(i) ==
  pc[i] \in {"window", "reverting", "revertingOnCancel"} =>
    /\ Recoverable(i)
    /\ event[i].appliedAt # Never
    /\ event[i].revertedAt = Never
    /\ timer[i] = event[i].appliedAt + Gap(i)

Leaving(i) ==
  /\ pc[i] = "reverting" => now >= timer[i]
  /\ pc[i] = "revertingOnCancel" => CtxDone

Closed(i) ==
  event[i].revertedAt # Never =>
    /\ pc[i] = "done"
    /\ event[i].appliedAt # Never
    /\ fault[i] => event[i].detail # ""
    /\ \/ event[i].revertedAt >= event[i].appliedAt + Gap(i)
       \/ /\ CtxDone
          /\ event[i].revertedAt >= ctxEndedAt
          /\ event[i].revertedAt >= event[i].appliedAt

Exited(i) ==
  pc[i] = "done" =>
    /\ event[i].appliedAt = Never => Blank(i) /\ ~fault[i]
    /\ event[i].appliedAt # Never /\ Recoverable(i) => event[i].revertedAt # Never

RowInv(i) == /\ BeforeApply(i)
             /\ ApplyTimer(i)
             /\ Applied(i)
             /\ InWindow(i)
             /\ Leaving(i)
             /\ Closed(i)
             /\ Exited(i)

IInv == /\ TypeOK
        /\ ctxEndedAt <= now
        /\ \A i \in Injectors : RowInv(i)

-----------------------------------------------------------------------------
(* Type correctness *)

LEMMA TypeInit == Init => TypeOK
<1> SUFFICES ASSUME Init PROVE TypeOK
  OBVIOUS
<1>1. 0 \in 0..MaxTime
  BY TimeAssumption
<1>2. [appliedAt |-> Never, revertedAt |-> Never, detail |-> ""] \in Rows
  BY DEF Rows, Times, Details
<1>3. event \in [Injectors -> Rows]
  BY <1>2 DEF Init
<1>4. pc \in [Injectors -> Steps]
  BY DEF Init, Steps
<1>5. timer \in [Injectors -> Int]
  <2>1. timer = [i \in Injectors |-> 0]
    BY DEF Init
  <2> QED
    BY <2>1
<1>6. fault \in [Injectors -> BOOLEAN]
  BY DEF Init
<1>7. ctxEndedAt \in Times
  BY DEF Init, Times
<1> QED
  BY <1>1, <1>3, <1>4, <1>5, <1>6, <1>7 DEF Init, TypeOK

\* The fields of a schedule are durations.
LEMMA ScheduleFields ==
  ASSUME schedule \in [Injectors -> Schedules]
  PROVE  \A i \in Injectors : schedule[i].atOffset \in Int /\ Gap(i) \in Int
<1> SUFFICES ASSUME NEW i \in Injectors
             PROVE  schedule[i].atOffset \in Int /\ Gap(i) \in Int
  OBVIOUS
<1>1. schedule[i].atOffset \in Int /\ schedule[i].recoverAt \in Int
  <2>1. ASSUME NEW block \in Schedules
        PROVE  block.atOffset \in Int /\ block.recoverAt \in Int
    BY SchedulesAssumption
  <2> QED
    BY <2>1
<1> QED
  BY <1>1 DEF Gap

\* Every step of a goroutine and of the clock keeps the state well formed.
LEMMA TypeNext == TypeOK /\ [Next]_vars => TypeOK'
<1> SUFFICES ASSUME TypeOK, [Next]_vars PROVE TypeOK'
  OBVIOUS
<1> USE TimeAssumption DEF TypeOK, Steps
<1>0. \A i \in Injectors : schedule[i].atOffset \in Int /\ Gap(i) \in Int
  BY ScheduleFields
<1>1. ASSUME NEW i \in Injectors, Start(i) PROVE TypeOK'
  BY <1>0, <1>1 DEF Start, Moves
<1>2. ASSUME NEW i \in Injectors, CancelBeforeApply(i) PROVE TypeOK'
  BY <1>2 DEF CancelBeforeApply, Moves
<1>3. ASSUME NEW i \in Injectors, CallApply(i) PROVE TypeOK'
  BY <1>3 DEF CallApply, Moves
<1>4. ASSUME NEW i \in Injectors, ApplyReturns(i) PROVE TypeOK'
  <2>1. PICK result \in Results :
          /\ Moves(i, "applying", IF Recoverable(i) THEN "window" ELSE "done")
          /\ timer' = [timer EXCEPT ![i] = IF Recoverable(i) THEN RevertTimer(i) ELSE @]
          /\ markApplied(i, result)
          /\ ApplyEffect(i, result)
          /\ UNCHANGED <<schedule, now, ctxEndedAt>>
    BY <1>4 DEF ApplyReturns
  <2>2. pc' \in [Injectors -> Steps]
    BY <2>1 DEF Moves
  <2>3. timer' \in [Injectors -> Int]
    BY <1>0, <2>1 DEF RevertTimer
  <2>4. event' \in [Injectors -> Rows]
    <3>1. event[i] \in Rows /\ now \in Times
      BY DEF Times
    <3>2. \A j \in Injectors \ {i} : event'[j] = event[j]
      BY <2>1 DEF markApplied
    <3>3. event'[i] \in Rows
      BY <2>1, <3>1 DEF markApplied, Rows, Details
    <3> QED
      BY <2>1, <3>2, <3>3 DEF markApplied
  <2>5. fault' \in [Injectors -> BOOLEAN]
    BY <2>1 DEF ApplyEffect
  <2> QED
    BY <2>1, <2>2, <2>3, <2>4, <2>5
<1>5. ASSUME NEW i \in Injectors, CancelInWindow(i) PROVE TypeOK'
  BY <1>5 DEF CancelInWindow, OnCancel, Moves
<1>6. ASSUME NEW i \in Injectors, CallRevert(i) PROVE TypeOK'
  BY <1>6 DEF CallRevert, Moves
<1>7. ASSUME NEW i \in Injectors, RevertReturns(i) PROVE TypeOK'
  <2>1. PICK result \in Results, from \in {"reverting", "revertingOnCancel"} :
          /\ Moves(i, from, "done")
          /\ markReverted(i, result)
          /\ RevertEffect(i, result)
          /\ UNCHANGED <<schedule, now, ctxEndedAt, timer>>
    BY <1>7 DEF RevertReturns
  <2>2. pc' \in [Injectors -> Steps]
    BY <2>1 DEF Moves
  <2>3. event' \in [Injectors -> Rows]
    <3>1. event[i] \in Rows /\ now \in Times
      BY DEF Times
    <3>2. \A j \in Injectors \ {i} : event'[j] = event[j]
      BY <2>1 DEF markReverted
    <3>3. event'[i] \in Rows
      BY <2>1, <3>1 DEF markReverted, MarkedAt, DetailKept, Rows, Details
    <3> QED
      BY <2>1, <3>2, <3>3 DEF markReverted
  <2>4. fault' \in [Injectors -> BOOLEAN]
    BY <2>1 DEF RevertEffect
  <2> QED
    BY <2>1, <2>2, <2>3, <2>4
<1>8. ASSUME Signal PROVE TypeOK'
  BY <1>8 DEF Signal, goroutineVars, Times
<1>9. ASSUME Tick PROVE TypeOK'
  BY <1>9 DEF Tick, goroutineVars
<1>10. ASSUME UNCHANGED vars PROVE TypeOK'
  BY <1>10 DEF vars
<1> QED
  BY <1>1, <1>2, <1>3, <1>4, <1>5, <1>6, <1>7, <1>8, <1>9, <1>10
     DEF Next, run, DeadlineExpires, Terminated

\* Every state the goroutines reach is well formed.
THEOREM TypeCorrect == Safety => []TypeOK
BY TypeInit, TypeNext, PTL DEF Safety

-----------------------------------------------------------------------------
(* The inductive invariant holds *)

LEMMA InvInit == Init => IInv
<1> SUFFICES ASSUME Init PROVE IInv
  OBVIOUS
<1>1. TypeOK
  BY TypeInit
<1>2. ASSUME NEW i \in Injectors PROVE RowInv(i)
  <2>1. pc[i] = "spawned"
    BY DEF Init
  <2>2. Blank(i)
    BY DEF Init, Blank
  <2>3. ~fault[i]
    BY DEF Init
  <2> QED
    BY <2>1, <2>2, <2>3 DEF RowInv, BeforeApply, Blank, ApplyTimer, Applied,
                            InWindow, Leaving, Closed, Exited
<1>3. ctxEndedAt <= now
  <2>1. ctxEndedAt = -1 /\ now = 0
    BY DEF Init, Never
  <2> QED
    BY <2>1
<1> QED
  BY <1>1, <1>2, <1>3 DEF IInv

\* What a goroutine knows of its own row survives the steps of the others,
\* the passing of time and the end of the context.
LEMMA RowStable ==
  ASSUME TypeOK, TypeOK', ctxEndedAt <= now,
         NEW j \in Injectors, RowInv(j),
         pc'[j] = pc[j], timer'[j] = timer[j], event'[j] = event[j], fault'[j] = fault[j],
         schedule' = schedule, now' >= now,
         ctxEndedAt' = ctxEndedAt \/ (~CtxDone /\ ctxEndedAt' = now)
  PROVE  RowInv(j)'
<1> DEFINE row == event[j]
<1>1. /\ now \in Int /\ now' \in Int /\ now >= 0
      /\ ctxEndedAt \in Int /\ ctxEndedAt' \in Int
  BY TimeAssumption DEF TypeOK, Times, Never
<1>2. row.appliedAt \in Int /\ row.revertedAt \in Int /\ timer[j] \in Int
  BY TimeAssumption DEF TypeOK, Rows, Times, Never
<1>3. schedule[j].atOffset \in Int /\ Gap(j) \in Int
  BY ScheduleFields DEF TypeOK
<1>4. Gap(j)' = Gap(j) /\ Recoverable(j)' = Recoverable(j)
  BY DEF Gap, Recoverable
<1>5. CtxDone => CtxDone' /\ ctxEndedAt' = ctxEndedAt
  BY DEF CtxDone
<1>6. BeforeApply(j)' /\ Blank(j)' = Blank(j)
  BY DEF RowInv, BeforeApply, Blank
<1>7. ApplyTimer(j)' /\ Applied(j)'
  BY <1>1, <1>2, <1>3 DEF RowInv, ApplyTimer, Applied
<1>8. InWindow(j)'
  BY <1>4 DEF RowInv, InWindow
<1>9. Leaving(j)'
  BY <1>1, <1>2, <1>5 DEF RowInv, Leaving
<1>10. Closed(j)'
  BY <1>4, <1>5 DEF RowInv, Closed
<1>11. Exited(j)'
  BY <1>4, <1>6 DEF RowInv, Exited
<1> QED
  BY <1>6, <1>7, <1>8, <1>9, <1>10, <1>11 DEF RowInv

\* Every step of the system preserves the invariant: the row of the goroutine
\* that moves is checked step by step, the others by RowStable.
LEMMA InvNext == IInv /\ [Next]_vars => IInv'
<1> SUFFICES ASSUME IInv, [Next]_vars PROVE IInv'
  OBVIOUS
<1>1. TypeOK /\ TypeOK' /\ ctxEndedAt <= now
  BY TypeNext DEF IInv
<1>2. /\ now \in Int /\ ctxEndedAt \in Int /\ now >= 0
      /\ \A i \in Injectors : /\ event[i].appliedAt \in Int
                               /\ event[i].revertedAt \in Int
                               /\ timer[i] \in Int
                               /\ schedule[i].atOffset \in Int
                               /\ Gap(i) \in Int
  BY <1>1, TimeAssumption, ScheduleFields DEF TypeOK, Rows, Times, Never
<1>3. ASSUME NEW i \in Injectors, RowInv(i)',
             schedule' = schedule, now' = now, ctxEndedAt' = ctxEndedAt,
             \A j \in Injectors \ {i} : /\ pc'[j] = pc[j]
                                       /\ timer'[j] = timer[j]
                                       /\ event'[j] = event[j]
                                       /\ fault'[j] = fault[j]
      PROVE  IInv'
  <2>1. ASSUME NEW j \in Injectors, j # i PROVE RowInv(j)'
    BY <1>1, <1>2, <1>3, <2>1, RowStable DEF IInv
  <2> QED
    BY <1>1, <1>3, <2>1 DEF IInv
<1>4. ASSUME schedule' = schedule, now' >= now,
             ctxEndedAt' = ctxEndedAt \/ (~CtxDone /\ ctxEndedAt' = now),
             UNCHANGED goroutineVars
      PROVE  IInv'
  <2>1. ASSUME NEW j \in Injectors PROVE RowInv(j)'
    BY <1>1, <1>4, RowStable DEF IInv, goroutineVars
  <2>2. now' \in Int
    BY <1>1, TimeAssumption DEF TypeOK
  <2>3. ctxEndedAt' <= now'
    BY <1>1, <1>2, <1>4, <2>2
  <2> QED
    BY <1>1, <2>1, <2>3 DEF IInv
<1>5. ASSUME NEW i \in Injectors, Start(i) PROVE IInv'
  <2>1. /\ pc[i] = "spawned" /\ pc'[i] = "armed"
        /\ timer'[i] = now + schedule[i].atOffset
        /\ event' = event /\ fault' = fault /\ schedule' = schedule
        /\ now' = now /\ ctxEndedAt' = ctxEndedAt
    BY <1>1, <1>5 DEF Start, Moves, TypeOK
  <2>2. Blank(i) /\ ~fault[i] /\ Blank(i)'
    BY <2>1 DEF IInv, RowInv, BeforeApply, Blank
  <2>3. timer'[i] >= schedule[i].atOffset
    BY <1>2, <2>1
  <2>4. RowInv(i)'
    BY <2>1, <2>2, <2>3 DEF RowInv, BeforeApply, Blank, ApplyTimer, Applied,
                            InWindow, Leaving, Closed, Exited
  <2> QED
    BY <1>1, <1>3, <1>5, <2>1, <2>4 DEF Start, Moves, TypeOK
<1>6. ASSUME NEW i \in Injectors, CancelBeforeApply(i) PROVE IInv'
  <2>1. /\ pc[i] = "armed" /\ pc'[i] = "done"
        /\ UNCHANGED <<schedule, now, ctxEndedAt, timer, event, fault>>
    BY <1>1, <1>6 DEF CancelBeforeApply, Moves, TypeOK
  <2>2. Blank(i) /\ ~fault[i] /\ Blank(i)'
    BY <2>1 DEF IInv, RowInv, BeforeApply, Blank
  <2>3. RowInv(i)'
    BY <2>1, <2>2 DEF RowInv, BeforeApply, Blank, ApplyTimer, Applied,
                      InWindow, Leaving, Closed, Exited
  <2> QED
    BY <1>1, <1>3, <1>6, <2>1, <2>3 DEF CancelBeforeApply, Moves, TypeOK
<1>7. ASSUME NEW i \in Injectors, CallApply(i) PROVE IInv'
  <2>1. /\ pc[i] = "armed" /\ pc'[i] = "applying" /\ now >= timer[i]
        /\ UNCHANGED <<schedule, now, ctxEndedAt, timer, event, fault>>
    BY <1>1, <1>7 DEF CallApply, ApplyDue, Moves, TypeOK
  <2>2. Blank(i) /\ ~fault[i] /\ Blank(i)' /\ ApplyTimer(i)
    BY <2>1 DEF IInv, RowInv, BeforeApply, Blank
  <2>3. RowInv(i)'
    BY <2>1, <2>2 DEF RowInv, BeforeApply, Blank, ApplyTimer, Applied,
                      InWindow, Leaving, Closed, Exited
  <2> QED
    BY <1>1, <1>3, <1>7, <2>1, <2>3 DEF CallApply, Moves, TypeOK
<1>8. ASSUME NEW i \in Injectors, ApplyReturns(i) PROVE IInv'
  <2>1. PICK result \in Results :
          /\ Moves(i, "applying", IF Recoverable(i) THEN "window" ELSE "done")
          /\ timer' = [timer EXCEPT ![i] = IF Recoverable(i) THEN RevertTimer(i) ELSE @]
          /\ markApplied(i, result)
          /\ ApplyEffect(i, result)
          /\ UNCHANGED <<schedule, now, ctxEndedAt>>
    BY <1>8 DEF ApplyReturns
  <2>2. PICK holds \in BOOLEAN : fault' = [fault EXCEPT ![i] = holds]
    BY <2>1 DEF ApplyEffect
  <2>3. /\ pc[i] = "applying"
        /\ pc'[i] = IF Recoverable(i) THEN "window" ELSE "done"
        /\ timer'[i] = IF Recoverable(i) THEN now + Gap(i) ELSE timer[i]
    BY <1>1, <2>1 DEF Moves, TypeOK, RevertTimer
  <2>4. event'[i].appliedAt = now /\ event'[i].revertedAt = event[i].revertedAt
    BY <1>1, <2>1 DEF markApplied, TypeOK, Rows
  <2>5. Blank(i) /\ now >= timer[i] /\ timer[i] >= schedule[i].atOffset
    BY <2>3 DEF IInv, RowInv, BeforeApply, ApplyTimer
  <2>6. Gap(i)' = Gap(i) /\ Recoverable(i)' = Recoverable(i)
    BY <2>1 DEF Gap, Recoverable
  <2>7. now # Never
    BY <1>2 DEF Never
  <2>8. now >= schedule[i].atOffset
    BY <1>2, <2>5
  <2>9. RowInv(i)'
    <3>1. Applied(i)'
      BY <1>2, <2>1, <2>4, <2>8 DEF Applied
    <3>2. InWindow(i)'
      BY <2>1, <2>3, <2>4, <2>5, <2>6, <2>7 DEF InWindow, Blank
    <3>3. Closed(i)' /\ Exited(i)'
      BY <2>3, <2>4, <2>5, <2>6, <2>7, <2>1 DEF Closed, Exited, Blank
    <3>4. BeforeApply(i)' /\ ApplyTimer(i)' /\ Leaving(i)'
      BY <2>3 DEF BeforeApply, ApplyTimer, Leaving
    <3> QED
      BY <3>1, <3>2, <3>3, <3>4 DEF RowInv
  <2>10. \A j \in Injectors \ {i} : /\ pc'[j] = pc[j]
                                   /\ timer'[j] = timer[j]
                                   /\ event'[j] = event[j]
                                   /\ fault'[j] = fault[j]
    BY <1>1, <2>1, <2>2 DEF Moves, markApplied, TypeOK
  <2> QED
    BY <1>3, <2>1, <2>9, <2>10
<1>9. ASSUME NEW i \in Injectors, CancelInWindow(i) PROVE IInv'
  <2>1. /\ pc[i] = "window" /\ pc'[i] = "revertingOnCancel" /\ CtxDone
        /\ UNCHANGED <<schedule, now, ctxEndedAt, timer, event, fault>>
    BY <1>1, <1>9 DEF CancelInWindow, CancelSeen, OnCancel, Moves, TypeOK
  <2>2. InWindow(i) /\ Applied(i) /\ Closed(i)
    BY DEF IInv, RowInv
  <2>3. CtxDone' /\ Gap(i)' = Gap(i) /\ Recoverable(i)' = Recoverable(i)
    BY <2>1 DEF CtxDone, Gap, Recoverable
  <2>4. RowInv(i)'
    BY <2>1, <2>2, <2>3 DEF RowInv, BeforeApply, Blank, ApplyTimer, Applied,
                            InWindow, Leaving, Closed, Exited
  <2> QED
    BY <1>1, <1>3, <1>9, <2>1, <2>4 DEF CancelInWindow, Moves, TypeOK
<1>10. ASSUME NEW i \in Injectors, CallRevert(i) PROVE IInv'
  <2>1. /\ pc[i] = "window" /\ pc'[i] = "reverting" /\ now >= timer[i]
        /\ UNCHANGED <<schedule, now, ctxEndedAt, timer, event, fault>>
    BY <1>1, <1>10 DEF CallRevert, Moves, TypeOK
  <2>2. InWindow(i) /\ Applied(i) /\ Closed(i)
    BY DEF IInv, RowInv
  <2>3. Gap(i)' = Gap(i) /\ Recoverable(i)' = Recoverable(i)
    BY <2>1 DEF Gap, Recoverable
  <2>4. RowInv(i)'
    BY <2>1, <2>2, <2>3 DEF RowInv, BeforeApply, Blank, ApplyTimer, Applied,
                            InWindow, Leaving, Closed, Exited
  <2> QED
    BY <1>1, <1>3, <1>10, <2>1, <2>4 DEF CallRevert, Moves, TypeOK
<1>11. ASSUME NEW i \in Injectors, RevertReturns(i) PROVE IInv'
  <2>1. PICK result \in Results, from \in {"reverting", "revertingOnCancel"} :
          /\ Moves(i, from, "done")
          /\ markReverted(i, result)
          /\ RevertEffect(i, result)
          /\ UNCHANGED <<schedule, now, ctxEndedAt, timer>>
    BY <1>11 DEF RevertReturns
  <2>2. pc[i] \in {"reverting", "revertingOnCancel"} /\ pc'[i] = "done"
    BY <1>1, <2>1 DEF Moves, TypeOK
  <2>3. /\ event'[i].appliedAt = event[i].appliedAt
        /\ event'[i].revertedAt = now
        /\ result = "error" => event'[i].detail # ""
    BY <1>1, <2>1 DEF markReverted, MarkedAt, DetailKept, TypeOK, Rows
  <2>4. fault'[i] => result = "error"
    BY <1>1, <2>1 DEF RevertEffect, TypeOK
  <2>5. /\ Recoverable(i) /\ event[i].appliedAt # Never
        /\ timer[i] = event[i].appliedAt + Gap(i)
        /\ pc[i] = "reverting" => now >= timer[i]
        /\ pc[i] = "revertingOnCancel" => CtxDone
        /\ schedule[i].atOffset <= event[i].appliedAt /\ event[i].appliedAt <= now
    BY <2>2 DEF IInv, RowInv, InWindow, Leaving, Applied
  <2>6. Gap(i)' = Gap(i) /\ Recoverable(i)' = Recoverable(i) /\ CtxDone' = CtxDone
    BY <2>1 DEF Gap, Recoverable, CtxDone
  <2>7. now # Never
    BY <1>2 DEF Never
  <2>8. RowInv(i)'
    <3>1. Applied(i)'
      BY <2>1, <2>3, <2>5 DEF Applied
    <3>2. \/ now >= event[i].appliedAt + Gap(i)
          \/ CtxDone /\ now >= ctxEndedAt /\ now >= event[i].appliedAt
      BY <1>1, <1>2, <2>2, <2>5
    <3>3. Closed(i)'
      BY <2>1, <2>2, <2>3, <2>4, <2>5, <2>6, <3>2 DEF Closed
    <3>4. Exited(i)'
      BY <2>3, <2>5, <2>7 DEF Exited
    <3>5. BeforeApply(i)' /\ ApplyTimer(i)' /\ InWindow(i)' /\ Leaving(i)'
      BY <2>2 DEF BeforeApply, ApplyTimer, InWindow, Leaving
    <3> QED
      BY <3>1, <3>3, <3>4, <3>5 DEF RowInv
  <2>9. \A j \in Injectors \ {i} : /\ pc'[j] = pc[j]
                                  /\ timer'[j] = timer[j]
                                  /\ event'[j] = event[j]
                                  /\ fault'[j] = fault[j]
    BY <1>1, <2>1 DEF Moves, markReverted, RevertEffect, TypeOK
  <2> QED
    BY <1>3, <2>1, <2>8, <2>9
<1>12. ASSUME Signal PROVE IInv'
  BY <1>2, <1>4, <1>12 DEF Signal
<1>13. ASSUME Tick PROVE IInv'
  BY <1>2, <1>4, <1>13 DEF Tick
<1>14. ASSUME UNCHANGED vars PROVE IInv'
  BY <1>2, <1>4, <1>14 DEF vars, goroutineVars
<1> QED
  BY <1>5, <1>6, <1>7, <1>8, <1>9, <1>10, <1>11, <1>12, <1>13, <1>14
     DEF Next, run, DeadlineExpires, Terminated

\* The invariant holds in every reachable state.
THEOREM Invariance == Safety => []IInv
BY InvInit, InvNext, PTL DEF Safety

-----------------------------------------------------------------------------
(* The properties the runs check *)

\* No goroutine leaves a fault the report does not account for.
THEOREM NoSilentFaultHolds == Safety => []NoSilentFault
<1>1. IInv => NoSilentFault
  BY DEF IInv, RowInv, Exited, Closed, Blank, NoSilentFault
<1> QED
  BY <1>1, Invariance, PTL

\* Every recoverable fault that was applied is reverted before its goroutine
\* exits.
THEOREM HealedByExitHolds == Safety => []HealedByExit
<1>1. IInv => HealedByExit
  BY DEF IInv, RowInv, Exited, Closed, HealedByExit
<1> QED
  BY <1>1, Invariance, PTL

\* The window of a fault is the schedule's, or the end of the run cut it.
THEOREM WindowKeptHolds == Safety => []WindowKept
<1>1. IInv => WindowKept
  BY DEF IInv, RowInv, Applied, Closed, WindowKept
<1> QED
  BY <1>1, Invariance, PTL

\* One goroutine writes a row, and writes each field of it once.
THEOREM JournalIsFinalHolds == Safety => JournalIsFinal
<1> DEFINE Final == \A i \in Injectors :
       /\ event[i].appliedAt # Never => event'[i].appliedAt = event[i].appliedAt
       /\ event[i].revertedAt # Never => event'[i] = event[i]
       /\ event[i].detail # "" => event'[i].detail = event[i].detail
<1>1. IInv /\ [Next]_vars => Final
  <2> SUFFICES ASSUME IInv, [Next]_vars, NEW j \in Injectors
               PROVE  /\ event[j].appliedAt # Never => event'[j].appliedAt = event[j].appliedAt
                      /\ event[j].revertedAt # Never => event'[j] = event[j]
                      /\ event[j].detail # "" => event'[j].detail = event[j].detail
    OBVIOUS
  <2> DEFINE Kept == event'[j] = event[j]
  <2>1. ASSUME NEW i \in Injectors, ApplyReturns(i)
        PROVE  Kept \/ Blank(j)
    <3>1. PICK result \in Results :
            pc[i] = "applying" /\ markApplied(i, result)
      BY <2>1 DEF ApplyReturns, Moves
    <3>2. CASE i = j
      BY <3>1, <3>2 DEF IInv, RowInv, BeforeApply
    <3>3. CASE i # j
      BY <3>1, <3>3 DEF markApplied, IInv, TypeOK
    <3> QED
      BY <3>2, <3>3
  <2>2. ASSUME NEW i \in Injectors, RevertReturns(i)
        PROVE  \/ Kept
               \/ /\ event[j].revertedAt = Never
                  /\ event'[j].appliedAt = event[j].appliedAt
                  /\ event[j].detail # "" => event'[j].detail = event[j].detail
    <3>1. PICK result \in Results :
            pc[i] \in {"reverting", "revertingOnCancel"} /\ markReverted(i, result)
      BY <2>2 DEF RevertReturns, Moves
    <3>2. CASE i = j
      <4>1. event[j].revertedAt = Never
        BY <3>1, <3>2 DEF IInv, RowInv, InWindow
      <4> QED
        BY <3>1, <3>2, <4>1 DEF markReverted, DetailKept, IInv, TypeOK, Rows
    <3>3. CASE i # j
      BY <3>1, <3>3 DEF markReverted, IInv, TypeOK
    <3> QED
      BY <3>2, <3>3
  <2>3. ASSUME event' = event PROVE Kept
    BY <2>3
  <2> QED
    BY <2>1, <2>2, <2>3 DEF Blank, Next, run, Start, CancelBeforeApply, CallApply,
       CancelInWindow, CallRevert, Signal, DeadlineExpires, Tick, Terminated,
       goroutineVars, vars
<1> QED
  BY <1>1, Invariance, PTL DEF Safety, JournalIsFinal

-----------------------------------------------------------------------------
(* The goroutines implement the safety part of FaultWindow *)

LEMMA PhaseExtension ==
  ASSUME NEW i \in Injectors, NEW p,
         PhaseOf(i)' = p,
         \A j \in Injectors \ {i} : PhaseOf(j)' = PhaseOf(j)
  PROVE  phase' = [phase EXCEPT ![i] = p]
BY DEF phase

LEMMA RefinesInit == Init => FW!Init
<1> SUFFICES ASSUME Init PROVE FW!Init
  OBVIOUS
<1>1. \A i \in Injectors : PhaseOf(i) = "pending" /\ event[i].appliedAt = -1
  BY DEF Init, PhaseOf, Never
<1>2. CtxDone = FALSE
  BY DEF Init, CtxDone
<1> QED
  BY <1>1, <1>2 DEF Init, FW!Init, phase, openedAt

LEMMA RefinesNext == IInv /\ [Next]_vars => [FW!Next]_FW!abstractVars
<1> SUFFICES ASSUME IInv, [Next]_vars PROVE [FW!Next]_FW!abstractVars
  OBVIOUS
<1>1. TypeOK
  BY DEF IInv
<1>2. ASSUME schedule' = schedule, now' = now, ctxEndedAt' = ctxEndedAt, event' = event,
             \A i \in Injectors : pc'[i] = pc[i] \/ (pc[i] # "done" /\ pc'[i] # "done")
                                               \/ event[i].appliedAt # Never
      PROVE  UNCHANGED FW!abstractVars
  <2>1. \A i \in Injectors : PhaseOf(i)' = PhaseOf(i)
    BY <1>2 DEF PhaseOf
  <2>2. phase' = phase /\ openedAt' = openedAt
    BY <1>2, <2>1 DEF phase, openedAt
  <2>3. CtxDone' = CtxDone
    BY <1>2 DEF CtxDone
  <2> QED
    BY <1>2, <2>2, <2>3 DEF FW!abstractVars
<1>3. ASSUME NEW i \in Injectors,
             \/ Start(i) \/ CallApply(i) \/ CancelInWindow(i) \/ CallRevert(i)
      PROVE  UNCHANGED FW!abstractVars
  <2>1. \A j \in Injectors : pc'[j] = pc[j] \/ (pc[j] # "done" /\ pc'[j] # "done")
    BY <1>1, <1>3
       DEF Start, CallApply, CancelInWindow, OnCancel, CallRevert, Moves, TypeOK
  <2> QED
    BY <1>2, <1>3, <2>1 DEF Start, CallApply, CancelInWindow, CallRevert
<1>4. ASSUME NEW i \in Injectors, CancelBeforeApply(i) PROVE FW!Skip(i)
  <2>1. /\ CtxDone /\ pc[i] = "armed" /\ pc' = [pc EXCEPT ![i] = "done"]
        /\ UNCHANGED <<schedule, now, ctxEndedAt, event>>
    BY <1>4 DEF CancelBeforeApply, Moves
  <2>2. PhaseOf(i) = "pending" /\ PhaseOf(i)' = "skipped"
    BY <1>1, <2>1 DEF PhaseOf, IInv, RowInv, BeforeApply, Blank, TypeOK
  <2>3. \A j \in Injectors \ {i} : PhaseOf(j)' = PhaseOf(j)
    BY <1>1, <2>1 DEF PhaseOf, TypeOK
  <2>4. phase' = [phase EXCEPT ![i] = "skipped"] /\ phase[i] = "pending"
    BY <2>2, <2>3, PhaseExtension DEF phase
  <2>5. openedAt' = openedAt /\ CtxDone' = CtxDone
    BY <2>1 DEF openedAt, CtxDone
  <2> QED
    BY <2>1, <2>4, <2>5 DEF FW!Skip
<1>5. ASSUME NEW i \in Injectors, ApplyReturns(i) PROVE FW!Open(i)
  <2>1. PICK result \in Results :
          /\ pc[i] = "applying" /\ pc' = [pc EXCEPT ![i] = IF Recoverable(i) THEN "window" ELSE "done"]
          /\ markApplied(i, result)
          /\ UNCHANGED <<schedule, now, ctxEndedAt>>
    BY <1>5 DEF ApplyReturns, Moves
  <2>2. event'[i].appliedAt = now /\ event'[i].revertedAt = event[i].revertedAt
    BY <1>1, <2>1 DEF markApplied, TypeOK, Rows
  <2>3. now # Never /\ now \in Int /\ timer[i] \in Int /\ schedule[i].atOffset \in Int
    BY <1>1, TimeAssumption, ScheduleFields DEF TypeOK, Never
  <2>4. Blank(i) /\ now >= timer[i] /\ timer[i] >= schedule[i].atOffset
    BY <2>1 DEF IInv, RowInv, BeforeApply, ApplyTimer
  <2>5. PhaseOf(i) = "pending" /\ PhaseOf(i)' = "open"
    BY <2>1, <2>2, <2>3, <2>4 DEF PhaseOf, Blank
  <2>6. \A j \in Injectors \ {i} : event'[j] = event[j] /\ PhaseOf(j)' = PhaseOf(j)
    BY <1>1, <2>1 DEF PhaseOf, markApplied, TypeOK
  <2>7. phase' = [phase EXCEPT ![i] = "open"] /\ phase[i] = "pending"
    BY <2>5, <2>6, PhaseExtension DEF phase
  <2>8. openedAt' = [openedAt EXCEPT ![i] = now]
    BY <2>2, <2>6 DEF openedAt
  <2>9. CtxDone' = CtxDone
    BY <2>1 DEF CtxDone
  <2>10. now >= schedule[i].atOffset
    BY <2>3, <2>4
  <2> QED
    BY <2>1, <2>7, <2>8, <2>9, <2>10 DEF FW!Open
<1>6. ASSUME NEW i \in Injectors, RevertReturns(i) PROVE FW!Close(i)
  <2>1. PICK result \in Results :
          /\ pc[i] \in {"reverting", "revertingOnCancel"} /\ pc' = [pc EXCEPT ![i] = "done"]
          /\ markReverted(i, result)
          /\ UNCHANGED <<schedule, now, ctxEndedAt>>
    BY <1>6 DEF RevertReturns, Moves
  <2>2. event'[i].revertedAt = now /\ event'[i].appliedAt = event[i].appliedAt
    BY <1>1, <2>1 DEF markReverted, MarkedAt, TypeOK, Rows
  <2>3. now # Never
    BY <1>1, TimeAssumption DEF TypeOK, Never
  <2>4. /\ Recoverable(i) /\ event[i].appliedAt # Never /\ event[i].revertedAt = Never
        /\ CtxDone \/ now >= event[i].appliedAt + Gap(i)
    BY <2>1 DEF IInv, RowInv, InWindow, Leaving
  <2>5. PhaseOf(i) = "open" /\ PhaseOf(i)' = "closed"
    BY <2>2, <2>3, <2>4 DEF PhaseOf
  <2>6. \A j \in Injectors \ {i} : event'[j] = event[j] /\ PhaseOf(j)' = PhaseOf(j)
    BY <1>1, <2>1 DEF PhaseOf, markReverted, TypeOK
  <2>7. phase' = [phase EXCEPT ![i] = "closed"] /\ phase[i] = "open"
    BY <2>5, <2>6, PhaseExtension DEF phase
  <2>8. openedAt' = openedAt /\ openedAt[i] = event[i].appliedAt
    BY <2>2, <2>6 DEF openedAt
  <2>9. CtxDone' = CtxDone
    BY <2>1 DEF CtxDone
  <2>10. FW!Closes(i) /\ FW!Gap(i) = Gap(i)
    BY <2>4 DEF FW!Closes, FW!Gap, Recoverable, Gap
  <2> QED
    BY <2>1, <2>4, <2>7, <2>8, <2>9, <2>10 DEF FW!Close
<1>7. ASSUME Signal PROVE FW!Stop
  <2>1. /\ CtxDone = FALSE /\ CtxDone' = TRUE
    BY <1>1, <1>7, TimeAssumption DEF Signal, CtxDone, TypeOK, Never
  <2>2. \A i \in Injectors : PhaseOf(i)' = PhaseOf(i)
    BY <1>7 DEF Signal, PhaseOf, goroutineVars
  <2>3. phase' = phase /\ openedAt' = openedAt
    BY <1>7, <2>2 DEF phase, openedAt, Signal, goroutineVars
  <2> QED
    BY <1>7, <2>1, <2>3 DEF FW!Stop, Signal
<1>8. ASSUME Tick PROVE FW!Advance
  <2>1. \A i \in Injectors : PhaseOf(i)' = PhaseOf(i)
    BY <1>8 DEF Tick, PhaseOf, goroutineVars
  <2>2. phase' = phase /\ openedAt' = openedAt /\ CtxDone' = CtxDone
    BY <1>8, <2>1 DEF phase, openedAt, CtxDone, Tick, goroutineVars
  <2> QED
    BY <1>8, <2>2 DEF FW!Advance, Tick
<1>9. ASSUME UNCHANGED vars PROVE UNCHANGED FW!abstractVars
  BY <1>2, <1>9 DEF vars
<1> QED
  BY <1>3, <1>4, <1>5, <1>6, <1>7, <1>8, <1>9
     DEF Next, run, DeadlineExpires, Terminated, FW!Next

\* Whatever the goroutines do, read off the journal, is a behaviour of the
\* abstract fault window.
THEOREM Refinement == Safety => FW!Safety
BY RefinesInit, RefinesNext, Invariance, PTL DEF Safety, FW!Safety
=============================================================================
