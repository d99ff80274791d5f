------------------------- MODULE ScheduledInjectors -------------------------
(***************************************************************************)
(* The injector goroutines of internal/orchestrate/orchestrate.go:         *)
(* scheduledInjector.run and the injectorEvent journal it fills, one       *)
(* goroutine per injector block, all on one run context and one clock; and *)
(* what the three kinds of internal/injectors check before they act.       *)
(*                                                                         *)
(* A Go timer is ready from its deadline on, and a goroutine may be        *)
(* delayed as long as the scheduler likes, so a step guarded by a timer is *)
(* enabled at its deadline and at any time after it.  A select with the    *)
(* context and the timer both ready takes either branch: both steps are    *)
(* then enabled.                                                           *)
(*                                                                         *)
(* A definition marked "mutant" is no part of the specification: it is a   *)
(* plausible bug in the definition after it, there to confirm that a       *)
(* property notices.                                                       *)
(***************************************************************************)
EXTENDS Integers

CONSTANTS Injectors,   \* the injector blocks of the scenario
          Schedules,   \* what a block can say
          Duration,    \* --duration: when the run context expires
          MaxTime      \* bound on the clock, for TLC

\* Beside its times a block has a selector, which names an az or does not, and
\* one parameter its kind looks at: unset, a known value or another one.
ASSUME SchedulesAssumption ==
  /\ Schedules \subseteq [atOffset : Int, recoverAt : Int, hasRecover : BOOLEAN,
                           kind : {"host_cordon", "network_partition", "process_kill"},
                           az : BOOLEAN, param : {"", "known", "unknown"}]
  /\ Schedules # {}

ASSUME TimeAssumption == Duration \in Nat /\ MaxTime \in Nat /\ Duration <= MaxTime

VARIABLES schedule,    \* schedule[i]: the parsed block i
          now,         \* the clock, in ticks since the run was armed
          ctxEndedAt,  \* when the run context ended, or Never
          pc,          \* where the goroutine of i is
          timer,       \* deadline of the timer i waits for
          event,       \* the journal row of i: appliedAt, revertedAt, detail
          fault        \* does the fault of i hold in the cluster? (external)

goroutineVars == <<pc, timer, event, fault>>
vars == <<schedule, now, ctxEndedAt, pc, timer, event, fault>>

\* The zero time.Time of a journal field nobody has set, and of a context
\* that still runs.
Never == -1

CtxDone == ctxEndedAt # Never

Gap(i) == schedule[i].recoverAt - schedule[i].atOffset

\* run returns after Apply unless recover_at is set and lies after at_offset.
Recoverable(i) == schedule[i].hasRecover /\ Gap(i) > 0

Results == {"ok", "error"}
Details == {"", "Apply", "Revert"}
Times == {Never} \cup 0..MaxTime
Rows == [appliedAt : Times, revertedAt : Times, detail : Details]
Steps == {"spawned", "armed", "applying", "window",
          "reverting", "revertingOnCancel", "done"}

Init ==
  /\ schedule \in [Injectors -> Schedules]
  /\ now = 0
  /\ ctxEndedAt = Never
  /\ pc = [i \in Injectors |-> "spawned"]
  /\ timer = [i \in Injectors |-> 0]
  /\ event = [i \in Injectors |->
                [appliedAt |-> Never, revertedAt |-> Never, detail |-> ""]]
  /\ fault = [i \in Injectors |-> FALSE]

-----------------------------------------------------------------------------
(* The journal: markApplied and markReverted, both under the row's mutex.  *)

markApplied(i, result) ==
  event' = [event EXCEPT ![i].appliedAt = now,
                         ![i].detail = IF result = "error" THEN "Apply" ELSE @]

MarkedAtDeadline(i) == timer[i]        \* mutant: the deadline of the timer

\* time.Now, after the call
MarkedAt(i) == now

DetailDropped(detail, result) == detail                     \* mutant: drops the error
DetailReplaced(detail, result) ==                           \* mutant: replaces the first
  IF result = "error" THEN "Revert" ELSE detail

\* The first error of a row is kept: a failing Revert does not replace the
\* text of a failed Apply.
DetailKept(detail, result) ==
  IF result = "error" /\ detail = "" THEN "Revert" ELSE detail

markReverted(i, result) ==
  event' = [event EXCEPT ![i].revertedAt = MarkedAt(i),
                         ![i].detail = DetailKept(@, result)]

-----------------------------------------------------------------------------
(* What a call does to the cluster.  The kinds are scaffolds that check    *)
(* their block and log; what the calls they stand for will do is taken     *)
(* from the interface: an Apply that fails may have taken effect or not, a *)
(* Revert that fails leaves the fault as it is.                            *)

\* Every kind wants an az; the mode of a partition is drop or reject, the
\* signal of a kill KILL, TERM or INT, and either has a default.
Refused(i) ==
  \/ ~schedule[i].az
  \/ schedule[i].kind # "host_cordon" /\ schedule[i].param = "unknown"

\* There is no un-kill: whoever supervises the process starts it again, and
\* the Revert of a kill is a mark in the journal.
Lasts(i) == schedule[i].kind # "process_kill"

\* A block is refused before anything is done to the cluster.
ApplyEffect(i, result) ==
  /\ Refused(i) => result = "error"
  /\ \E holds \in (IF Refused(i) \/ ~Lasts(i) THEN {FALSE}
                   ELSE IF result = "ok" THEN {TRUE} ELSE BOOLEAN) :
       fault' = [fault EXCEPT ![i] = holds]

RevertEffect(i, result) ==
  fault' = [fault EXCEPT ![i] = @ /\ result = "error"]

-----------------------------------------------------------------------------
Moves(i, from, to) == pc[i] = from /\ pc' = [pc EXCEPT ![i] = to]

\* applyT := time.NewTimer(s.atOffset)
Start(i) ==
  /\ Moves(i, "spawned", "armed")
  /\ timer' = [timer EXCEPT ![i] = now + schedule[i].atOffset]
  /\ UNCHANGED <<schedule, now, ctxEndedAt, event, fault>>

\* First select, context branch: the injector never fires.
CancelBeforeApply(i) ==
  /\ CtxDone
  /\ Moves(i, "armed", "done")
  /\ UNCHANGED <<schedule, now, ctxEndedAt, timer, event, fault>>

ApplyDueAtOnce(i) == TRUE   \* mutant: does not wait for at_offset

\* applyT.C
ApplyDue(i) == now >= timer[i]

\* First select, timer branch: s.inj.Apply(ctx) is called.
CallApply(i) ==
  /\ ApplyDue(i)
  /\ Moves(i, "armed", "applying")
  /\ UNCHANGED <<schedule, now, ctxEndedAt, timer, event, fault>>

RevertTimerFromStart(i) == schedule[i].recoverAt   \* mutant: ignores a late Apply

\* revertT := time.NewTimer(gap)
RevertTimer(i) == now + Gap(i)

\* Apply returns; its error is journalled and logged, and stops nothing.
ApplyReturns(i) ==
  \E result \in Results :
    /\ Moves(i, "applying", IF Recoverable(i) THEN "window" ELSE "done")
    /\ timer' = [timer EXCEPT ![i] = IF Recoverable(i) THEN RevertTimer(i) ELSE @]
    /\ markApplied(i, result)
    /\ ApplyEffect(i, result)
    /\ UNCHANGED <<schedule, now, ctxEndedAt>>

ReturnOnCancel(i) == "done"       \* mutant: returns as the first select does
OnCancel(i) == "revertingOnCancel"

CancelSeenOnceDue(i) == CtxDone /\ now >= timer[i]   \* mutant: sleeps through it
CancelSeen(i) == CtxDone

\* Second select, context branch: revert anyway, on context.Background().
CancelInWindow(i) ==
  /\ CancelSeen(i)
  /\ Moves(i, "window", OnCancel(i))
  /\ UNCHANGED <<schedule, now, ctxEndedAt, timer, event, fault>>

\* Second select, timer branch: Revert is called on the run context.
CallRevert(i) ==
  /\ now >= timer[i]
  /\ Moves(i, "window", "reverting")
  /\ UNCHANGED <<schedule, now, ctxEndedAt, timer, event, fault>>

RevertReturns(i) ==
  \E result \in Results, from \in {"reverting", "revertingOnCancel"} :
    /\ Moves(i, from, "done")
    /\ markReverted(i, result)
    /\ RevertEffect(i, result)
    /\ UNCHANGED <<schedule, now, ctxEndedAt, timer>>

run(i) == \/ Start(i)
          \/ CancelBeforeApply(i)
          \/ CallApply(i)
          \/ ApplyReturns(i)
          \/ CancelInWindow(i)
          \/ CallRevert(i)
          \/ RevertReturns(i)

-----------------------------------------------------------------------------
(* The run context of doRun: SIGINT/SIGTERM at any time, or the deadline.  *)

Signal ==
  /\ ~CtxDone
  /\ ctxEndedAt' = now
  /\ UNCHANGED <<schedule, now, goroutineVars>>

DeadlineExpires ==
  /\ now >= Duration
  /\ Signal

Tick ==
  /\ now < MaxTime
  /\ now' = now + 1
  /\ UNCHANGED <<schedule, ctxEndedAt, goroutineVars>>

AllDone == \A i \in Injectors : pc[i] = "done"

\* Every goroutine has exited and the clock is at its bound.
Terminated == AllDone /\ CtxDone /\ now = MaxTime /\ UNCHANGED vars

Next == \/ \E i \in Injectors : run(i)
        \/ Signal
        \/ DeadlineExpires
        \/ Tick
        \/ Terminated

\* Apply and Revert return, the scheduler runs every goroutine that can
\* move, time passes and the deadline of context.WithTimeout fires.
Fairness == /\ \A i \in Injectors : WF_vars(run(i))
            /\ WF_vars(Tick)
            /\ WF_vars(DeadlineExpires)

Safety == Init /\ [][Next]_vars

Spec == Safety /\ Fairness

-----------------------------------------------------------------------------
(* Properties *)

TypeOK ==
  /\ schedule \in [Injectors -> Schedules]
  /\ now \in 0..MaxTime
  /\ ctxEndedAt \in Times
  /\ pc \in [Injectors -> Steps]
  /\ timer \in [Injectors -> Int]
  /\ event \in [Injectors -> Rows]
  /\ fault \in [Injectors -> BOOLEAN]

\* A goroutine that has exited leaves no fault behind that the report does
\* not account for: the block is permanent by its schedule, or its row
\* carries the error that explains the fault.  This is what reverting on
\* cancel (lines 254-263) and the order of the journal writes are for.
NoSilentFault ==
  \A i \in Injectors :
    pc[i] = "done" /\ fault[i] =>
      /\ event[i].appliedAt # Never
      /\ ~Recoverable(i) \/ event[i].detail # ""

\* A recoverable block that was applied, even with an error, has been
\* reverted by the time its goroutine exits, whatever branch either select
\* took and whenever the context ended.
HealedByExit ==
  \A i \in Injectors :
    /\ pc[i] = "done" /\ Recoverable(i) /\ event[i].appliedAt # Never
         => event[i].revertedAt # Never
    /\ event[i].revertedAt # Never => event[i].appliedAt # Never

\* The two times of a row bound the window: not opened before at_offset, and
\* shorter than recover_at - at_offset only if the run context had ended when
\* the window closed.
WindowKept ==
  \A i \in Injectors :
    LET row == event[i] IN
    /\ row.appliedAt # Never => row.appliedAt >= schedule[i].atOffset
    /\ row.revertedAt # Never =>
         \/ row.revertedAt >= row.appliedAt + Gap(i)
         \/ CtxDone /\ row.revertedAt >= ctxEndedAt /\ row.revertedAt >= row.appliedAt

\* The report's rows are written once: no step ever moves a time that is set,
\* clears a detail or replaces one error by another.
JournalIsFinal ==
  [][\A i \in Injectors :
       /\ event[i].appliedAt # Never => event'[i].appliedAt = event[i].appliedAt
       /\ event[i].revertedAt # Never => event'[i] = event[i]
       /\ event[i].detail # "" => event'[i].detail = event[i].detail]_vars

\* The run context ends, and from then on every goroutine exits: wg.Wait
\* cannot hang on an injector.
Drains == <>AllDone

-----------------------------------------------------------------------------
(* The promise of FaultWindow, read off the journal. *)

PhaseOf(i) ==
  IF event[i].revertedAt # Never THEN "closed"
  ELSE IF event[i].appliedAt # Never THEN "open"
  ELSE IF pc[i] = "done" THEN "skipped"
  ELSE "pending"

phase == [i \in Injectors |-> PhaseOf(i)]

openedAt == [i \in Injectors |-> event[i].appliedAt]

FW == INSTANCE FaultWindow WITH stopped <- CtxDone

\* The goroutines implement the abstract fault window, fairness included.
ImplementsFaultWindow == FW!Spec

-----------------------------------------------------------------------------
(* What the repository's text says and the code does not do. *)

\* orchestrate.go:83-86, "injectors call their Revert() handler (if AtOffset
\* already fired)", and :255-256: a block that names a recover_at is reverted
\* before its goroutine exits.
RevertedIfRecoverAtSet ==
  \A i \in Injectors :
    pc[i] = "done" /\ schedule[i].hasRecover /\ event[i].appliedAt # Never
      => event[i].revertedAt # Never
=============================================================================
