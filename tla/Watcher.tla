------------------------------- MODULE Watcher -------------------------------
(***************************************************************************)
(* One stateless invariant of internal/invariants: the polling loop that   *)
(* healthy_endpoint, audit_tenant_isolation, zombies_zero and              *)
(* respawn_within_sla share, and the evaluate of each.  The kinds differ   *)
(* in what they probe (a list of URLs or tenants, or one page), in how the *)
(* probes of a round share their time budget, and in what they make of an  *)
(* error.  (bus_drops_zero keeps a baseline: see DropsWatcher.)            *)
(*                                                                         *)
(* The page a target serves is abstracted to what the verdict tells apart: *)
(* it satisfies the rule ("good"), breaks it ("bad": a leaked event, a     *)
(* value over the threshold, a ratio below the minimum, a missing bucket   *)
(* or metric), fails at once ("down") or does not answer ("hung").         *)
(***************************************************************************)
EXTENDS Integers, FiniteSets

CONSTANTS Kinds,        \* the kinds to choose from
          NumTargets,   \* URLs or tenants of a block that lists several
          Windows,      \* the windows to choose from, defaults included
          ClientTimeout,\* the timeout of the http.Client (5 s)
          MaxLeaks,     \* bound on the leaked events of one audit page
          MaxChanges,   \* bound on the changes of the targets
          MaxTime       \* bound on the clock; the run has ended by then

AllKinds == {"healthy_endpoint", "audit_tenant_isolation", "zombies_zero",
             "respawn_within_sla"}

ASSUME WatcherAssumption ==
  /\ Kinds \subseteq AllKinds
  /\ NumTargets \in Nat \ {0} /\ MaxLeaks \in Nat \ {0}
  /\ Windows \subseteq Nat \ {0, 1} /\ ClientTimeout \in Nat \ {0}
  /\ MaxChanges \in Nat /\ MaxTime \in Nat

VARIABLES kind, window, paramsOK,   \* the block
          now, ctxDone,
          pc,               \* starting, probing, polling or done
          nextTick,         \* when the ticker's channel has a tick again
          target,           \* the target being probed
          deadline,         \* when probeCtx expires
          giveUp,           \* when the client gives the probe up
          breaches,         \* what the Recorder got from this watcher
          server,           \* what each target does (external)
          changes,          \* changes of the targets so far
          roundStart,       \* history: when the round began
          sawFault,         \* history: was the probed target at fault meanwhile?
          faultyAllRound,   \* history: the targets at fault since roundStart
          blamed            \* history: the targets with a breach this round

block == <<kind, window, paramsOK>>
roundVars == <<target, deadline, giveUp, breaches, roundStart, blamed>>
serverVars == <<server, changes, sawFault, faultyAllRound>>
vars == <<kind, window, paramsOK, now, ctxDone, pc, nextTick, target, deadline, giveUp, breaches,
          server, changes, roundStart, sawFault, faultyAllRound, blamed>>

Behaviours == {"good", "bad", "down", "hung"}
Targets == 1..NumTargets
Half == window \div 2

\* The targets a round probes, in order.
Last == IF kind \in {"healthy_endpoint", "audit_tenant_isolation"} THEN NumTargets ELSE 1

Init ==
  /\ kind \in Kinds /\ window \in Windows /\ paramsOK \in BOOLEAN
  /\ now = 0 /\ ctxDone = FALSE
  /\ pc = "starting"
  /\ nextTick = 0 /\ target = 1 /\ deadline = 0 /\ giveUp = 0
  /\ breaches = {}
  /\ server \in [Targets -> Behaviours]
  /\ changes = 0
  /\ roundStart = 0 /\ sawFault = FALSE /\ faultyAllRound = {} /\ blamed = {}

-----------------------------------------------------------------------------
(* The loop *)

\* evaluate is called: the first probe, with a context of half a window.
BeginRound ==
  /\ pc' = "probing"
  /\ target' = 1
  /\ deadline' = now + Half
  /\ giveUp' = now + ClientTimeout
  /\ roundStart' = now
  /\ sawFault' = (server[1] # "good")
  /\ faultyAllRound' = {t \in Targets : server[t] # "good"}
  /\ blamed' = {}

RejectParams ==
  /\ pc = "starting" /\ ~paramsOK
  /\ pc' = "done"
  /\ UNCHANGED <<block, now, ctxDone, nextTick, roundVars, serverVars>>

\* The ticker is made and the first round evaluated at once.
StartWatching ==
  /\ pc = "starting" /\ paramsOK
  /\ nextTick' = now + window
  /\ BeginRound
  /\ UNCHANGED <<block, now, ctxDone, breaches, server, changes>>

\* The ticker branch.  The channel holds one tick, those that fall due while
\* it is full are dropped: the next one is on the grid, after now.
NextRound ==
  /\ pc = "polling" /\ now >= nextTick
  /\ nextTick' = nextTick + window * ((now - nextTick) \div window + 1)
  /\ BeginRound
  /\ UNCHANGED <<block, now, ctxDone, breaches, server, changes>>

SeenOnTick == ctxDone /\ now >= nextTick   \* mutant: looked at when a tick comes

\* <-ctx.Done()
CtxSeen == ctxDone

\* The context branch.
Exit ==
  /\ pc = "polling" /\ CtxSeen
  /\ pc' = "done"
  /\ UNCHANGED <<block, now, ctxDone, nextTick, roundVars, serverVars>>

-----------------------------------------------------------------------------
(* evaluate *)

\* probeCtx, derived from the run context, has ended, or the client has had
\* enough.
ProbeCut == ctxDone \/ now >= deadline \/ now >= giveUp

\* What the client call returns, once it does: nothing yet from a hung target.
Answer(t) ==
  IF ProbeCut THEN {"error"}
  ELSE CASE server[t] = "good" -> {"good"}
         [] server[t] = "bad" -> {IF kind = "healthy_endpoint" THEN "error" ELSE "bad"}
         [] server[t] = "down" -> {"error"}
         [] OTHER -> {}

StopsAtFirst(answer) == answer = "error"   \* mutant: any error ends the round

StopsNever(answer) == FALSE                \* mutant: nobody asks ctx.Err()

\* An error after the end of the run is no chaos signal: the round is dropped.
\* healthy_endpoint does not ask.
StopsQuietly(answer) ==
  answer = "error" /\ ctxDone /\ kind # "healthy_endpoint"

\* audit_tenant_isolation gives every tenant a context of its own; the URLs of
\* healthy_endpoint share the one of the round.
BudgetOfRound == deadline       \* mutant: one context per round for every kind

BudgetPerProbe == now + Half    \* mutant: one context per probe for every kind

BudgetOfNextProbe ==
  IF kind = "audit_tenant_isolation" THEN now + Half ELSE deadline

Advance ==
  IF target < Last
  THEN /\ target' = target + 1
       /\ deadline' = BudgetOfNextProbe
       /\ giveUp' = now + ClientTimeout
       /\ sawFault' = (server[target + 1] # "good")
       /\ UNCHANGED pc
  ELSE /\ pc' = "polling"
       /\ UNCHANGED <<target, deadline, giveUp, sawFault>>

BreachFromZero(answer, n) ==    \* mutant: numbers the events of a page from 0
  [target |-> target, cause |-> answer, nth |-> n - 1, genuine |-> sawFault,
   behind |-> blamed, late |-> now >= deadline, afterEnd |-> ctxDone]

\* One breach for an error or a broken rule, one per event for an audit page
\* that leaks several.  What the Recorder does not get is history: whether the
\* target was at fault, which targets of the round were blamed before it, and
\* whether the budget or the run was over.
Breach(answer, n) ==
  [target |-> target, cause |-> answer, nth |-> n, genuine |-> sawFault,
   behind |-> blamed, late |-> now >= deadline, afterEnd |-> ctxDone]

BreachesOf(answer) ==
  LET count == IF answer = "bad" /\ kind = "audit_tenant_isolation" THEN 1..MaxLeaks ELSE {1}
  IN  {{Breach(answer, n) : n \in 1..m} : m \in count}

\* One probe returns: its verdict is recorded and the round goes on.
Probe ==
  /\ pc = "probing"
  /\ \E answer \in Answer(target) :
       IF StopsQuietly(answer)
       THEN /\ pc' = "polling"
            /\ UNCHANGED <<target, deadline, giveUp, breaches, sawFault, blamed>>
       ELSE /\ \/ answer = "good" /\ UNCHANGED <<breaches, blamed>>
               \/ /\ answer # "good"
                  /\ \E found \in BreachesOf(answer) : breaches' = breaches \cup found
                  /\ blamed' = blamed \cup {target}
            /\ Advance
  /\ UNCHANGED <<block, now, ctxDone, nextTick, roundStart, server, changes,
                 faultyAllRound>>

Run == RejectParams \/ StartWatching \/ NextRound \/ Exit \/ Probe

-----------------------------------------------------------------------------
(* The targets, the run context and the clock *)

Change(t) ==
  /\ changes < MaxChanges
  /\ changes' = changes + 1
  /\ \E b \in Behaviours \ {server[t]} :
       /\ server' = [server EXCEPT ![t] = b]
       /\ sawFault' = (sawFault \/ (t = target /\ b # "good"))
       /\ faultyAllRound' = IF b = "good" THEN faultyAllRound \ {t} ELSE faultyAllRound
  /\ UNCHANGED <<block, now, ctxDone, pc, nextTick, roundVars>>

EndRun ==
  /\ ~ctxDone
  /\ ctxDone' = TRUE
  /\ UNCHANGED <<block, now, pc, nextTick, roundVars, serverVars>>

\* An answer that is due arrives within the tick, and so do the expiry of a
\* probe and the start of the goroutine: only a hung probe and the select wait.
Waits == pc \in {"polling", "done"} \/ (pc = "probing" /\ Answer(target) = {})

Clock ==
  /\ now < MaxTime
  /\ Waits
  /\ now' = now + 1
  /\ UNCHANGED <<block, ctxDone, pc, nextTick, roundVars, serverVars>>

Terminated == pc = "done" /\ now = MaxTime /\ UNCHANGED vars

Next == Run \/ (\E t \in Targets : Change(t)) \/ EndRun \/ Clock \/ Terminated

Safety == Init /\ [][Next]_vars

\* The goroutine is scheduled, time passes, the run ends, and a select with
\* the ticker and the context both ready takes the context in the end.
Spec == /\ Safety
        /\ WF_vars(Run) /\ WF_vars(Clock) /\ WF_vars(EndRun) /\ SF_vars(Exit)

-----------------------------------------------------------------------------
(* Properties *)

TypeOK ==
  /\ kind \in Kinds /\ window \in Windows /\ paramsOK \in BOOLEAN
  /\ now \in 0..MaxTime /\ ctxDone \in BOOLEAN
  /\ pc \in {"starting", "probing", "polling", "done"}
  /\ nextTick \in Nat /\ deadline \in Nat /\ giveUp \in Nat
  /\ target \in Targets
  /\ breaches \subseteq [target : Targets, cause : {"error", "bad"}, nth : 1..MaxLeaks,
                         genuine : BOOLEAN, behind : SUBSET Targets,
                         late : BOOLEAN, afterEnd : BOOLEAN]
  /\ server \in [Targets -> Behaviours] /\ changes \in 0..MaxChanges
  /\ roundStart \in 0..MaxTime /\ sawFault \in BOOLEAN
  /\ faultyAllRound \subseteq Targets /\ blamed \subseteq Targets

\* A breach names a target that was at fault while it was probed.  The two
\* exceptions are those of healthy_endpoint, and no more: a probe cut off by the
\* end of the run, and a URL that comes to its turn with the budget of the round
\* used up (healthy_endpoint.go:81-84), which happens only behind one that has
\* been blamed itself.  So a round of good URLs blames nobody while the run lasts.
BlamesTheFaulty ==
  \A b \in breaches :
    b.genuine \/ (kind = "healthy_endpoint" /\ (b.afterEnd \/ (b.late /\ b.behind # {})))

\* The watchers that ask ctx.Err() put no scrape error of a run that is
\* shutting down into the timeline.
NoShutdownNoise ==
  \A b \in breaches : b.cause = "error" /\ b.afterEnd => kind = "healthy_endpoint"

\* Fail closed: a target that was at fault from the beginning of a round to
\* its end has a breach in it, whatever the other targets did to the round.
FailsClosed ==
  pc = "polling" /\ ~ctxDone => {t \in faultyAllRound : t <= Last} \subseteq blamed

\* A round takes at most half a window, so a hung page does not push the next
\* tick; for audit_tenant_isolation it is half a window per tenant, which can.
RoundIsBounded ==
  pc = "probing" =>
    now - roundStart <= Half * (IF kind = "audit_tenant_isolation" THEN target ELSE 1)

\* A watcher whose run has ended returns, even from a page that never answers.
Exits == <>(pc = "done")
=============================================================================
