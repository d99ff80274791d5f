---------------------------- MODULE DropsWatcher ----------------------------
(***************************************************************************)
(* bus_drops_zero of internal/invariants: the one invariant with a memory. *)
(* It scrapes a counter that is summed over its label permutations, keeps  *)
(* the last good reading as its baseline, and records a breach when a      *)
(* reading exceeds the baseline by more than the threshold.                *)
(*                                                                         *)
(* The counter is the cluster's: it grows with every dropped message, and  *)
(* a component that restarts, which is what a chaos run brings about,      *)
(* takes its share of the sum with it.  The ticker is left out (Watcher    *)
(* has it): a round may begin at any time.                                 *)
(***************************************************************************)
EXTENDS Integers

CONSTANTS Threshold,    \* params.threshold
          OldDrops,     \* bound on what the counter shows before the run
          MaxDrops,     \* bound on the drops of the run
          MaxRestarts   \* bound on the restarts of the run

ASSUME DropsAssumption ==
  /\ Threshold \in Nat /\ OldDrops \in Nat
  /\ MaxDrops \in Nat /\ MaxRestarts \in Nat

VARIABLES value,       \* the sum /metrics shows, over all label permutations
          drops,       \* messages dropped since the run began
          restarts,    \* restarts of components so far
          fell,        \* history: what restarts have taken from the sum so far
          ctxDone,
          pc,          \* polling, probing or done
          baseline,    \* local of Run: the last good reading, or NotSampled
          breach,      \* the last round's verdict: none, scrape or growth
          growth,      \* the delta that verdict rests on
          firstDrops, firstFell,  \* history: drops and fell at the first good reading
          lastDrops, lastFell,    \* history: the same at the last good reading
          missed,      \* history: drops between the two readings of the round
          reported,    \* history: the growth breaches' deltas added up
          tolerated    \* history: the deltas within the threshold added up

clusterVars == <<value, drops, restarts, fell>>
markVars == <<firstDrops, firstFell, lastDrops, lastFell>>
readingVars == <<baseline, breach, growth, markVars, missed, reported, tolerated>>
vars == <<clusterVars, ctxDone, pc, readingVars>>

\* The sentinel of the code, "not yet sampled"; a counter is never negative.
NotSampled == -1

Init ==
  /\ value \in 0..OldDrops
  /\ drops = 0 /\ restarts = 0 /\ fell = 0
  /\ ctxDone = FALSE
  /\ pc = "probing"        \* the first round is evaluated at once
  /\ baseline = NotSampled
  /\ breach = "none" /\ growth = 0
  /\ firstDrops = 0 /\ firstFell = 0 /\ lastDrops = 0 /\ lastFell = 0 /\ missed = 0
  /\ reported = 0 /\ tolerated = 0

-----------------------------------------------------------------------------
(* evaluate *)

\* The first good reading becomes the baseline.
FirstReading ==
  /\ pc = "probing" /\ baseline < 0
  /\ baseline' = value
  /\ firstDrops' = drops /\ lastDrops' = drops
  /\ firstFell' = fell /\ lastFell' = fell
  /\ breach' = "none" /\ growth' = 0 /\ missed' = 0
  /\ pc' = "polling"
  /\ UNCHANGED <<clusterVars, ctxDone, reported, tolerated>>

BreachOnAnyLevel(delta) == value > Threshold   \* mutant: the value, not the growth

Exceeds(delta) == delta > Threshold

\* A later reading is compared with the baseline, and replaces it.
LaterReading ==
  /\ pc = "probing" /\ baseline >= 0
  /\ LET delta == value - baseline IN
       /\ growth' = delta
       /\ missed' = drops - lastDrops
       /\ IF Exceeds(delta)
          THEN breach' = "growth" /\ reported' = reported + delta /\ UNCHANGED tolerated
          ELSE breach' = "none" /\ tolerated' = tolerated + delta /\ UNCHANGED reported
  /\ baseline' = value
  /\ lastDrops' = drops /\ lastFell' = fell
  /\ pc' = "polling"
  /\ UNCHANGED <<clusterVars, ctxDone, firstDrops, firstFell>>

BaselineLost == NotSampled   \* mutant: an error returns the sentinel
BaselineZero == 0            \* mutant: an error returns what the scrape returned

\* evaluate hands its baseline back.
AfterError == baseline

\* A scrape error, a missing metric included, is a breach unless the run is
\* over; the baseline stays.
ScrapeFails ==
  /\ pc = "probing"
  /\ baseline' = AfterError
  /\ breach' = (IF ctxDone THEN "none" ELSE "scrape") /\ growth' = 0 /\ missed' = 0
  /\ pc' = "polling"
  /\ UNCHANGED <<clusterVars, ctxDone, markVars, reported, tolerated>>

NextRound ==
  /\ pc = "polling"
  /\ pc' = "probing"
  /\ UNCHANGED <<clusterVars, ctxDone, readingVars>>

Exit ==
  /\ pc = "polling" /\ ctxDone
  /\ pc' = "done"
  /\ UNCHANGED <<clusterVars, ctxDone, readingVars>>

Run == FirstReading \/ LaterReading \/ ScrapeFails \/ NextRound \/ Exit

-----------------------------------------------------------------------------
(* The cluster and the run context *)

Drop ==
  /\ drops < MaxDrops
  /\ value' = value + 1
  /\ drops' = drops + 1
  /\ UNCHANGED <<restarts, fell, ctxDone, pc, readingVars>>

\* A component starts again from zero: the sum loses what it had counted.
Restart ==
  /\ restarts < MaxRestarts
  /\ value' \in 0..value
  /\ fell' = fell + (value - value')
  /\ restarts' = restarts + 1
  /\ UNCHANGED <<drops, ctxDone, pc, readingVars>>

EndRun ==
  /\ ~ctxDone
  /\ ctxDone' = TRUE
  /\ UNCHANGED <<clusterVars, pc, readingVars>>

Terminated == pc = "done" /\ UNCHANGED vars

Next == Run \/ Drop \/ Restart \/ EndRun \/ Terminated

Spec == Init /\ [][Next]_vars

-----------------------------------------------------------------------------
(* Properties *)

TypeOK ==
  /\ value \in Nat
  /\ drops \in 0..MaxDrops /\ restarts \in 0..MaxRestarts /\ fell \in Nat
  /\ ctxDone \in BOOLEAN /\ pc \in {"polling", "probing", "done"}
  /\ baseline \in Nat \cup {NotSampled}
  /\ breach \in {"none", "scrape", "growth"}
  /\ growth \in Int
  /\ firstDrops \in Nat /\ firstFell \in Nat
  /\ lastDrops \in Nat /\ lastFell \in Nat /\ missed \in Nat
  /\ reported \in Nat /\ tolerated \in Int

\* A growth breach is never a false alarm: at least that many messages were
\* dropped since the last good reading, whatever components restarted and
\* whatever the counter stood at before the run (bus_drops_zero.go:8-10).
GrowthIsReal == breach = "growth" => growth > Threshold /\ growth <= missed

\* The breaches and the tolerated deltas account for every drop between the
\* first and the last good reading, those of rounds that could not be scraped
\* included, less exactly what restarts took from the counter between the two.
\* So no drop is claimed twice; none is lost while no component restarts; and
\* a restart hides as many as the counter fell by, never more.
EveryDropAccounted ==
  baseline # NotSampled =>
    /\ reported + tolerated = (lastDrops - firstDrops) - (lastFell - firstFell)
    /\ firstFell <= lastFell
=============================================================================
