------------------------- MODULE DropsWatcher_proofs -------------------------
(***************************************************************************)
(* Proofs about bus_drops_zero for every threshold, every history of the   *)
(* counter and any number of drops and restarts.                           *)
(*                                                                         *)
(* Neither property is inductive as it stands: what a later reading says   *)
(* rests on how far the counter has moved since the last one, whether a    *)
(* round reads it or not.  CounterFollowsDrops says that.                  *)
(***************************************************************************)
EXTENDS DropsWatcher, TLAPS

\* Since the last good reading the counter, with what restarts have taken from
\* it, has gained one per drop.
CounterFollowsDrops ==
  /\ firstDrops <= lastDrops /\ lastDrops <= drops
  /\ firstFell <= lastFell /\ lastFell <= fell
  /\ baseline # NotSampled => (value + fell) + lastDrops = (baseline + lastFell) + drops

\* Nothing is reported or tolerated before there is a baseline.
SilentBeforeBaseline ==
  baseline = NotSampled => reported = 0 /\ tolerated = 0

IInv ==
  /\ TypeOK
  /\ CounterFollowsDrops
  /\ SilentBeforeBaseline
  /\ GrowthIsReal
  /\ EveryDropAccounted

\* The state the watcher starts in, before its first round.
LEMMA InvInit == Init => IInv
<1> SUFFICES ASSUME Init PROVE IInv
  OBVIOUS
<1>1. value \in Nat
  BY DropsAssumption DEF Init
<1>2. TypeOK
  <2>1. drops \in 0..MaxDrops
    BY DropsAssumption DEF Init
  <2>2. restarts \in 0..MaxRestarts
    BY DropsAssumption DEF Init
  <2>3. ctxDone \in BOOLEAN /\ pc \in {"polling", "probing", "done"}
    BY DEF Init
  <2>4. baseline \in Nat \cup {NotSampled} /\ breach \in {"none", "scrape", "growth"}
    BY DEF Init
  <2>5. /\ growth \in Int /\ firstDrops \in Nat /\ lastDrops \in Nat /\ missed \in Nat
        /\ fell \in Nat /\ firstFell \in Nat /\ lastFell \in Nat
        /\ reported \in Nat /\ tolerated \in Int
    BY DEF Init
  <2>6. QED BY <1>1, <2>1, <2>2, <2>3, <2>4, <2>5 DEF TypeOK
<1>3. baseline = NotSampled /\ breach = "none" /\ reported = 0 /\ tolerated = 0
      /\ firstDrops = 0 /\ lastDrops = 0 /\ drops = 0
      /\ firstFell = 0 /\ lastFell = 0 /\ fell = 0
  BY DEF Init
<1>4. QED
  BY <1>2, <1>3 DEF IInv, CounterFollowsDrops, SilentBeforeBaseline, GrowthIsReal,
                    EveryDropAccounted

\* What the counter loses in a restart, the fall has gained.
LEMMA RestartStep ==
  ASSUME IInv, Restart PROVE IInv'
<1>1. /\ value' \in 0..value /\ fell' = fell + (value - value')
      /\ restarts < MaxRestarts /\ restarts' = restarts + 1
      /\ UNCHANGED <<drops, ctxDone, pc, baseline, breach, growth, firstDrops, firstFell,
                     lastDrops, lastFell, missed, reported, tolerated>>
  BY DEF Restart, readingVars, markVars
<1>2. /\ TypeOK /\ CounterFollowsDrops /\ SilentBeforeBaseline /\ GrowthIsReal
      /\ EveryDropAccounted
      /\ value \in Nat /\ fell \in Nat /\ lastFell \in Nat /\ restarts \in Nat
      /\ MaxRestarts \in Nat /\ baseline \in Int /\ drops \in Nat /\ lastDrops \in Nat
  BY DropsAssumption DEF IInv, TypeOK, NotSampled
<1>3. value' \in Nat /\ value' <= value
  BY <1>1, <1>2
<1>4. fell' \in Nat /\ fell <= fell' /\ value' + fell' = value + fell
  <2>1. \A v, w, f \in Nat : w <= v =>
          f + (v - w) \in Nat /\ f <= f + (v - w) /\ w + (f + (v - w)) = v + f
    OBVIOUS
  <2>2. fell' = fell + (value - value') /\ value \in Nat /\ fell \in Nat
    BY <1>1, <1>2
  <2>3. QED BY <1>3, <2>1, <2>2
<1>5. TypeOK'
  <2>1. restarts' \in 0..MaxRestarts
    BY <1>1, <1>2
  <2>2. QED BY <1>1, <1>2, <1>3, <1>4, <2>1 DEF TypeOK
<1>6. CounterFollowsDrops'
  <2>1. lastFell <= fell'
    BY <1>2, <1>4 DEF CounterFollowsDrops
  <2>2. QED BY <1>1, <1>2, <1>4, <2>1 DEF CounterFollowsDrops
<1>7. SilentBeforeBaseline' /\ GrowthIsReal' /\ EveryDropAccounted'
  BY <1>1, <1>2 DEF SilentBeforeBaseline, GrowthIsReal, EveryDropAccounted
<1>8. QED BY <1>5, <1>6, <1>7 DEF IInv

\* Every round of the watcher, and every step of the cluster under it, keeps
\* the invariant.
LEMMA InvNext == IInv /\ [Next]_vars => IInv'
<1> USE DropsAssumption
    DEF IInv, TypeOK, CounterFollowsDrops, SilentBeforeBaseline, GrowthIsReal,
        EveryDropAccounted, NotSampled, clusterVars, markVars, readingVars
<1> SUFFICES ASSUME IInv, [Next]_vars PROVE IInv'
  OBVIOUS
<1>1. CASE FirstReading
  BY <1>1 DEF FirstReading
<1>2. CASE LaterReading
  <2> DEFINE delta == value - baseline
  <2>1. /\ baseline' = value /\ value' = value
        /\ drops' = drops /\ lastDrops' = drops /\ firstDrops' = firstDrops
        /\ fell' = fell /\ lastFell' = fell /\ firstFell' = firstFell
        /\ restarts' = restarts
        /\ growth' = delta /\ missed' = drops - lastDrops
        /\ ctxDone' = ctxDone /\ pc' = "polling"
    BY <1>2 DEF LaterReading
  <2>2. /\ delta \in Int /\ delta = (drops - lastDrops) - (fell - lastFell)
        /\ delta <= drops - lastDrops
    BY <1>2 DEF LaterReading
  <2>3. CASE delta > Threshold
    <3>1. breach' = "growth" /\ reported' = reported + delta /\ tolerated' = tolerated
      BY <1>2, <2>3 DEF LaterReading, Exceeds
    <3>2. QED BY <1>2, <2>1, <2>2, <2>3, <3>1 DEF LaterReading
  <2>4. CASE ~(delta > Threshold)
    <3>1. breach' = "none" /\ tolerated' = tolerated + delta /\ reported' = reported
      BY <1>2, <2>4 DEF LaterReading, Exceeds
    <3>2. QED BY <1>2, <2>1, <2>2, <2>4, <3>1 DEF LaterReading
  <2>5. QED BY <2>3, <2>4
<1>3. CASE ScrapeFails
  BY <1>3 DEF ScrapeFails, AfterError
<1>4. CASE NextRound \/ Exit
  BY <1>4 DEF NextRound, Exit
<1>5. CASE Drop
  BY <1>5 DEF Drop
<1>6. CASE Restart
  BY <1>6, RestartStep
<1>7. CASE EndRun
  BY <1>7 DEF EndRun
<1>8. CASE UNCHANGED vars
  BY <1>8 DEF vars
<1>9. QED
  BY <1>1, <1>2, <1>3, <1>4, <1>5, <1>6, <1>7, <1>8 DEF Next, Run, Terminated

\* The inductive invariant holds throughout every run.
THEOREM Invariance == Spec => []IInv
<1>1. QED BY InvInit, InvNext, PTL DEF Spec

\* Every variable keeps to its values: the sums the verdicts rest on are never
\* negative, however often components restart.
THEOREM TypeCorrect == Spec => []TypeOK
<1>1. IInv => TypeOK BY DEF IInv
<1>2. QED BY <1>1, Invariance, PTL

\* A growth breach of bus_drops_zero is never a false alarm, whatever the
\* counter stood at before the run and however components restart under it.
THEOREM GrowthIsRealHolds == Spec => []GrowthIsReal
<1>1. IInv => GrowthIsReal BY DEF IInv
<1>2. QED BY <1>1, Invariance, PTL

\* Of the drops between the first and the last good reading the breaches and
\* the tolerated deltas miss exactly what restarts took from the counter, and
\* claim none twice.
THEOREM EveryDropAccountedHolds == Spec => []EveryDropAccounted
<1>1. IInv => EveryDropAccounted BY DEF IInv
<1>2. QED BY <1>1, Invariance, PTL
=============================================================================
