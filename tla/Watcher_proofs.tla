---------------------------- MODULE Watcher_proofs ----------------------------
(***************************************************************************)
(* Theorems about the polling invariants, for every kind, window and       *)
(* number of targets.  What they rest on is timing: a target that behaves  *)
(* answers within the tick it is asked, so a probe of one that has been    *)
(* good all along has not moved the clock (InTime), and the clock never    *)
(* passes the budget of a probe (Budget).                                  *)
(***************************************************************************)
EXTENDS Watcher, TLAPS

\* A probe whose target has been good since it began is answered in time; the
\* budget healthy_endpoint shares may have been used up before it began, but
\* then by a URL that has been blamed.
InTime ==
  pc = "probing" /\ ~sawFault =>
    /\ server[target] = "good"
    /\ now < giveUp
    /\ kind # "healthy_endpoint" \/ blamed = {} => now < deadline

\* A probe does not outlive its budget, nor the budgets the share of a round.
Budget ==
  pc = "probing" =>
    /\ target <= Last
    /\ now <= deadline
    /\ deadline <= roundStart + Half * (IF kind = "audit_tenant_isolation" THEN target ELSE 1)

\* The targets the round is past have been judged.
Judged ==
  /\ \A t \in faultyAllRound : server[t] # "good"
  /\ pc = "probing" /\ ~ctxDone => \A t \in faultyAllRound : t < target => t \in blamed

IInv == TypeOK /\ InTime /\ Budget /\ Judged /\ BlamesTheFaulty /\ NoShutdownNoise /\ FailsClosed

-----------------------------------------------------------------------------
LEMMA Shares ==
  ASSUME TypeOK
  PROVE  /\ window \in Nat /\ Half \in Nat /\ Half >= 1
         /\ Last \in Targets /\ 1 \in Targets /\ 1 <= Last
         /\ Half * 1 = Half
         /\ \A n \in Nat : Half * (n + 1) = Half * n + Half
<1>1. window \in Nat /\ window >= 2
  BY WatcherAssumption DEF TypeOK
<1>2. Half \in Nat /\ Half >= 1
  BY <1>1 DEF Half
<1>3. Last \in Targets /\ 1 \in Targets /\ 1 <= Last
  BY WatcherAssumption DEF Last, Targets
<1> HIDE DEF Half
<1>4. \A h \in Nat : h * 1 = h /\ \A n \in Nat : h * (n + 1) = h * n + h
  OBVIOUS
<1> QED
  BY <1>1, <1>2, <1>3, <1>4

\* What an answer says of its target.
LEMMA Answers ==
  ASSUME TypeOK, NEW answer \in Answer(target)
  PROVE  /\ answer \in {"good", "bad", "error"}
         /\ answer = "good" => server[target] = "good" /\ ~ProbeCut
         /\ answer = "bad" => server[target] = "bad"
         /\ answer = "error" => ProbeCut \/ server[target] # "good"
<1>1. server[target] \in Behaviours
  BY DEF TypeOK
<1>2. CASE ProbeCut
  BY <1>2 DEF Answer
<1>3. CASE ~ProbeCut
  BY <1>1, <1>3 DEF Answer, Behaviours
<1> QED
  BY <1>2, <1>3

\* Only a hung target lets the clock move while it is probed.
LEMMA NoAnswer ==
  ASSUME Answer(target) = {}
  PROVE  ~ProbeCut /\ server[target] # "good"
<1>1. ~ProbeCut
  BY DEF Answer
<1> QED
  BY <1>1 DEF Answer

LEMMA InitInv == Init => IInv
<1> SUFFICES ASSUME Init PROVE IInv
  OBVIOUS
<1>1. 0 \in 0..MaxTime /\ 0 \in 0..MaxChanges /\ 1 \in Targets
  BY WatcherAssumption DEF Targets
<1>2. TypeOK
  BY <1>1 DEF Init, TypeOK
<1> QED
  BY <1>2 DEF Init, IInv, InTime, Budget, Judged, BlamesTheFaulty, NoShutdownNoise, FailsClosed

\* A round begins.
LEMMA RoundStep ==
  ASSUME IInv, BeginRound, nextTick' \in Nat,
         UNCHANGED <<block, now, ctxDone, breaches, server, changes>>
  PROVE  IInv'
<1> USE DEF block
<1>1. TypeOK /\ BlamesTheFaulty /\ NoShutdownNoise
  BY WatcherAssumption DEF IInv
<1>2. /\ pc' = "probing" /\ target' = 1 /\ deadline' = now + Half
      /\ giveUp' = now + ClientTimeout /\ roundStart' = now
      /\ sawFault' = (server[1] # "good")
      /\ faultyAllRound' = {t \in Targets : server[t] # "good"} /\ blamed' = {}
  BY DEF BeginRound
<1>3. /\ now \in Nat /\ now \in 0..MaxTime /\ ClientTimeout \in Nat /\ ClientTimeout > 0
      /\ Half' = Half /\ Last' = Last
  BY <1>1, WatcherAssumption DEF TypeOK, Half, Last
<1>4. TypeOK'
  BY <1>1, <1>2, <1>3, Shares DEF TypeOK
<1>5. InTime'
  <2>1. Half \in Nat /\ Half >= 1
    BY <1>1, Shares
  <2>2. now < now + ClientTimeout /\ now < now + Half
    BY <1>3, <2>1
  <2>3. ~sawFault' => server[1] = "good"
    BY <1>2
  <2> QED
    BY <1>2, <2>2, <2>3 DEF InTime
<1>6. Budget'
  BY <1>1, <1>2, <1>3, Shares DEF Budget
<1>7. Judged'
  BY <1>2 DEF Judged, Targets
<1>8. BlamesTheFaulty' /\ NoShutdownNoise' /\ FailsClosed'
  BY <1>1, <1>2 DEF BlamesTheFaulty, NoShutdownNoise, FailsClosed
<1> QED
  BY <1>4, <1>5, <1>6, <1>7, <1>8 DEF IInv

\* A probe returns and its verdict is recorded.
LEMMA VerdictStep ==
  ASSUME IInv, NEW answer \in Answer(target), ~StopsQuietly(answer), pc = "probing",
         \/ answer = "good" /\ UNCHANGED <<breaches, blamed>>
         \/ /\ answer # "good"
            /\ \E found \in BreachesOf(answer) : breaches' = breaches \cup found
            /\ blamed' = blamed \cup {target},
         UNCHANGED <<block, ctxDone>>
  PROVE  /\ breaches' \subseteq [target : Targets, cause : {"error", "bad"}, nth : 1..MaxLeaks,
                                 genuine : BOOLEAN, behind : SUBSET Targets,
                                 late : BOOLEAN, afterEnd : BOOLEAN]
         /\ blamed' \subseteq Targets
         /\ BlamesTheFaulty' /\ NoShutdownNoise'
         /\ ~ctxDone => \A t \in faultyAllRound : t <= target => t \in blamed'
<1>1. /\ TypeOK /\ InTime /\ Judged /\ BlamesTheFaulty /\ NoShutdownNoise
      /\ target \in Targets /\ sawFault \in BOOLEAN /\ ctxDone \in BOOLEAN
      /\ kind' = kind /\ MaxLeaks \in Nat \ {0}
      /\ faultyAllRound \subseteq Targets /\ blamed \subseteq Targets
  BY WatcherAssumption DEF IInv, TypeOK, block
<1>2. /\ answer \in {"good", "bad", "error"}
      /\ answer = "good" => server[target] = "good"
      /\ answer = "bad" => server[target] = "bad"
      /\ answer = "error" => ProbeCut \/ server[target] # "good"
  BY <1>1, Answers
<1>3. answer = "error" /\ ctxDone => kind = "healthy_endpoint"
  BY DEF StopsQuietly
<1>4. CASE answer = "good"
  <2>1. UNCHANGED <<breaches, blamed>>
    BY <1>4
  <2>2. ASSUME ~ctxDone, NEW t \in faultyAllRound, t <= target PROVE t \in blamed
    <3>1. t # target
      BY <1>1, <1>2, <1>4, <2>2 DEF Judged
    <3>2. t \in Nat /\ target \in Nat
      BY <1>1, WatcherAssumption DEF Targets
    <3> QED
      BY <1>1, <2>2, <3>1, <3>2 DEF Judged
  <2> QED
    BY <1>1, <2>1, <2>2 DEF TypeOK, BlamesTheFaulty, NoShutdownNoise
<1>5. CASE answer # "good"
  <2>1. PICK found \in BreachesOf(answer) : breaches' = breaches \cup found
    BY <1>5
  <2>2. blamed' = blamed \cup {target}
    BY <1>5
  <2>3. ASSUME NEW b \in found
        PROVE  /\ b \in [target : Targets, cause : {"error", "bad"}, nth : 1..MaxLeaks,
                         genuine : BOOLEAN, behind : SUBSET Targets,
                         late : BOOLEAN, afterEnd : BOOLEAN]
               /\ b.genuine \/ (kind = "healthy_endpoint"
                                  /\ (b.afterEnd \/ (b.late /\ b.behind # {})))
               /\ b.cause = "error" /\ b.afterEnd => kind = "healthy_endpoint"
    <3>1. PICK m \in 1..MaxLeaks : found = {Breach(answer, n) : n \in 1..m}
      BY <1>1, <2>1 DEF BreachesOf
    <3>2. PICK n \in 1..MaxLeaks : b = Breach(answer, n)
      BY <1>1, <2>3, <3>1
    <3>3. b = [target |-> target, cause |-> answer, nth |-> n, genuine |-> sawFault,
               behind |-> blamed, late |-> now >= deadline, afterEnd |-> ctxDone]
      BY <3>2 DEF Breach
    <3>4. /\ b.target = target /\ b.cause = answer /\ b.nth = n
          /\ (b.genuine <=> sawFault) /\ (b.late <=> now >= deadline)
          /\ b.behind = blamed /\ (b.afterEnd <=> ctxDone)
      BY <3>3
    <3>5. b \in [target : Targets, cause : {"error", "bad"}, nth : 1..MaxLeaks,
                 genuine : BOOLEAN, behind : SUBSET Targets,
                 late : BOOLEAN, afterEnd : BOOLEAN]
      <4>1. answer \in {"error", "bad"} /\ (now >= deadline) \in BOOLEAN
        BY <1>2, <1>5
      <4> QED
        BY <1>1, <3>3, <4>1
    <3>6. sawFault \/ (kind = "healthy_endpoint"
                         /\ (ctxDone \/ (now >= deadline /\ blamed # {})))
      <4>1. CASE ~sawFault
        <5>1. server[target] = "good" /\ now < giveUp
              /\ (kind # "healthy_endpoint" \/ blamed = {} => now < deadline)
          BY <1>1, <4>1 DEF InTime
        <5>2. answer = "error" /\ ProbeCut
          BY <1>2, <1>5, <5>1
        <5>3. now \in Nat /\ giveUp \in Nat /\ deadline \in Nat
          BY <1>1, WatcherAssumption DEF TypeOK
        <5>4. ctxDone \/ now >= deadline
          BY <5>1, <5>2, <5>3 DEF ProbeCut
        <5>5. kind = "healthy_endpoint"
          BY <1>3, <5>1, <5>2, <5>3, <5>4
        <5>6. now >= deadline => blamed # {}
          BY <5>1, <5>3
        <5> QED
          BY <5>4, <5>5, <5>6
      <4> QED
        BY <4>1
    <3> QED
      BY <1>3, <3>4, <3>5, <3>6
  <2>4. ASSUME ~ctxDone, NEW t \in faultyAllRound, t <= target PROVE t \in blamed'
    <3>1. t \in Nat /\ target \in Nat
      BY <1>1, WatcherAssumption DEF Targets
    <3>2. t < target => t \in blamed
      BY <1>1, <2>4 DEF Judged
    <3> QED
      BY <2>2, <2>4, <3>1, <3>2
  <2>5. BlamesTheFaulty' /\ NoShutdownNoise'
    BY <1>1, <2>1, <2>3 DEF BlamesTheFaulty, NoShutdownNoise
  <2> QED
    BY <1>1, <2>1, <2>2, <2>3, <2>4, <2>5 DEF TypeOK
<1> QED
  BY <1>4, <1>5

LEMMA ProbeStep == IInv /\ Probe => IInv'
<1> SUFFICES ASSUME IInv, Probe PROVE IInv'
  OBVIOUS
<1>1. /\ TypeOK /\ InTime /\ Budget /\ Judged /\ BlamesTheFaulty /\ NoShutdownNoise
      /\ pc = "probing" /\ target <= Last
      /\ UNCHANGED <<kind, window, paramsOK, now, ctxDone, nextTick, roundStart, server,
                     changes, faultyAllRound>>
      /\ Half' = Half /\ Last' = Last
  BY DEF Probe, IInv, Budget, block, Half, Last
<1>2. PICK answer \in Answer(target) :
        IF StopsQuietly(answer)
        THEN /\ pc' = "polling"
             /\ UNCHANGED <<target, deadline, giveUp, breaches, sawFault, blamed>>
        ELSE /\ \/ answer = "good" /\ UNCHANGED <<breaches, blamed>>
                \/ /\ answer # "good"
                   /\ \E found \in BreachesOf(answer) : breaches' = breaches \cup found
                   /\ blamed' = blamed \cup {target}
             /\ Advance
  BY DEF Probe
<1>3. CASE StopsQuietly(answer)
  <2>1. pc' = "polling" /\ UNCHANGED <<target, deadline, giveUp, breaches, sawFault, blamed>>
    BY <1>2, <1>3
  <2>2. ctxDone
    BY <1>3 DEF StopsQuietly
  <2>3. TypeOK'
    BY <1>1, <2>1 DEF TypeOK
  <2>4. InTime' /\ Budget' /\ Judged' /\ FailsClosed'
    BY <1>1, <2>1, <2>2 DEF InTime, Budget, Judged, FailsClosed
  <2>5. BlamesTheFaulty' /\ NoShutdownNoise'
    BY <1>1, <2>1 DEF BlamesTheFaulty, NoShutdownNoise
  <2> QED
    BY <2>3, <2>4, <2>5 DEF IInv
<1>4. CASE ~StopsQuietly(answer)
  <2>1. /\ \/ answer = "good" /\ UNCHANGED <<breaches, blamed>>
           \/ /\ answer # "good"
              /\ \E found \in BreachesOf(answer) : breaches' = breaches \cup found
              /\ blamed' = blamed \cup {target}
        /\ Advance
    BY <1>2, <1>4
  <2>2. /\ breaches' \subseteq [target : Targets, cause : {"error", "bad"}, nth : 1..MaxLeaks,
                                genuine : BOOLEAN, behind : SUBSET Targets,
                                late : BOOLEAN, afterEnd : BOOLEAN]
        /\ blamed' \subseteq Targets
        /\ BlamesTheFaulty' /\ NoShutdownNoise'
        /\ ~ctxDone => \A t \in faultyAllRound : t <= target => t \in blamed'
    BY <1>1, <1>4, <2>1, VerdictStep DEF block
  <2>3. /\ now \in Nat /\ target \in Nat /\ Last \in Nat /\ Last <= NumTargets
        /\ deadline \in Nat /\ Half \in Nat /\ Half >= 1
        /\ ClientTimeout \in Nat /\ ClientTimeout > 0 /\ roundStart \in Nat
        /\ faultyAllRound \subseteq Targets /\ NumTargets \in Nat /\ target \in Targets
    <3>1. NumTargets \in Nat /\ ClientTimeout \in Nat /\ ClientTimeout > 0
          /\ MaxTime \in Nat
      BY WatcherAssumption
    <3>2. /\ now \in 0..MaxTime /\ target \in Targets /\ deadline \in Nat
          /\ roundStart \in 0..MaxTime /\ faultyAllRound \subseteq Targets
      BY <1>1 DEF TypeOK
    <3>3. Half \in Nat /\ Half >= 1 /\ Last \in Targets
      BY <1>1, Shares
    <3> HIDE DEF Half, Last
    <3> QED
      BY <3>1, <3>2, <3>3 DEF Targets
  <2>4. CASE target < Last
    <3>1. /\ target' = target + 1 /\ deadline' = BudgetOfNextProbe
          /\ giveUp' = now + ClientTimeout /\ sawFault' = (server[target + 1] # "good")
          /\ pc' = pc
      BY <2>1, <2>4 DEF Advance
    <3>2. deadline' = IF kind = "audit_tenant_isolation" THEN now + Half ELSE deadline
      BY <3>1 DEF BudgetOfNextProbe
    <3>3. target' \in Targets /\ deadline' \in Nat /\ giveUp' \in Nat /\ sawFault' \in BOOLEAN
      BY <2>3, <2>4, <3>1, <3>2 DEF Targets
    <3>4. TypeOK'
      BY <1>1, <2>2, <3>1, <3>3 DEF TypeOK
    <3>5. InTime'
      <4>1. ~sawFault' => server[target'] = "good"
        BY <3>1
      <4>2. now < giveUp'
        BY <2>3, <3>1
      <4>3. kind # "healthy_endpoint" => now < deadline'
        <5>1. Last > 1
          BY <2>3, <2>4 DEF Targets
        <5>2. kind # "healthy_endpoint" => kind = "audit_tenant_isolation"
          BY <5>1 DEF Last
        <5> QED
          BY <2>3, <3>2, <5>2
      <4>4. kind = "healthy_endpoint" /\ blamed' = {} => now < deadline'
        <5> SUFFICES ASSUME kind = "healthy_endpoint", blamed' = {} PROVE now < deadline'
          OBVIOUS
        <5>1. answer = "good"
          BY <2>1
        <5>2. ~ProbeCut
          BY <1>1, <5>1, Answers
        <5> QED
          BY <2>3, <3>2, <5>2 DEF ProbeCut
      <4> QED
        BY <1>1, <4>1, <4>2, <4>3, <4>4 DEF InTime
    <3>6. Budget'
      <4>1. target' <= Last
        BY <2>3, <2>4, <3>1
      <4>2. now <= deadline /\ deadline <= roundStart
              + Half * (IF kind = "audit_tenant_isolation" THEN target ELSE 1)
        BY <1>1 DEF Budget
      <4>3. CASE kind = "audit_tenant_isolation"
        <5>1. Half * (target + 1) = Half * target + Half /\ Half * target \in Nat
          BY <1>1, <2>3, Shares
        <5> HIDE DEF Half
        <5>2. now <= deadline' /\ deadline' <= roundStart + Half * target'
          BY <2>3, <3>1, <3>2, <4>2, <4>3, <5>1
        <5> QED
          BY <1>1, <4>1, <4>3, <5>2 DEF Budget
      <4>4. CASE kind # "audit_tenant_isolation"
        BY <1>1, <3>2, <4>1, <4>2, <4>4 DEF Budget
      <4> QED
        BY <4>3, <4>4
    <3>7. Judged' /\ FailsClosed'
      <4>1. \A t \in faultyAllRound : t \in Nat
        BY <2>3 DEF Targets
      <4>2. \A t \in faultyAllRound : t < target' => t <= target
        BY <2>3, <3>1, <4>1
      <4> QED
        BY <1>1, <2>2, <3>1, <4>2 DEF Judged, FailsClosed
    <3> QED
      BY <2>2, <3>4, <3>5, <3>6, <3>7 DEF IInv
  <2>5. CASE ~(target < Last)
    <3>1. pc' = "polling" /\ UNCHANGED <<target, deadline, giveUp, sawFault>>
      BY <2>1, <2>5 DEF Advance
    <3>2. TypeOK'
      BY <1>1, <2>2, <3>1 DEF TypeOK
    <3>3. InTime' /\ Budget' /\ Judged'
      BY <1>1, <3>1 DEF InTime, Budget, Judged
    <3>4. FailsClosed'
      <4>1. target = Last
        BY <1>1, <2>3, <2>5
      <4> QED
        BY <1>1, <2>2, <4>1 DEF FailsClosed
    <3> QED
      BY <2>2, <3>2, <3>3, <3>4 DEF IInv
  <2> QED
    BY <2>4, <2>5
<1> QED
  BY <1>3, <1>4

LEMMA NextInv == IInv /\ [Next]_vars => IInv'
<1> SUFFICES ASSUME IInv, [Next]_vars PROVE IInv'
  OBVIOUS
<1>1. /\ TypeOK /\ InTime /\ Budget /\ Judged /\ BlamesTheFaulty /\ NoShutdownNoise
      /\ FailsClosed
  BY DEF IInv
<1>2. /\ window \in Nat /\ window > 0 /\ nextTick \in Nat /\ now \in Nat /\ MaxTime \in Nat
      /\ MaxChanges \in Nat
  BY <1>1, WatcherAssumption DEF TypeOK
<1>3. CASE StartWatching
  <2>1. nextTick' = now + window
    BY <1>3 DEF StartWatching
  <2> QED
    BY <1>2, <1>3, <2>1, RoundStep DEF StartWatching
<1>4. CASE NextRound
  <2>1. now >= nextTick /\ nextTick' = nextTick + window * ((now - nextTick) \div window + 1)
    BY <1>4 DEF NextRound
  <2>2. (now - nextTick) \div window + 1 \in Nat
    <3>1. now - nextTick \in Nat
      BY <1>2, <2>1
    <3>2. \A a, d \in Nat : d > 0 => a \div d \in Nat
      OBVIOUS
    <3> QED
      BY <1>2, <3>1, <3>2
  <2>3. nextTick' \in Nat
    <3>1. \A a, b, c \in Nat : a + b * c \in Nat
      OBVIOUS
    <3> QED
      BY <1>2, <2>1, <2>2, <3>1
  <2> QED
    BY <1>4, <2>3, RoundStep DEF NextRound
<1>5. CASE RejectParams \/ Exit
  <2>1. /\ pc' = "done"
        /\ UNCHANGED <<block, now, ctxDone, nextTick, roundVars, serverVars>>
    BY <1>5 DEF RejectParams, Exit
  <2> QED
    BY <1>1, <2>1 DEF IInv, TypeOK, InTime, Budget, Judged, BlamesTheFaulty,
       NoShutdownNoise, FailsClosed, block, roundVars, serverVars
<1>6. CASE Probe
  BY <1>6, ProbeStep
<1>7. ASSUME NEW t \in Targets, Change(t) PROVE IInv'
  <2>1. PICK b \in Behaviours \ {server[t]} :
          /\ server' = [server EXCEPT ![t] = b]
          /\ sawFault' = (sawFault \/ (t = target /\ b # "good"))
          /\ faultyAllRound' = IF b = "good" THEN faultyAllRound \ {t} ELSE faultyAllRound
    BY <1>7 DEF Change
  <2>2. /\ changes < MaxChanges /\ changes' = changes + 1
        /\ UNCHANGED <<kind, window, paramsOK, now, ctxDone, pc, nextTick, target, deadline,
                       giveUp, breaches, roundStart, blamed>>
        /\ Half' = Half /\ Last' = Last
    BY <1>7 DEF Change, block, roundVars, Half, Last
  <2>3. /\ server \in [Targets -> Behaviours] /\ target \in Targets /\ changes \in 0..MaxChanges
        /\ faultyAllRound \subseteq Targets /\ sawFault \in BOOLEAN
    BY <1>1 DEF TypeOK
  <2>4. /\ server' \in [Targets -> Behaviours] /\ changes' \in 0..MaxChanges
        /\ faultyAllRound' \subseteq faultyAllRound /\ sawFault' \in BOOLEAN
    BY <1>2, <2>1, <2>2, <2>3
  <2>5. TypeOK'
    BY <1>1, <2>2, <2>3, <2>4 DEF TypeOK
  <2>6. InTime'
    <3>1. ~sawFault' => ~sawFault /\ (server[target] = "good" => server'[target] = "good")
      BY <2>1, <2>3
    <3> QED
      BY <1>1, <2>2, <3>1 DEF InTime
  <2>7. Budget'
    BY <1>1, <2>2 DEF Budget
  <2>8. Judged'
    <3>1. \A u \in faultyAllRound' : server'[u] # "good"
      BY <1>1, <2>1, <2>3 DEF Judged
    <3> QED
      BY <1>1, <2>2, <2>4, <3>1 DEF Judged
  <2>9. BlamesTheFaulty' /\ NoShutdownNoise' /\ FailsClosed'
    BY <1>1, <2>2, <2>4 DEF BlamesTheFaulty, NoShutdownNoise, FailsClosed
  <2> QED
    BY <2>5, <2>6, <2>7, <2>8, <2>9 DEF IInv
<1>8. CASE EndRun
  <2>1. ctxDone' = TRUE /\ UNCHANGED <<block, now, pc, nextTick, roundVars, serverVars>>
    BY <1>8 DEF EndRun
  <2> QED
    BY <1>1, <2>1 DEF IInv, TypeOK, InTime, Budget, Judged, BlamesTheFaulty,
       NoShutdownNoise, FailsClosed, block, roundVars, serverVars, Half, Last
<1>9. CASE Clock
  <2>1. /\ now < MaxTime /\ now' = now + 1
        /\ UNCHANGED <<kind, window, paramsOK, ctxDone, pc, nextTick, target, deadline, giveUp,
                       breaches, roundStart, blamed, server, changes, sawFault, faultyAllRound>>
        /\ Half' = Half /\ Last' = Last
    BY <1>9 DEF Clock, block, roundVars, serverVars, Half, Last
  <2>2. pc = "probing" => ~ProbeCut /\ server[target] # "good"
    BY <1>9, NoAnswer DEF Clock, Waits
  <2>3. TypeOK'
    <3>1. now' \in 0..MaxTime
      BY <1>2, <2>1
    <3> QED
      BY <1>1, <2>1, <3>1 DEF TypeOK
  <2>4. InTime'
    BY <1>1, <2>1, <2>2 DEF InTime
  <2>5. Budget'
    <3>1. pc = "probing" => now + 1 <= deadline
      BY <1>1, <1>2, <2>2 DEF ProbeCut, TypeOK
    <3> QED
      BY <1>1, <2>1, <3>1 DEF Budget
  <2>6. Judged' /\ BlamesTheFaulty' /\ NoShutdownNoise' /\ FailsClosed'
    BY <1>1, <2>1 DEF Judged, BlamesTheFaulty, NoShutdownNoise, FailsClosed
  <2> QED
    BY <2>3, <2>4, <2>5, <2>6 DEF IInv
<1>10. CASE UNCHANGED vars
  BY <1>1, <1>10 DEF IInv, TypeOK, InTime, Budget, Judged, BlamesTheFaulty,
     NoShutdownNoise, FailsClosed, vars, Half, Last
<1> QED
  BY <1>3, <1>4, <1>5, <1>6, <1>7, <1>8, <1>9, <1>10 DEF Next, Run, Terminated

THEOREM Invariance == Spec => []IInv
BY InitInv, NextInv, PTL DEF Spec, Safety

-----------------------------------------------------------------------------
(* The properties the run checks *)

\* Every variable keeps to its values.
THEOREM TypeCorrect == Spec => []TypeOK
<1>1. IInv => TypeOK
  BY DEF IInv
<1> QED
  BY <1>1, Invariance, PTL

\* A breach names a target that was at fault, but for the two exceptions of
\* healthy_endpoint: a probe cut by the end of the run, and one behind a URL that
\* has been blamed in the same round.
THEOREM BlamesTheFaultyHolds == Spec => []BlamesTheFaulty
<1>1. IInv => BlamesTheFaulty
  BY DEF IInv
<1> QED
  BY <1>1, Invariance, PTL

\* Only healthy_endpoint reports the errors of a run that is shutting down.
THEOREM NoShutdownNoiseHolds == Spec => []NoShutdownNoise
<1>1. IInv => NoShutdownNoise
  BY DEF IInv
<1> QED
  BY <1>1, Invariance, PTL

\* A target at fault for a whole round has a breach in it.
THEOREM FailsClosedHolds == Spec => []FailsClosed
<1>1. IInv => FailsClosed
  BY DEF IInv
<1> QED
  BY <1>1, Invariance, PTL

\* A round keeps to half a window, or to half a window per tenant.
THEOREM RoundIsBoundedHolds == Spec => []RoundIsBounded
<1>1. IInv => RoundIsBounded
  <2> SUFFICES ASSUME IInv, pc = "probing"
               PROVE  now - roundStart <=
                        Half * (IF kind = "audit_tenant_isolation" THEN target ELSE 1)
    BY DEF RoundIsBounded
  <2> DEFINE share == Half * (IF kind = "audit_tenant_isolation" THEN target ELSE 1)
  <2>1. now <= deadline /\ deadline <= roundStart + share
    BY DEF IInv, Budget
  <2>2. TypeOK
    BY DEF IInv
  <2>3. now \in Nat /\ deadline \in Nat /\ roundStart \in Nat /\ target \in Nat
    BY <2>2, WatcherAssumption DEF TypeOK, Targets
  <2>4. share \in Nat
    <3>1. \A a, b \in Nat : a * b \in Nat
      OBVIOUS
    <3>2. Half \in Nat
      BY <2>2, Shares
    <3> HIDE DEF Half
    <3> QED
      BY <2>3, <3>1, <3>2
  <2> HIDE DEF share
  <2>5. now - roundStart <= share
    BY <2>1, <2>3, <2>4
  <2> QED
    BY <2>5 DEF share
<1> QED
  BY <1>1, Invariance, PTL
=============================================================================
