-------------------------- MODULE Orchestrate_proofs --------------------------
(***************************************************************************)
(* Theorems about a whole run of the harness, for every number of agents,  *)
(* injectors and watchers.  The inductive invariant is built in layers:    *)
(* the shape of the state, who is alive (WaitGroupExact), the breach log   *)
(* and its labels, and what has been copied into the report.  What is      *)
(* needed of the injectors comes from ScheduledInjectors_proofs, of which  *)
(* a run is shown to be a behaviour; each agent is shown to be a Driver.   *)
(***************************************************************************)
EXTENDS Orchestrate, FiniteSetTheorems, FunctionTheorems, TLAPS

\* What is proved of the injectors alone.
Proved == INSTANCE ScheduledInjectors_proofs

\* The assumptions on the constants, the injectors' among them.
LEMMA Constants ==
  /\ IsFiniteSet(Injectors) /\ IsFiniteSet(Agents) /\ IsFiniteSet(Watchers)
  /\ NameOf \in [Watchers -> Names]
  /\ MaxOps \in Nat /\ MaxBreaches \in Nat
  /\ Duration \in Nat /\ MaxTime \in Nat
  /\ \A block \in Schedules : block.atOffset \in Int /\ block.recoverAt \in Int
BY BlocksAssumption, InjectorsAssumption DEF SI!SchedulesAssumption, SI!TimeAssumption

-----------------------------------------------------------------------------
(* The shape of the state *)

Shape ==
  /\ SI!TypeOK
  /\ main \in MainSteps
  /\ wg \in Int
  /\ agent \in [Agents -> AgentSteps]
  /\ ops \in [Agents -> Nat]
  /\ errors \in [Agents -> Nat]
  /\ watcher \in [Watchers -> WatcherSteps]
  /\ breaches \in Seq(Names) /\ Len(breaches) <= MaxBreaches
  /\ counter \in [Names -> Nat]
  /\ result \in {"none", "ok", "error"}
  /\ report = [timelines |-> report.timelines, ops |-> report.ops,
               errors |-> report.errors, rows |-> report.rows,
               summary |-> report.summary]

LEMMA InjectorTypeInit == SI!Init => SI!TypeOK
<1> SUFFICES ASSUME SI!Init PROVE SI!TypeOK
  OBVIOUS
<1>1. [appliedAt |-> SI!Never, revertedAt |-> SI!Never, detail |-> ""] \in SI!Rows
  BY DEF SI!Rows, SI!Times, SI!Details
<1>2. event \in [Injectors -> SI!Rows]
  BY <1>1 DEF SI!Init
<1>3. now \in 0..MaxTime /\ ctxEndedAt \in SI!Times /\ schedule \in [Injectors -> Schedules]
  <2>1. 0 \in 0..MaxTime
    BY Constants
  <2> QED
    BY <2>1 DEF SI!Init, SI!Times
<1>4. pc \in [Injectors -> SI!Steps] /\ fault \in [Injectors -> BOOLEAN]
  BY DEF SI!Init, SI!Steps
<1>5. timer \in [Injectors -> Int]
  <2>1. timer = [i \in Injectors |-> 0]
    BY DEF SI!Init
  <2> QED
    BY <2>1
<1> QED
  BY <1>2, <1>3, <1>4, <1>5 DEF SI!TypeOK

\* One step of an injector: what it may do to the variables of the others.
LEMMA InjectorTypeNext ==
  ASSUME SI!TypeOK, NEW i \in Injectors, SI!run(i) PROVE SI!TypeOK'
<1> USE Constants DEF SI!TypeOK, SI!Steps, SI!Moves
<1>0. schedule[i].atOffset \in Int /\ SI!Gap(i) \in Int /\ now \in SI!Times
  BY DEF SI!Gap, SI!Times
<1>1. CASE SI!Start(i)
  BY <1>0, <1>1 DEF SI!Start
<1>2. CASE SI!CancelBeforeApply(i) \/ SI!CallApply(i) \/ SI!CancelInWindow(i)
             \/ SI!CallRevert(i)
  BY <1>2 DEF SI!CancelBeforeApply, SI!CallApply, SI!CancelInWindow, SI!OnCancel,
              SI!CallRevert
<1>3. CASE SI!ApplyReturns(i)
  <2>1. PICK r \in SI!Results :
          /\ SI!Moves(i, "applying", IF SI!Recoverable(i) THEN "window" ELSE "done")
          /\ timer' = [timer EXCEPT ![i] =
                         IF SI!Recoverable(i) THEN SI!RevertTimer(i) ELSE @]
          /\ SI!markApplied(i, r)
          /\ SI!ApplyEffect(i, r)
          /\ UNCHANGED <<schedule, now, ctxEndedAt>>
    BY <1>3 DEF SI!ApplyReturns
  <2>2. timer' \in [Injectors -> Int] /\ pc' \in [Injectors -> SI!Steps]
    BY <1>0, <2>1 DEF SI!RevertTimer
  <2>3. event' \in [Injectors -> SI!Rows]
    BY <1>0, <2>1 DEF SI!markApplied, SI!Rows, SI!Details
  <2>4. fault' \in [Injectors -> BOOLEAN]
    BY <2>1 DEF SI!ApplyEffect
  <2> QED
    BY <2>1, <2>2, <2>3, <2>4
<1>4. CASE SI!RevertReturns(i)
  <2>1. PICK r \in SI!Results, from \in {"reverting", "revertingOnCancel"} :
          /\ SI!Moves(i, from, "done")
          /\ SI!markReverted(i, r)
          /\ SI!RevertEffect(i, r)
          /\ UNCHANGED <<schedule, now, ctxEndedAt, timer>>
    BY <1>4 DEF SI!RevertReturns
  <2>2. event' \in [Injectors -> SI!Rows]
    BY <1>0, <2>1 DEF SI!markReverted, SI!MarkedAt, SI!DetailKept, SI!Rows, SI!Details
  <2>3. fault' \in [Injectors -> BOOLEAN]
    BY <2>1 DEF SI!RevertEffect
  <2> QED
    BY <2>1, <2>2, <2>3
<1> QED
  BY <1>1, <1>2, <1>3, <1>4 DEF SI!run

LEMMA ClockTypeNext ==
  ASSUME SI!TypeOK, SI!Signal \/ SI!DeadlineExpires \/ SI!Tick PROVE SI!TypeOK'
BY Constants DEF SI!Signal, SI!DeadlineExpires, SI!Tick, SI!TypeOK, SI!Times,
   SI!goroutineVars

\* What the step of an agent and the step of a watcher leave alone.
LEMMA AgentFrame ==
  ASSUME NEW a \in Agents, AgentRun(a)
  PROVE  UNCHANGED <<injectorVars, watcher, recorderVars, mainVars>>
BY DEF AgentRun, AgentDrains, AgentTicks, AgentCountsOp, AgentCountsError

LEMMA WatcherFrame ==
  ASSUME NEW w \in Watchers, WatcherRun(w)
  PROVE  UNCHANGED <<injectorVars, agentVars, mainVars>>
BY DEF WatcherRun, WatcherRejectsParams, WatcherStarts, RoundEnds, AppendBreach,
   CountBreach, NextRound, WatcherExits

LEMMA ShapeInit == Init => Shape
<1> SUFFICES ASSUME Init PROVE Shape
  OBVIOUS
<1>1. SI!TypeOK
  BY InjectorTypeInit DEF Init
<1>2. breaches \in Seq(Names) /\ Len(breaches) <= MaxBreaches
  BY Constants DEF Init
<1>3. report = [timelines |-> report.timelines, ops |-> report.ops,
               errors |-> report.errors, rows |-> report.rows,
               summary |-> report.summary]
  BY DEF Init, EmptyReport
<1> QED
  BY <1>1, <1>2, <1>3 DEF Init, Shape, MainSteps, AgentSteps, WatcherSteps

LEMMA ShapeNext == Shape /\ [Next]_vars => Shape'
<1> SUFFICES ASSUME Shape, [Next]_vars PROVE Shape'
  OBVIOUS
<1> USE DEF Shape
<1>1. CASE Run
  <2>1. UNCHANGED injectorVars => SI!TypeOK'
    BY DEF injectorVars, SI!TypeOK
  <2>2. CASE BuildAgents \/ BuildInjectors \/ BuildInvariants
    BY <2>1, <2>2 DEF BuildAgents, BuildInjectors, BuildInvariants, Builds, Goes,
       MainSteps, agentVars, recorderVars
  <2>3. CASE SpawnAgents \/ SpawnInjectors \/ SpawnInvariants
    <3>1. wg' \in Int
      BY <2>3, Constants, FS_CardinalityType
         DEF SpawnAgents, SpawnInjectors, SpawnInvariants
    <3> QED
      BY <2>1, <2>3, <3>1 DEF SpawnAgents, SpawnInjectors, SpawnInvariants, Goes, MainSteps,
         AgentSteps, WatcherSteps, agentVars, recorderVars
  <2>4. CASE WaitReturns \/ WriteReport
    BY <2>1, <2>4 DEF WaitReturns, WriteReport, Goes, MainSteps, agentVars, recorderVars
  <2>5. CASE CollectTimelines \/ ZipBlocks
    BY <2>1, <2>5 DEF CollectTimelines, ZipBlocks, Goes, MainSteps, agentVars, recorderVars
  <2> QED
    BY <1>1, <2>2, <2>3, <2>4, <2>5 DEF Run
<1>2. ASSUME NEW a \in Agents, AgentRun(a) PROVE Shape'
  <2>1. UNCHANGED <<injectorVars, watcher, recorderVars, mainVars>>
    BY <1>2, AgentFrame
  <2>2. SI!TypeOK'
    BY <2>1 DEF injectorVars, SI!TypeOK
  <2>3. /\ agent' \in [Agents -> AgentSteps] /\ wg' \in Int
        /\ ops' \in [Agents -> Nat] /\ errors' \in [Agents -> Nat]
    <3>1. CASE AgentDrains(a)
      BY <3>1 DEF AgentDrains, AgentGoes, AgentSteps
    <3>2. CASE AgentTicks(a)
      BY <3>2 DEF AgentTicks, AgentGoes, AgentSteps
    <3>3. CASE AgentCountsOp(a)
      BY <3>3 DEF AgentCountsOp, AgentGoes, AgentSteps
    <3>4. CASE AgentCountsError(a)
      BY <3>4 DEF AgentCountsError, AgentGoes, AgentSteps
    <3> QED
      BY <1>2, <3>1, <3>2, <3>3, <3>4 DEF AgentRun
  <2> QED
    BY <2>1, <2>2, <2>3 DEF recorderVars, mainVars
<1>3. ASSUME NEW i \in Injectors, InjectorRun(i) PROVE Shape'
  <2>1. SI!TypeOK'
    BY <1>3, InjectorTypeNext DEF InjectorRun
  <2> QED
    BY <1>3, <2>1 DEF InjectorRun, agentVars, recorderVars, mainVars
<1>4. ASSUME NEW w \in Watchers, WatcherRun(w) PROVE Shape'
  <2>1. UNCHANGED <<injectorVars, agentVars, mainVars>>
    BY <1>4, WatcherFrame
  <2>2. SI!TypeOK'
    BY <2>1 DEF injectorVars, SI!TypeOK
  <2>3. NameOf[w] \in Names
    BY Constants
  <2>4. /\ watcher' \in [Watchers -> WatcherSteps] /\ wg' \in Int
        /\ breaches' \in Seq(Names) /\ Len(breaches') <= MaxBreaches
        /\ counter' \in [Names -> Nat]
    <3>1. CASE AppendBreach(w)
      <4>1. breaches' \in Seq(Names) /\ Len(breaches') = Len(breaches) + 1
        BY <2>3, <3>1 DEF AppendBreach
      <4>2. Len(breaches') <= MaxBreaches
        BY <3>1, <4>1, Constants DEF AppendBreach
      <4>3. watcher' \in [Watchers -> WatcherSteps] /\ wg' = wg /\ counter' = counter
        BY <3>1 DEF AppendBreach, WatcherGoes, WatcherSteps
      <4> QED
        BY <4>1, <4>2, <4>3
    <3>2. CASE CountBreach(w)
      BY <2>3, <3>2 DEF CountBreach, Inc, WatcherGoes, WatcherSteps
    <3>3. CASE WatcherRejectsParams(w)
      BY <3>3 DEF WatcherRejectsParams, DoneOnError, WatcherGoes, WatcherSteps, recorderVars
    <3>4. CASE WatcherExits(w)
      BY <3>4 DEF WatcherExits, WatcherGoes, WatcherSteps, recorderVars
    <3>5. CASE WatcherStarts(w) \/ RoundEnds(w) \/ NextRound(w)
      BY <3>5 DEF WatcherStarts, RoundEnds, NextRound, WatcherGoes, WatcherSteps,
         recorderVars
    <3> QED
      BY <1>4, <3>1, <3>2, <3>3, <3>4, <3>5 DEF WatcherRun
  <2> QED
    BY <2>1, <2>2, <2>4 DEF agentVars, mainVars
<1>5. CASE Signal \/ DeadlineExpires \/ Tick
  BY <1>5, ClockTypeNext DEF Signal, DeadlineExpires, Tick, others
<1>6. CASE UNCHANGED vars
  BY <1>6 DEF vars, SI!TypeOK
<1> QED
  BY <1>1, <1>2, <1>3, <1>4, <1>5, <1>6 DEF Next, Terminated

-----------------------------------------------------------------------------
(* Who is alive *)

Early == {"arming", "armInjectors", "armInvariants", "spawnAgents"}

\* No goroutine runs before its loop has spawned it.
Spawned ==
  /\ main \in Early => \A a \in Agents : agent[a] = "unspawned"
  /\ main \in Early \cup {"spawnInjectors"} => \A i \in Injectors : pc[i] = "spawned"
  /\ main \in Early \cup {"spawnInjectors", "spawnInvariants"} =>
       \A w \in Watchers : watcher[w] = "unspawned"

AtRest == main \in Assembling \cup {"returned"} => wg = 0

AliveInv == Shape /\ Spawned /\ WaitGroupExact /\ AtRest

LEMMA LiveAreFinite ==
  /\ IsFiniteSet(LiveAgents) /\ IsFiniteSet(LiveInjectors) /\ IsFiniteSet(LiveWatchers)
  /\ Cardinality(LiveAgents) \in Nat
  /\ Cardinality(LiveInjectors) \in Nat
  /\ Cardinality(LiveWatchers) \in Nat
<1>1. LiveAgents \subseteq Agents /\ LiveWatchers \subseteq Watchers
      /\ LiveInjectors \subseteq Injectors
  BY DEF LiveAgents, LiveInjectors, LiveWatchers
<1>2. IsFiniteSet(LiveAgents) /\ IsFiniteSet(LiveInjectors) /\ IsFiniteSet(LiveWatchers)
  BY <1>1, Constants, FS_Subset
<1> QED
  BY <1>2, FS_CardinalityType

\* Wait returns only when everybody has exited.
LEMMA NobodyAlive ==
  ASSUME WaitGroupExact, wg = 0
  PROVE  LiveAgents = {} /\ LiveInjectors = {} /\ LiveWatchers = {}
<1>1. /\ Cardinality(LiveAgents) = 0
      /\ Cardinality(LiveInjectors) = 0
      /\ Cardinality(LiveWatchers) = 0
  BY LiveAreFinite DEF WaitGroupExact
<1> QED
  BY <1>1, LiveAreFinite, FS_EmptySet

LEMMA AliveInit == Init => AliveInv
<1> SUFFICES ASSUME Init PROVE AliveInv
  OBVIOUS
<1>1. Spawned /\ AtRest
  BY DEF Init, SI!Init, Spawned, AtRest, Assembling, Early
<1>2. LiveAgents = {} /\ LiveInjectors = {} /\ LiveWatchers = {}
  BY DEF Init, LiveAgents, LiveInjectors, LiveWatchers, InjectorsSpawned, Assembling
<1>3. Cardinality({}) = 0
  BY FS_EmptySet
<1>4. WaitGroupExact
  BY <1>2, <1>3 DEF Init, WaitGroupExact
<1> QED
  BY <1>1, <1>4, ShapeInit DEF AliveInv

\* Nobody but the main goroutine runs before it has spawned anybody, and
\* nobody else when it assembles the report.
LEMMA OnlyWhileSpawned ==
  ASSUME AliveInv
  PROVE  /\ \A a \in Agents : AgentRun(a) => a \in LiveAgents
         /\ \A i \in Injectors : InjectorRun(i) => i \in LiveInjectors
         /\ \A w \in Watchers : WatcherRun(w) => w \in LiveWatchers
         /\ \A x \in LiveAgents \cup LiveInjectors \cup LiveWatchers :
              main \notin Early \cup Assembling \cup {"returned"}
<1>1. ASSUME NEW a \in Agents, AgentRun(a) PROVE a \in LiveAgents
  BY <1>1 DEF AgentRun, AgentDrains, AgentTicks, AgentCountsOp, AgentCountsError,
     AgentGoes, LiveAgents
<1>2. ASSUME NEW i \in Injectors, InjectorRun(i) PROVE i \in LiveInjectors
  BY <1>2 DEF InjectorRun, SI!run, SI!Start, SI!CancelBeforeApply, SI!CallApply,
     SI!ApplyReturns, SI!CancelInWindow, SI!CallRevert, SI!RevertReturns, SI!Moves,
     LiveInjectors
<1>3. ASSUME NEW w \in Watchers, WatcherRun(w) PROVE w \in LiveWatchers
  BY <1>3 DEF WatcherRun, WatcherRejectsParams, WatcherStarts, RoundEnds, AppendBreach,
     CountBreach, NextRound, WatcherExits, WatcherGoes, LiveWatchers
<1>4. ASSUME NEW x \in LiveAgents \cup LiveInjectors \cup LiveWatchers
      PROVE  main \notin Early \cup Assembling \cup {"returned"}
  <2>1. wg # 0
    BY <1>4, NobodyAlive DEF AliveInv
  <2>2. main \notin Early
    BY <1>4 DEF AliveInv, Spawned, LiveAgents, LiveInjectors, LiveWatchers,
       InjectorsSpawned, Assembling, Early
  <2> QED
    BY <2>1, <2>2 DEF AliveInv, AtRest
<1> QED
  BY <1>1, <1>2, <1>3, <1>4

\* The steps of the main goroutine.
LEMMA AliveMain ==
  ASSUME AliveInv, Run PROVE Spawned' /\ WaitGroupExact' /\ AtRest'
<1> USE DEF AliveInv
<1>1. CASE BuildAgents \/ BuildInjectors \/ BuildInvariants
  <2>1. /\ main \in Early /\ main' \in Early \cup {"returned"}
        /\ UNCHANGED <<agent, pc, watcher, wg>>
    BY <1>1 DEF BuildAgents, BuildInjectors, BuildInvariants, Builds, Goes, Early,
       agentVars, injectorVars
  <2>2. LiveAgents = {} /\ LiveInjectors = {} /\ LiveWatchers = {}
    BY <2>1, OnlyWhileSpawned
  <2>3. wg = 0
    BY <2>2, FS_EmptySet DEF WaitGroupExact
  <2>4. LiveAgents' = LiveAgents /\ LiveWatchers' = LiveWatchers
    BY <2>1 DEF LiveAgents, LiveWatchers
  <2>5. LiveInjectors' = {}
    BY <2>1 DEF LiveInjectors, InjectorsSpawned, Assembling, Early
  <2> QED
    BY <2>1, <2>2, <2>3, <2>4, <2>5 DEF Spawned, WaitGroupExact, AtRest, Early
<1>2. CASE SpawnAgents
  <2>1. /\ main = "spawnAgents" /\ main' = "spawnInjectors" /\ UNCHANGED <<pc, watcher>>
        /\ agent' = [a \in Agents |-> "idle"] /\ wg' = wg + Cardinality(Agents)
    BY <1>2 DEF SpawnAgents, Goes, injectorVars
  <2>2. LiveAgents = {} /\ LiveAgents' = Agents /\ LiveWatchers' = LiveWatchers
    BY <2>1 DEF LiveAgents, LiveWatchers, Spawned, Early
  <2>3. LiveInjectors = {} /\ LiveInjectors' = {}
    BY <2>1 DEF LiveInjectors, InjectorsSpawned, Assembling
  <2>4. WaitGroupExact'
    BY <2>1, <2>2, <2>3, FS_EmptySet, Constants, FS_CardinalityType, LiveAreFinite
       DEF WaitGroupExact
  <2> QED
    BY <2>1, <2>4 DEF Spawned, AtRest, Assembling, Early
<1>3. CASE SpawnInjectors
  <2>1. /\ main = "spawnInjectors" /\ main' = "spawnInvariants"
        /\ UNCHANGED <<pc, watcher, agent>> /\ wg' = wg + Cardinality(Injectors)
    BY <1>3 DEF SpawnInjectors, Goes, injectorVars, agentVars
  <2>2. LiveAgents' = LiveAgents /\ LiveWatchers' = LiveWatchers
    BY <2>1 DEF LiveAgents, LiveWatchers
  <2>3. LiveInjectors = {} /\ LiveInjectors' = Injectors
    BY <2>1 DEF LiveInjectors, InjectorsSpawned, Assembling, Spawned
  <2>4. WaitGroupExact'
    BY <2>1, <2>2, <2>3, FS_EmptySet, Constants, FS_CardinalityType, LiveAreFinite
       DEF WaitGroupExact
  <2> QED
    BY <2>1, <2>4 DEF Spawned, AtRest, Assembling, Early
<1>4. CASE SpawnInvariants
  <2>1. /\ main = "spawnInvariants" /\ main' = "waiting" /\ UNCHANGED <<pc, agent>>
        /\ watcher' = [w \in Watchers |-> "spawned"] /\ wg' = wg + Cardinality(Watchers)
    BY <1>4 DEF SpawnInvariants, Goes, injectorVars, agentVars
  <2>2. LiveWatchers = {} /\ LiveWatchers' = Watchers /\ LiveAgents' = LiveAgents
    BY <2>1 DEF LiveAgents, LiveWatchers, Spawned
  <2>3. LiveInjectors' = LiveInjectors
    BY <2>1 DEF LiveInjectors, InjectorsSpawned
  <2>4. WaitGroupExact'
    BY <2>1, <2>2, <2>3, FS_EmptySet, Constants, FS_CardinalityType, LiveAreFinite
       DEF WaitGroupExact
  <2> QED
    BY <2>1, <2>4 DEF Spawned, AtRest, Assembling, Early
<1>5. CASE WaitReturns \/ CollectTimelines \/ ZipBlocks \/ WriteReport
  <2>1. /\ main \in {"waiting"} \cup Assembling /\ main' \in Assembling \cup {"returned"}
        /\ UNCHANGED <<pc, agent, watcher, wg>>
        /\ main = "waiting" => wg = 0
    BY <1>5 DEF WaitReturns, WaitOver, CollectTimelines, ZipBlocks, WriteReport, Goes,
       Assembling, injectorVars, agentVars
  <2>2. wg = 0
    BY <2>1 DEF AtRest
  <2>3. LiveInjectors = {} /\ LiveInjectors' = {}
    <3>1. LiveInjectors = {}
      BY <2>2, NobodyAlive
    <3>2. InjectorsSpawned
      BY <2>1 DEF InjectorsSpawned
    <3> QED
      BY <2>1, <3>1, <3>2 DEF LiveInjectors
  <2>4. LiveAgents' = LiveAgents /\ LiveWatchers' = LiveWatchers
    BY <2>1 DEF LiveAgents, LiveWatchers
  <2> QED
    BY <2>1, <2>2, <2>3, <2>4 DEF Spawned, WaitGroupExact, AtRest, Assembling, Early
<1> QED
  BY <1>1, <1>2, <1>3, <1>4, <1>5 DEF Run

\* A goroutine that moves on is alive still, and one that exits says so.
LEMMA AliveNext == AliveInv /\ [Next]_vars => AliveInv'
<1> SUFFICES ASSUME AliveInv, [Next]_vars PROVE Spawned' /\ WaitGroupExact' /\ AtRest'
  BY ShapeNext DEF AliveInv
<1> USE DEF AliveInv
<1>1. CASE Run
  BY <1>1, AliveMain
<1>2. ASSUME NEW a \in Agents, AgentRun(a) PROVE Spawned' /\ WaitGroupExact' /\ AtRest'
  <2>1. UNCHANGED <<injectorVars, watcher, recorderVars, mainVars>>
    BY <1>2, AgentFrame
  <2>2. a \in LiveAgents /\ main \notin Early \cup Assembling \cup {"returned"}
    BY <1>2, OnlyWhileSpawned
  <2>3. LiveInjectors' = LiveInjectors /\ LiveWatchers' = LiveWatchers
    BY <2>1 DEF LiveInjectors, LiveWatchers, InjectorsSpawned, injectorVars, mainVars
  <2>4. \/ LiveAgents' = LiveAgents /\ wg' = wg
        \/ LiveAgents' = LiveAgents \ {a} /\ wg' = wg - 1
    <3>1. CASE AgentDrains(a)
      BY <2>2, <3>1 DEF AgentDrains, AgentGoes, LiveAgents, Shape
    <3>2. CASE AgentTicks(a) \/ AgentCountsOp(a) \/ AgentCountsError(a)
      BY <2>2, <3>2 DEF AgentTicks, AgentCountsOp, AgentCountsError, AgentGoes, LiveAgents,
         Shape
    <3> QED
      BY <1>2, <3>1, <3>2 DEF AgentRun
  <2>5. WaitGroupExact'
    <3>1. Cardinality(LiveAgents \ {a}) = Cardinality(LiveAgents) - 1
      BY <2>2, LiveAreFinite, FS_RemoveElement
    <3>2. wg = Cardinality(LiveAgents) + Cardinality(LiveInjectors) + Cardinality(LiveWatchers)
      BY DEF WaitGroupExact
    <3>3. CASE LiveAgents' = LiveAgents /\ wg' = wg
      BY <2>3, <3>2, <3>3 DEF WaitGroupExact
    <3>4. CASE LiveAgents' = LiveAgents \ {a} /\ wg' = wg - 1
      BY <2>3, <3>1, <3>2, <3>4, LiveAreFinite DEF WaitGroupExact
    <3> QED
      BY <2>4, <3>3, <3>4
  <2> QED
    BY <2>1, <2>2, <2>5 DEF Spawned, AtRest, injectorVars, mainVars
<1>3. ASSUME NEW i \in Injectors, InjectorRun(i)
      PROVE  Spawned' /\ WaitGroupExact' /\ AtRest'
  <2>1. UNCHANGED <<agentVars, watcher, mainVars>>
    BY <1>3 DEF InjectorRun
  <2>2. /\ i \in LiveInjectors /\ InjectorsSpawned /\ InjectorsSpawned'
        /\ main \notin Early \cup Assembling \cup {"returned"}
    BY <1>3, <2>1, OnlyWhileSpawned DEF InjectorRun, InjectorsSpawned, mainVars
  <2>3. LiveAgents' = LiveAgents /\ LiveWatchers' = LiveWatchers
    BY <2>1 DEF LiveAgents, LiveWatchers, agentVars
  <2>4. \E to : pc' = [pc EXCEPT ![i] = to]
    BY <1>3 DEF InjectorRun, SI!run, SI!Start, SI!CancelBeforeApply, SI!CallApply,
       SI!ApplyReturns, SI!CancelInWindow, SI!CallRevert, SI!RevertReturns, SI!Moves
  <2>5. \/ pc'[i] # "done" /\ LiveInjectors' = LiveInjectors /\ wg' = wg
        \/ pc'[i] = "done" /\ LiveInjectors' = LiveInjectors \ {i} /\ wg' = wg - 1
    BY <1>3, <2>2, <2>4 DEF InjectorRun, LiveInjectors, Shape, SI!TypeOK
  <2>6. WaitGroupExact'
    <3>1. Cardinality(LiveInjectors \ {i}) = Cardinality(LiveInjectors) - 1
      BY <2>2, LiveAreFinite, FS_RemoveElement
    <3>2. wg = Cardinality(LiveAgents) + Cardinality(LiveInjectors) + Cardinality(LiveWatchers)
      BY DEF WaitGroupExact
    <3>3. CASE LiveInjectors' = LiveInjectors /\ wg' = wg
      BY <2>3, <3>2, <3>3 DEF WaitGroupExact
    <3>4. CASE LiveInjectors' = LiveInjectors \ {i} /\ wg' = wg - 1
      BY <2>3, <3>1, <3>2, <3>4, LiveAreFinite DEF WaitGroupExact
    <3> QED
      BY <2>5, <3>3, <3>4
  <2>7. main # "spawnInjectors"
    BY <2>2 DEF InjectorsSpawned, Assembling
  <2> QED
    BY <2>1, <2>2, <2>6, <2>7 DEF Spawned, AtRest, mainVars
<1>4. ASSUME NEW w \in Watchers, WatcherRun(w) PROVE Spawned' /\ WaitGroupExact' /\ AtRest'
  <2>1. UNCHANGED <<injectorVars, agentVars, mainVars>>
    BY <1>4, WatcherFrame
  <2>2. w \in LiveWatchers /\ main \notin Early \cup Assembling \cup {"returned"}
    BY <1>4, OnlyWhileSpawned
  <2>3. LiveInjectors' = LiveInjectors /\ LiveAgents' = LiveAgents
    BY <2>1 DEF LiveInjectors, LiveAgents, InjectorsSpawned, injectorVars, agentVars, mainVars
  <2>4. \/ LiveWatchers' = LiveWatchers /\ wg' = wg
        \/ LiveWatchers' = LiveWatchers \ {w} /\ wg' = wg - 1
    <3>1. CASE WatcherRejectsParams(w) \/ WatcherExits(w)
      BY <2>2, <3>1 DEF WatcherRejectsParams, WatcherExits, DoneOnError, WatcherGoes,
         LiveWatchers, Shape
    <3>2. CASE \/ WatcherStarts(w) \/ RoundEnds(w) \/ AppendBreach(w) \/ CountBreach(w)
               \/ NextRound(w)
      BY <2>2, <3>2 DEF WatcherStarts, RoundEnds, AppendBreach, CountBreach, NextRound,
         WatcherGoes, LiveWatchers, Shape
    <3> QED
      BY <1>4, <3>1, <3>2 DEF WatcherRun
  <2>5. WaitGroupExact'
    <3>1. Cardinality(LiveWatchers \ {w}) = Cardinality(LiveWatchers) - 1
      BY <2>2, LiveAreFinite, FS_RemoveElement
    <3>2. wg = Cardinality(LiveAgents) + Cardinality(LiveInjectors) + Cardinality(LiveWatchers)
      BY DEF WaitGroupExact
    <3>3. CASE LiveWatchers' = LiveWatchers /\ wg' = wg
      BY <2>3, <3>2, <3>3 DEF WaitGroupExact
    <3>4. CASE LiveWatchers' = LiveWatchers \ {w} /\ wg' = wg - 1
      BY <2>3, <3>1, <3>2, <3>4, LiveAreFinite DEF WaitGroupExact
    <3> QED
      BY <2>4, <3>3, <3>4
  <2>6. main \notin {"spawnInjectors", "spawnInvariants"}
    BY <2>2 DEF Spawned, LiveWatchers
  <2> QED
    BY <2>1, <2>2, <2>5, <2>6 DEF Spawned, AtRest, injectorVars, agentVars, mainVars
<1>5. CASE \/ Signal \/ DeadlineExpires \/ Tick \/ UNCHANGED vars
  <2>1. UNCHANGED <<main, wg, agent, watcher, pc>>
    BY <1>5 DEF Signal, DeadlineExpires, Tick, SI!Signal, SI!DeadlineExpires, SI!Tick,
       SI!goroutineVars, others, vars
  <2>2. /\ LiveAgents' = LiveAgents /\ LiveInjectors' = LiveInjectors
        /\ LiveWatchers' = LiveWatchers
    BY <2>1 DEF LiveAgents, LiveInjectors, LiveWatchers, InjectorsSpawned
  <2> QED
    BY <2>1, <2>2 DEF Spawned, WaitGroupExact, AtRest
<1> QED
  BY <1>1, <1>2, <1>3, <1>4, <1>5 DEF Next, Terminated

\* The WaitGroup counts exactly the live goroutines, for every number of
\* blocks and however each goroutine ends.
THEOREM WaitGroupExactHolds == Spec => []WaitGroupExact
<1>1. AliveInv => WaitGroupExact
  BY DEF AliveInv
<1> QED
  BY AliveInit, AliveNext, <1>1, PTL DEF Spec, Safety

\* Once everybody has exited only the main goroutine moves, and it only reads.
LEMMA RestNext ==
  ASSUME AliveInv, [Next]_vars, main \in Assembling \cup {"returned"}
  PROVE  /\ UNCHANGED <<wg, agentVars, watcher, recorderVars>>
         /\ UNCHANGED <<pc, event, fault>>
<1>1. /\ \A a \in Agents : ~AgentRun(a)
      /\ \A i \in Injectors : ~InjectorRun(i)
      /\ \A w \in Watchers : ~WatcherRun(w)
  BY OnlyWhileSpawned
<1>2. CASE Run
  BY <1>2 DEF Run, BuildAgents, BuildInjectors, BuildInvariants, Builds, SpawnAgents,
     SpawnInjectors, SpawnInvariants, WaitReturns, CollectTimelines, ZipBlocks, WriteReport,
     Goes, Assembling, injectorVars, agentVars, recorderVars
<1>3. CASE \/ Signal \/ DeadlineExpires \/ Tick \/ UNCHANGED vars
  BY <1>3 DEF Signal, DeadlineExpires, Tick, SI!Signal, SI!DeadlineExpires, SI!Tick,
     SI!goroutineVars, others, vars, agentVars, recorderVars
<1> QED
  BY <1>1, <1>2, <1>3 DEF Next, Terminated

\* The report is read from a world at rest.
THEOREM NothingMovesAfterWaitHolds == Spec => NothingMovesAfterWait
<1>1. AliveInv /\ [Next]_vars =>
        [(main \in Assembling \cup {"returned"}) =>
           /\ UNCHANGED <<wg, agentVars, watcher, recorderVars>>
           /\ pc' = pc /\ event' = event /\ fault' = fault]_vars
  BY RestNext
<1> QED
  BY AliveInit, AliveNext, <1>1, PTL DEF Spec, Safety, NothingMovesAfterWait

-----------------------------------------------------------------------------
(* The breach log and its counter *)

Places(name) == {k \in DOMAIN breaches : breaches[k] = name}
Pending(name) == {w \in Watchers : watcher[w] = "appended" /\ NameOf[w] = name}

Mirrored ==
  \A name \in Names :
    Cardinality(Places(name)) = counter[name] + Cardinality(Pending(name))

LogInv == AliveInv /\ Mirrored

LEMMA LogIsFinite ==
  ASSUME Shape, NEW name
  PROVE  /\ IsFiniteSet(Places(name)) /\ IsFiniteSet(Pending(name))
         /\ Cardinality(Places(name)) \in Nat /\ Cardinality(Pending(name)) \in Nat
         /\ Cardinality(Places(name)) <= Len(breaches)
<1>1. DOMAIN breaches = 1..Len(breaches) /\ Len(breaches) \in Nat
  BY DEF Shape
<1>2. IsFiniteSet(1..Len(breaches)) /\ Cardinality(1..Len(breaches)) = Len(breaches)
  <2>1. /\ 1 \in Int /\ Len(breaches) \in Int
        /\ (IF 1 > Len(breaches) THEN 0 ELSE Len(breaches) - 1 + 1) = Len(breaches)
    BY <1>1
  <2>2. \A a, b \in Int : /\ IsFiniteSet(a..b)
                         /\ Cardinality(a..b) = IF a > b THEN 0 ELSE b - a + 1
    BY FS_Interval
  <2> QED
    BY <2>1, <2>2
<1>3. Places(name) \subseteq 1..Len(breaches) /\ Pending(name) \subseteq Watchers
  BY <1>1 DEF Places, Pending
<1>4. /\ IsFiniteSet(Places(name)) /\ IsFiniteSet(Pending(name))
      /\ Cardinality(Places(name)) <= Cardinality(1..Len(breaches))
  BY <1>2, <1>3, Constants, FS_Subset
<1> QED
  BY <1>2, <1>4, FS_CardinalityType

LEMMA LogInit == Init => LogInv
<1> SUFFICES ASSUME Init PROVE Mirrored
  BY AliveInit DEF LogInv
<1>1. \A name : Places(name) = {} /\ Pending(name) = {}
  BY DEF Init, Places, Pending
<1> QED
  <2>1. Cardinality({}) = 0
    BY FS_EmptySet
  <2>2. \A name \in Names : counter[name] = 0
    BY DEF Init
  <2> QED
    BY <1>1, <2>1, <2>2 DEF Mirrored

LEMMA LogNext == LogInv /\ [Next]_vars => LogInv'
<1> SUFFICES ASSUME LogInv, [Next]_vars PROVE Mirrored'
  BY AliveNext DEF LogInv
<1> USE DEF LogInv, AliveInv
<1>1. ASSUME UNCHANGED <<breaches, counter>>,
             \A w \in Watchers : \/ watcher'[w] = watcher[w]
                                 \/ watcher'[w] # "appended" /\ watcher[w] # "appended"
      PROVE  Mirrored'
  <2>1. ASSUME NEW name \in Names PROVE Places(name)' = Places(name) /\ Pending(name)' = Pending(name)
    BY <1>1 DEF Places, Pending
  <2> QED
    BY <1>1, <2>1 DEF Mirrored
<1>2. CASE Run
  <2>1. UNCHANGED <<breaches, counter>>
    BY <1>2 DEF Run, BuildAgents, BuildInjectors, BuildInvariants, Builds, SpawnAgents,
       SpawnInjectors, SpawnInvariants, WaitReturns, CollectTimelines, ZipBlocks,
       WriteReport, recorderVars
  <2>2. watcher' = watcher \/ SpawnInvariants
    BY <1>2 DEF Run, BuildAgents, BuildInjectors, BuildInvariants, Builds, SpawnAgents,
       SpawnInjectors, WaitReturns, CollectTimelines, ZipBlocks, WriteReport
  <2>3. CASE SpawnInvariants
    BY <1>1, <2>1, <2>3 DEF SpawnInvariants, Goes, Spawned
  <2> QED
    BY <1>1, <2>1, <2>2, <2>3
<1>3. ASSUME NEW a \in Agents, AgentRun(a) PROVE Mirrored'
  BY <1>1, <1>3, AgentFrame DEF recorderVars
<1>4. ASSUME NEW i \in Injectors, InjectorRun(i) PROVE Mirrored'
  BY <1>1, <1>4 DEF InjectorRun, recorderVars
<1>5. ASSUME NEW w \in Watchers, AppendBreach(w) PROVE Mirrored'
  <2> DEFINE n == NameOf[w]
  <2>1. /\ watcher[w] = "probing" /\ watcher' = [watcher EXCEPT ![w] = "appended"]
        /\ breaches' = Append(breaches, n) /\ counter' = counter
    BY <1>5 DEF AppendBreach, WatcherGoes
  <2>2. n \in Names /\ Len(breaches) \in Nat /\ DOMAIN breaches = 1..Len(breaches)
    BY Constants DEF Shape
  <2>3. /\ DOMAIN breaches' = 1..(Len(breaches) + 1)
        /\ \A k \in 1..Len(breaches) : breaches'[k] = breaches[k]
        /\ breaches'[Len(breaches) + 1] = n
    BY <2>1, <2>2 DEF Shape
  <2>4. ASSUME NEW name \in Names \ {n}
        PROVE  Places(name)' = Places(name) /\ Pending(name)' = Pending(name)
    <3>1. Places(name)' = Places(name)
      BY <2>2, <2>3, <2>4 DEF Places
    <3>2. Pending(name)' = Pending(name)
      BY <2>1, <2>4 DEF Pending, Shape
    <3> QED
      BY <3>1, <3>2
  <2>5. Places(n)' = Places(n) \cup {Len(breaches) + 1} /\ Len(breaches) + 1 \notin Places(n)
    BY <2>2, <2>3 DEF Places
  <2>6. Pending(n)' = Pending(n) \cup {w} /\ w \notin Pending(n)
    BY <2>1 DEF Pending, Shape
  <2>7. /\ Cardinality(Places(n)') = Cardinality(Places(n)) + 1
        /\ Cardinality(Pending(n)') = Cardinality(Pending(n)) + 1
    BY <2>5, <2>6, LogIsFinite, FS_AddElement
  <2>8. counter[n] \in Nat
    BY <2>2 DEF Shape
  <2>9. Cardinality(Places(n)') = counter'[n] + Cardinality(Pending(n)')
    BY <2>1, <2>2, <2>7, <2>8, LogIsFinite DEF Mirrored
  <2>10. ASSUME NEW name \in Names
         PROVE  Cardinality(Places(name)') = counter'[name] + Cardinality(Pending(name)')
    BY <2>1, <2>4, <2>9 DEF Mirrored
  <2> QED
    BY <2>10 DEF Mirrored
<1>6. ASSUME NEW w \in Watchers, CountBreach(w) PROVE Mirrored'
  <2> DEFINE n == NameOf[w]
  <2>1. /\ watcher[w] = "appended" /\ watcher' = [watcher EXCEPT ![w] = "probing"]
        /\ breaches' = breaches /\ counter' = [counter EXCEPT ![n] = @ + 1]
    BY <1>6 DEF CountBreach, WatcherGoes, Inc
  <2>2. n \in Names
    BY Constants
  <2>3. \A name \in Names : Places(name)' = Places(name)
    BY <2>1 DEF Places
  <2>4. \A name \in Names \ {n} : Pending(name)' = Pending(name) /\ counter'[name] = counter[name]
    BY <2>1 DEF Pending, Shape
  <2>5. Pending(n)' = Pending(n) \ {w} /\ w \in Pending(n)
    BY <2>1 DEF Pending, Shape
  <2>6. Cardinality(Pending(n)') = Cardinality(Pending(n)) - 1
    BY <2>5, LogIsFinite, FS_RemoveElement
  <2>7. counter[n] \in Nat /\ counter'[n] = counter[n] + 1
    BY <2>1, <2>2 DEF Shape
  <2>8. Cardinality(Places(n)') = counter'[n] + Cardinality(Pending(n)')
    BY <2>2, <2>3, <2>6, <2>7, LogIsFinite DEF Mirrored
  <2>9. ASSUME NEW name \in Names
        PROVE  Cardinality(Places(name)') = counter'[name] + Cardinality(Pending(name)')
    BY <2>3, <2>4, <2>8 DEF Mirrored
  <2> QED
    BY <2>9 DEF Mirrored
<1>7. ASSUME NEW w \in Watchers,
             \/ WatcherRejectsParams(w) \/ WatcherStarts(w) \/ RoundEnds(w) \/ NextRound(w)
             \/ WatcherExits(w)
      PROVE  Mirrored'
  <2>1. /\ UNCHANGED <<breaches, counter>>
        /\ \E to : watcher' = [watcher EXCEPT ![w] = to] /\ to # "appended"
        /\ watcher[w] # "appended"
    BY <1>7 DEF WatcherRejectsParams, WatcherStarts, RoundEnds, NextRound, WatcherExits,
       WatcherGoes, recorderVars
  <2> QED
    BY <1>1, <2>1 DEF Shape
<1>8. CASE \/ Signal \/ DeadlineExpires \/ Tick \/ UNCHANGED vars
  BY <1>1, <1>8 DEF Signal, DeadlineExpires, Tick, others, vars
<1> QED
  BY <1>2, <1>3, <1>4, <1>5, <1>6, <1>7, <1>8 DEF Next, Terminated, WatcherRun

\* weft_chaos_breach_total lags the log by the watchers between the two halves
\* of Record, and by nothing when the report is assembled.
THEOREM CounterMirrorsLogHolds == Spec => []CounterMirrorsLog
<1>1. LogInv => CounterMirrorsLog
  <2> SUFFICES ASSUME LogInv PROVE CounterMirrorsLog
    OBVIOUS
  <2>1. \A name \in Names : Occurrences(name) = counter[name] + Cardinality(Pending(name))
    BY DEF LogInv, Mirrored, Occurrences, Places
  <2>2. ASSUME main \in Assembling, NEW name \in Names PROVE counter[name] = Occurrences(name)
    <3>1. LiveWatchers = {}
      BY <2>2, NobodyAlive DEF LogInv, AliveInv, AtRest
    <3>2. Pending(name) = {}
      BY <3>1 DEF Pending, LiveWatchers
    <3>3. counter[name] \in Nat
      BY DEF LogInv, AliveInv, Shape
    <3> QED
      BY <2>1, <3>2, <3>3, FS_EmptySet
  <2> QED
    BY <2>1, <2>2 DEF CounterMirrorsLog, Pending
<1> QED
  BY LogInit, LogNext, <1>1, PTL DEF Spec, Safety

-----------------------------------------------------------------------------
(* The agents' counters, and the type invariant *)

OpsInv ==
  \A a \in Agents :
    /\ ops[a] <= MaxOps
    /\ agent[a] = "dispatching" => ops[a] < MaxOps
    /\ errors[a] <= ops[a]
    /\ agent[a] = "failed" => errors[a] < ops[a]

LEMMA OpsInit == Init => OpsInv
BY Constants DEF Init, OpsInv

LEMMA OpsNext == Shape /\ OpsInv /\ [Next]_vars => OpsInv'
<1> SUFFICES ASSUME Shape, OpsInv, [Next]_vars PROVE OpsInv'
  OBVIOUS
<1>1. ASSUME UNCHANGED <<ops, errors>>,
             agent' = agent \/ agent' = [a \in Agents |-> "idle"]
      PROVE  OpsInv'
  BY <1>1 DEF OpsInv
<1>2. CASE Run
  BY <1>1, <1>2 DEF Run, BuildAgents, BuildInjectors, BuildInvariants, Builds, SpawnAgents,
     SpawnInjectors, SpawnInvariants, WaitReturns, CollectTimelines, ZipBlocks, WriteReport,
     agentVars
<1>3. ASSUME NEW a \in Agents, AgentRun(a) PROVE OpsInv'
  <2> SUFFICES ASSUME NEW b \in Agents
               PROVE  /\ ops'[b] <= MaxOps
                      /\ agent'[b] = "dispatching" => ops'[b] < MaxOps
                      /\ errors'[b] <= ops'[b]
                      /\ agent'[b] = "failed" => errors'[b] < ops'[b]
    BY DEF OpsInv
  <2>1. /\ MaxOps \in Nat /\ ops[b] \in Nat /\ errors[b] \in Nat
        /\ agent \in [Agents -> AgentSteps] /\ ops \in [Agents -> Nat]
        /\ errors \in [Agents -> Nat]
    BY Constants DEF Shape
  <2>2. CASE AgentDrains(a)
    BY <2>1, <2>2 DEF AgentDrains, AgentGoes, OpsInv
  <2>3. CASE AgentTicks(a)
    BY <2>1, <2>3 DEF AgentTicks, AgentGoes, OpsInv
  <2>4. CASE AgentCountsOp(a)
    BY <2>1, <2>4 DEF AgentCountsOp, AgentGoes, OpsInv
  <2>5. CASE AgentCountsError(a)
    BY <2>1, <2>5 DEF AgentCountsError, AgentGoes, OpsInv
  <2> QED
    BY <1>3, <2>2, <2>3, <2>4, <2>5 DEF AgentRun
<1>4. ASSUME NEW i \in Injectors, InjectorRun(i) PROVE OpsInv'
  BY <1>1, <1>4 DEF InjectorRun, agentVars
<1>5. ASSUME NEW w \in Watchers, WatcherRun(w) PROVE OpsInv'
  BY <1>1, <1>5, WatcherFrame DEF agentVars
<1>6. CASE \/ Signal \/ DeadlineExpires \/ Tick \/ UNCHANGED vars
  BY <1>1, <1>6 DEF Signal, DeadlineExpires, Tick, others, vars
<1> QED
  BY <1>2, <1>3, <1>4, <1>5, <1>6 DEF Next, Terminated

\* Every variable keeps to its values; the counters stay within what the log
\* and the dispatches bound.
THEOREM TypeCorrect == Spec => []TypeOK
<1>1. LogInv /\ OpsInv => TypeOK
  <2> SUFFICES ASSUME LogInv, OpsInv PROVE TypeOK
    OBVIOUS
  <2>1. Shape
    BY DEF LogInv, AliveInv
  <2>2. ops \in [Agents -> 0..MaxOps] /\ errors \in [Agents -> 0..MaxOps]
    <3>1. ASSUME NEW a \in Agents PROVE ops[a] \in 0..MaxOps /\ errors[a] \in 0..MaxOps
      BY <2>1, Constants DEF Shape, OpsInv
    <3> QED
      BY <2>1, <3>1 DEF Shape
  <2>3. counter \in [Names -> 0..MaxBreaches]
    <3>1. ASSUME NEW name \in Names PROVE counter[name] \in 0..MaxBreaches
      <4>1. /\ counter[name] \in Nat /\ Len(breaches) \in Nat
            /\ Len(breaches) <= MaxBreaches /\ MaxBreaches \in Nat
        BY <2>1, Constants DEF Shape
      <4>2. Cardinality(Places(name)) = counter[name] + Cardinality(Pending(name))
        BY DEF LogInv, Mirrored
      <4>3. /\ Cardinality(Places(name)) \in Nat /\ Cardinality(Pending(name)) \in Nat
            /\ Cardinality(Places(name)) <= Len(breaches)
        BY <2>1, LogIsFinite
      <4> QED
        BY <4>1, <4>2, <4>3
    <3> QED
      BY <2>1, <3>1 DEF Shape
  <2> QED
    BY <2>1, <2>2, <2>3 DEF TypeOK, Shape
<1>2. LogInv => Shape
  BY DEF LogInv, AliveInv
<1> QED
  BY LogInit, LogNext, OpsInit, OpsNext, <1>1, <1>2, PTL DEF Spec, Safety

-----------------------------------------------------------------------------
(* Every label in the log is the label of a block *)

Labelled == \A k \in DOMAIN breaches : \E w \in Watchers : breaches[k] = NameOf[w]

LEMMA LabelledInit == Init => Labelled
BY DEF Init, Labelled

LEMMA LabelledNext == Shape /\ Labelled /\ [Next]_vars => Labelled'
<1> SUFFICES ASSUME Shape, Labelled, [Next]_vars PROVE Labelled'
  OBVIOUS
<1>1. ASSUME breaches' = breaches PROVE Labelled'
  BY <1>1 DEF Labelled
<1>2. ASSUME NEW w \in Watchers, AppendBreach(w) PROVE Labelled'
  <2>1. breaches' = Append(breaches, NameOf[w])
    BY <1>2 DEF AppendBreach
  <2>2. /\ DOMAIN breaches = 1..Len(breaches) /\ Len(breaches) \in Nat
        /\ DOMAIN breaches' = 1..(Len(breaches) + 1)
        /\ \A k \in 1..Len(breaches) : breaches'[k] = breaches[k]
        /\ breaches'[Len(breaches) + 1] = NameOf[w]
    BY <2>1, Constants DEF Shape
  <2>3. \A k \in DOMAIN breaches' : k \in DOMAIN breaches \/ k = Len(breaches) + 1
    BY <2>2
  <2> QED
    BY <2>2, <2>3 DEF Labelled
<1>3. CASE Run
  BY <1>1, <1>3 DEF Run, BuildAgents, BuildInjectors, BuildInvariants, Builds, SpawnAgents,
     SpawnInjectors, SpawnInvariants, WaitReturns, CollectTimelines, ZipBlocks, WriteReport,
     recorderVars
<1>4. ASSUME NEW a \in Agents, AgentRun(a) PROVE Labelled'
  BY <1>1, <1>4, AgentFrame DEF recorderVars
<1>5. ASSUME NEW i \in Injectors, InjectorRun(i) PROVE Labelled'
  BY <1>1, <1>5 DEF InjectorRun, recorderVars
<1>6. ASSUME NEW w \in Watchers, WatcherRun(w) PROVE Labelled'
  BY <1>1, <1>2, <1>6 DEF WatcherRun, WatcherRejectsParams, WatcherStarts, RoundEnds,
     CountBreach, NextRound, WatcherExits, recorderVars
<1>7. CASE Signal \/ DeadlineExpires \/ Tick \/ UNCHANGED vars
  BY <1>1, <1>7 DEF Signal, DeadlineExpires, Tick, others, vars
<1> QED
  BY <1>3, <1>4, <1>5, <1>6, <1>7 DEF Next, Terminated

-----------------------------------------------------------------------------
(* What the summary counts, where no two blocks share a label *)

Timelines == [w \in Watchers |-> Timeline(breaches, w)]

LabelsDiffer == \A v, w \in Watchers : NameOf[v] = NameOf[w] => v = w

\* A breach is listed by one of some blocks exactly if one of them recorded it,
\* and by no two.
LEMMA EntriesOf ==
  ASSUME Shape, LabelsDiffer, NEW blocks \in SUBSET Watchers
  PROVE  Cardinality(Entries(Timelines, blocks)) =
           Cardinality({k \in DOMAIN breaches : \E w \in blocks : NameOf[w] = breaches[k]})
<1> DEFINE lines == Entries(Timelines, blocks)
           places == {k \in DOMAIN breaches : \E w \in blocks : NameOf[w] = breaches[k]}
           block(k) == CHOOSE w \in blocks : NameOf[w] = breaches[k]
           f == [k \in places |-> <<block(k), k>>]
<1>1. Len(breaches) \in Nat /\ DOMAIN breaches = 1..Len(breaches)
  BY DEF Shape
<1>2. \A k \in places : block(k) \in blocks /\ NameOf[block(k)] = breaches[k]
  OBVIOUS
<1>3. lines = {line \in blocks \X places : breaches[line[2]] = NameOf[line[1]]}
  <2>1. \A w \in blocks : Timelines[w] = {k \in places : breaches[k] = NameOf[w]}
    BY DEF Timelines, Timeline
  <2> QED
    BY <2>1 DEF Entries
<1>4. IsFiniteSet(places)
  <2>1. places \in SUBSET (1..Len(breaches))
    BY <1>1
  <2>2. IsFiniteSet(1..Len(breaches))
    BY <1>1, FS_Interval
  <2> QED
    BY <2>1, <2>2, FS_Subset
<1> HIDE DEF lines, places, block
<1>5. f \in [places -> lines]
  BY <1>2, <1>3
<1>6. \A j, k \in places : f[j] = f[k] => j = k
  OBVIOUS
<1>7. ASSUME NEW line \in lines PROVE \E k \in places : f[k] = line
  <2>1. PICK w \in blocks, k \in places : line = <<w, k>> /\ breaches[k] = NameOf[w]
    BY <1>3
  <2>2. block(k) = w
    BY <1>2, <2>1 DEF LabelsDiffer
  <2> QED
    BY <2>1, <2>2
<1> HIDE DEF f
<1>8. f \in Bijection(places, lines)
  BY <1>5, <1>6, <1>7, Fun_IsBij
<1>9. ExistsBijection(places, lines)
  BY <1>8 DEF ExistsBijection
<1>10. Cardinality(lines) = Cardinality(places)
  BY <1>4, <1>9, FS_Bijection
<1> QED
  BY <1>10 DEF lines, places

\* So the cell of a label, and the total.
LEMMA EntriesOfLabel ==
  ASSUME Shape, LabelsDiffer, Labelled, NEW name \in Names
  PROVE  Cardinality(Entries(Timelines, {w \in Watchers : NameOf[w] = name}))
           = Cardinality(Places(name))
<1> DEFINE blocks == {w \in Watchers : NameOf[w] = name}
<1>1. {k \in DOMAIN breaches : \E w \in blocks : NameOf[w] = breaches[k]} = Places(name)
  BY DEF Places, Labelled
<1>2. blocks \in SUBSET Watchers
  OBVIOUS
<1> QED
  BY <1>1, <1>2, EntriesOf

LEMMA EntriesOfAll ==
  ASSUME Shape, LabelsDiffer, Labelled
  PROVE  Cardinality(Entries(Timelines, Watchers)) = Len(breaches)
<1>1. Len(breaches) \in Nat /\ DOMAIN breaches = 1..Len(breaches)
  BY DEF Shape
<1>2. {k \in DOMAIN breaches : \E w \in Watchers : NameOf[w] = breaches[k]} = 1..Len(breaches)
  BY <1>1 DEF Labelled
<1>3. Cardinality(1..Len(breaches)) = Len(breaches)
  <2>1. \A n \in Nat : Cardinality(1..n) = n
    BY FS_Interval
  <2> QED
    BY <1>1, <2>1
<1> QED
  BY <1>2, <1>3, EntriesOf

LEMMA EntriesOfKind ==
  ASSUME Shape, LabelsDiffer, NEW kind
  PROVE  Cardinality(Entries(Timelines, {w \in Watchers : KindOf[w] = kind}))
           = Cardinality(RecordedBy(kind))
<1> DEFINE blocks == {w \in Watchers : KindOf[w] = kind}
<1>1. {k \in DOMAIN breaches : \E w \in blocks : NameOf[w] = breaches[k]} = RecordedBy(kind)
  <2>1. \A k : (\E w \in blocks : NameOf[w] = breaches[k]) <=>
               \E w \in Watchers : KindOf[w] = kind /\ NameOf[w] = breaches[k]
    OBVIOUS
  <2> HIDE DEF blocks
  <2> QED
    BY <2>1 DEF RecordedBy
<1>2. blocks \in SUBSET Watchers
  OBVIOUS
<1> QED
  BY <1>1, <1>2, EntriesOf

-----------------------------------------------------------------------------
(* The report *)

Copied ==
  /\ main # "returned" => result = "none"
  /\ main = "returned" => result \in {"ok", "error"}
  /\ main \in {"zipping", "writing"} \/ result = "ok" => report.timelines = Timelines
  /\ main = "writing" \/ result = "ok" =>
       /\ report.ops = ops /\ report.errors = errors /\ report.rows = event
       /\ report.summary = Summarize(Timelines)
  /\ result = "ok" => \A i \in Injectors : pc[i] = "done"

LEMMA CopiedInit == Init => Copied
BY DEF Init, Copied

LEMMA CopiedNext == AliveInv /\ Copied /\ [Next]_vars => Copied'
<1> SUFFICES ASSUME AliveInv, Copied, [Next]_vars PROVE Copied'
  OBVIOUS
<1> USE DEF Copied
<1>0. Shape
  BY DEF AliveInv
<1>1. CASE main \in Assembling \cup {"returned"}
  <2>1. UNCHANGED <<pc, ops, errors, breaches, event>> /\ Timelines' = Timelines
    <3>1. UNCHANGED <<pc, ops, errors, breaches, event>>
      BY <1>1, RestNext DEF agentVars, recorderVars
    <3>2. Timelines' = Timelines
      BY <3>1 DEF Timelines
    <3> QED
      BY <3>1, <3>2
  <2>1a. Summarize(Timelines)' = Summarize(Timelines)
    BY <2>1 DEF Summarize, Entries
  <2>2. CASE CollectTimelines
    BY <1>0, <2>1, <2>2 DEF CollectTimelines, Goes, Shape, Timelines
  <2>3. CASE ZipBlocks
    BY <1>0, <2>1, <2>3 DEF ZipBlocks, Goes, Shape
  <2>4. CASE WriteReport
    <3>1. LiveInjectors = {} /\ main = "writing"
      BY <2>4, NobodyAlive DEF WriteReport, Goes, AliveInv, AtRest, Assembling
    <3>2. \A i \in Injectors : pc[i] = "done"
      BY <3>1 DEF LiveInjectors, InjectorsSpawned, Assembling
    <3> QED
      BY <2>1, <2>4, <3>1, <3>2 DEF WriteReport, Goes
  <2>5. CASE UNCHANGED <<main, report, result>>
    BY <2>1, <2>5
  <2>6. CollectTimelines \/ ZipBlocks \/ WriteReport \/ UNCHANGED <<main, report, result>>
    BY <1>1, AgentFrame, WatcherFrame DEF Next, Run, BuildAgents, BuildInjectors,
       BuildInvariants, Builds, SpawnAgents, SpawnInjectors, SpawnInvariants, WaitReturns,
       Goes, Assembling, InjectorRun, mainVars, Terminated, Signal, DeadlineExpires, Tick,
       others, vars
  <2> QED
    BY <2>2, <2>3, <2>4, <2>5, <2>6
<1>2. CASE main \notin Assembling \cup {"returned"}
  <2>1. CASE BuildAgents \/ BuildInjectors \/ BuildInvariants
    BY <1>2, <2>1 DEF BuildAgents, BuildInjectors, BuildInvariants, Builds, Goes
  <2>2. CASE SpawnAgents \/ SpawnInjectors \/ SpawnInvariants \/ WaitReturns
    BY <1>2, <2>2 DEF SpawnAgents, SpawnInjectors, SpawnInvariants, WaitReturns, Goes
  <2>3. CASE UNCHANGED <<main, result>>
    BY <1>2, <2>3 DEF Assembling
  <2>4. \/ BuildAgents \/ BuildInjectors \/ BuildInvariants
        \/ SpawnAgents \/ SpawnInjectors \/ SpawnInvariants \/ WaitReturns
        \/ UNCHANGED <<main, result>>
    BY <1>2, AgentFrame, WatcherFrame DEF Next, Run, CollectTimelines, ZipBlocks,
       WriteReport, Goes, Assembling, InjectorRun, mainVars, Terminated, Signal,
       DeadlineExpires, Tick, others, vars
  <2> QED
    BY <2>1, <2>2, <2>3, <2>4
<1> QED
  BY <1>1, <1>2

\* A report that is written is complete: it is the state the run ended in, and
\* where labels differ its summary is the length of the log and, label by
\* label, weft_chaos_breach_total.
THEOREM ReportIsCompleteHolds == Spec => []ReportIsComplete
<1>1. LogInv /\ Labelled /\ Copied => ReportIsComplete
  <2> SUFFICES ASSUME LogInv, Labelled, Copied,
                      main \in {"writing", "returned"}, result # "error"
               PROVE  /\ \A w \in Watchers : report.timelines[w] = Timeline(breaches, w)
                      /\ report.ops = ops /\ report.errors = errors
                      /\ report.rows = event
                      /\ LabelsDiffer =>
                           report.summary =
                             [byName |-> counter,
                              byKind |-> [kind \in Kinds |-> Cardinality(RecordedBy(kind))],
                              total |-> Len(breaches)]
    BY DEF ReportIsComplete, LabelsDiffer
  <2>1. /\ report.timelines = Timelines /\ report.ops = ops /\ report.errors = errors
        /\ report.rows = event /\ report.summary = Summarize(Timelines)
    BY DEF Copied
  <2>2. Shape /\ AtRest /\ WaitGroupExact
    BY DEF LogInv, AliveInv
  <2>3. ASSUME NEW name \in Names PROVE Cardinality(Places(name)) = counter[name]
    <3>1. LiveWatchers = {}
      BY <2>2, NobodyAlive DEF AtRest, Assembling
    <3>2. Pending(name) = {}
      BY <3>1 DEF Pending, LiveWatchers
    <3>3. counter[name] \in Nat
      BY <2>2 DEF Shape
    <3>4. Cardinality(Places(name)) = counter[name] + Cardinality(Pending(name))
      BY DEF LogInv, Mirrored
    <3> QED
      BY <3>2, <3>3, <3>4, FS_EmptySet
  <2>4. ASSUME LabelsDiffer
        PROVE  Summarize(Timelines) =
                 [byName |-> counter,
                  byKind |-> [kind \in Kinds |-> Cardinality(RecordedBy(kind))],
                  total |-> Len(breaches)]
    <3> DEFINE cell(name) ==
                 Cardinality(Entries(Timelines, {w \in Watchers : NameOf[w] = name}))
    <3>1. \A name \in Names : cell(name) = counter[name]
      BY <2>2, <2>3, <2>4, EntriesOfLabel
    <3>2. [name \in Names |-> cell(name)] = counter
      BY <2>2, <3>1 DEF Shape
    <3>3. Cardinality(Entries(Timelines, Watchers)) = Len(breaches)
      BY <2>2, <2>4, EntriesOfAll
    <3>4. \A kind \in Kinds :
            Cardinality(Entries(Timelines, {w \in Watchers : KindOf[w] = kind}))
              = Cardinality(RecordedBy(kind))
      BY <2>2, <2>4, EntriesOfKind
    <3> QED
      BY <3>2, <3>3, <3>4 DEF Summarize
  <2> QED
    BY <2>1, <2>4 DEF Timelines
<1>2. LogInv => Shape /\ AliveInv
  BY DEF LogInv, AliveInv
<1> QED
  BY LogInit, LogNext, LabelledInit, LabelledNext, CopiedInit, CopiedNext, <1>1, <1>2, PTL
     DEF Spec, Safety

-----------------------------------------------------------------------------
(* The injectors of a whole run are those of ScheduledInjectors *)

LEMMA EmbedsInit == Init => SI!Init
BY DEF Init

LEMMA EmbedsNext == [Next]_vars => [SI!Next]_SI!vars
<1> SUFFICES ASSUME [Next]_vars PROVE SI!Next \/ UNCHANGED SI!vars
  OBVIOUS
<1>1. UNCHANGED injectorVars => UNCHANGED SI!vars
  BY DEF injectorVars, SI!vars
<1>2. CASE Run
  BY <1>1, <1>2 DEF Run, BuildAgents, BuildInjectors, BuildInvariants, Builds, SpawnAgents,
     SpawnInjectors, SpawnInvariants, WaitReturns, CollectTimelines, ZipBlocks, WriteReport
<1>3. ASSUME NEW a \in Agents, AgentRun(a) PROVE UNCHANGED SI!vars
  BY <1>1, <1>3, AgentFrame
<1>4. ASSUME NEW i \in Injectors, InjectorRun(i) PROVE SI!Next
  BY <1>4 DEF InjectorRun, SI!Next
<1>5. ASSUME NEW w \in Watchers, WatcherRun(w) PROVE UNCHANGED SI!vars
  BY <1>1, <1>5, WatcherFrame
<1>6. CASE Signal \/ DeadlineExpires \/ Tick
  BY <1>6 DEF Signal, DeadlineExpires, Tick, SI!Next
<1>7. CASE UNCHANGED vars
  BY <1>7 DEF vars, SI!vars
<1> QED
  BY <1>2, <1>3, <1>4, <1>5, <1>6, <1>7 DEF Next, Terminated

\* A whole run, seen through its injectors, is a behaviour of the injector
\* goroutines alone: nothing Run, the agents or the watchers do adds a step to
\* an injector or takes one away.
THEOREM EmbedsInjectors == Spec => SI!Safety
BY EmbedsInit, EmbedsNext, PTL DEF Spec, Safety, SI!Safety

\* Proved and SI are two instances of one module with the same values, so each
\* definition of the one is that of the other.
LEMMA SameStep ==
  ASSUME NEW i \in Injectors PROVE SI!run(i) <=> Proved!run(i)
<1>1. SI!Recoverable(i) <=> Proved!Recoverable(i)
  BY DEF SI!Recoverable, Proved!Recoverable, SI!Gap, Proved!Gap
<1>2. \A r : SI!markApplied(i, r) <=> Proved!markApplied(i, r)
  BY DEF SI!markApplied, Proved!markApplied
<1>3. \A r : SI!markReverted(i, r) <=> Proved!markReverted(i, r)
  BY DEF SI!markReverted, Proved!markReverted, SI!MarkedAt, Proved!MarkedAt, SI!DetailKept,
      Proved!DetailKept
<1>4. \A r : SI!ApplyEffect(i, r) <=> Proved!ApplyEffect(i, r)
  BY DEF SI!ApplyEffect, Proved!ApplyEffect, SI!Refused, Proved!Refused, SI!Lasts, Proved!Lasts
<1>5. \A r : SI!RevertEffect(i, r) <=> Proved!RevertEffect(i, r)
  BY DEF SI!RevertEffect, Proved!RevertEffect
<1>6. \A from, to : SI!Moves(i, from, to) <=> Proved!Moves(i, from, to)
  BY DEF SI!Moves, Proved!Moves
<1>7. SI!RevertTimer(i) = Proved!RevertTimer(i) /\ SI!Results = Proved!Results
  BY DEF SI!RevertTimer, Proved!RevertTimer, SI!Gap, Proved!Gap, SI!Results, Proved!Results
<1>8. SI!ApplyReturns(i) <=> Proved!ApplyReturns(i)
  BY <1>1, <1>2, <1>4, <1>6, <1>7 DEF SI!ApplyReturns, Proved!ApplyReturns
<1>9. SI!RevertReturns(i) <=> Proved!RevertReturns(i)
  BY <1>3, <1>5, <1>6, <1>7 DEF SI!RevertReturns, Proved!RevertReturns
<1>10. /\ SI!Start(i) <=> Proved!Start(i)
       /\ SI!CallApply(i) <=> Proved!CallApply(i)
       /\ SI!CallRevert(i) <=> Proved!CallRevert(i)
  BY <1>6 DEF SI!Start, Proved!Start, SI!CallApply, Proved!CallApply, SI!ApplyDue, Proved!ApplyDue,
      SI!CallRevert, Proved!CallRevert
<1>11. /\ SI!CancelBeforeApply(i) <=> Proved!CancelBeforeApply(i)
       /\ SI!CancelInWindow(i) <=> Proved!CancelInWindow(i)
  BY <1>6 DEF SI!CancelBeforeApply, Proved!CancelBeforeApply, SI!CancelInWindow,
      Proved!CancelInWindow, SI!CancelSeen, Proved!CancelSeen, SI!OnCancel, Proved!OnCancel,
      SI!CtxDone, Proved!CtxDone, SI!Never, Proved!Never
<1> QED
  BY <1>8, <1>9, <1>10, <1>11 DEF SI!run, Proved!run

LEMMA SameInjectors ==
  /\ SI!Init => Proved!Init
  /\ [SI!Next]_SI!vars => [Proved!Next]_Proved!vars
<1>1. SI!Init => Proved!Init
  BY DEF SI!Init, Proved!Init, SI!Never, Proved!Never
<1>2. /\ SI!Signal => Proved!Signal
      /\ SI!DeadlineExpires => Proved!DeadlineExpires
      /\ SI!Tick => Proved!Tick
  BY DEF SI!Signal, Proved!Signal, SI!DeadlineExpires, Proved!DeadlineExpires, SI!Tick,
      Proved!Tick, SI!CtxDone, Proved!CtxDone, SI!Never, Proved!Never, SI!goroutineVars,
      Proved!goroutineVars
<1>3. SI!vars = Proved!vars /\ (UNCHANGED SI!vars => UNCHANGED Proved!vars)
  BY DEF SI!vars, Proved!vars
<1>4. SI!Next => Proved!Next \/ UNCHANGED Proved!vars
  BY <1>2, <1>3, SameStep DEF SI!Next, Proved!Next, SI!Terminated
<1> QED
  BY <1>1, <1>3, <1>4

LEMMA RunsInjectors == Spec => Proved!Safety
<1>1. Init => Proved!Init
  BY EmbedsInit, SameInjectors
<1>2. [Next]_vars => [Proved!Next]_Proved!vars
  BY EmbedsNext, SameInjectors
<1> QED
  BY <1>1, <1>2, PTL DEF Spec, Safety, Proved!Safety

\* What is proved of the injectors alone holds in a whole run: no silent
\* fault, every recoverable fault reverted, the window kept.
THEOREM InjectorsInARun ==
  Spec => [](SI!NoSilentFault /\ SI!HealedByExit /\ SI!WindowKept)
<1>1. SI!SchedulesAssumption /\ SI!TimeAssumption
  BY InjectorsAssumption
<1>2. Proved!Safety => []Proved!NoSilentFault
  BY <1>1, Proved!NoSilentFaultHolds DEF SI!SchedulesAssumption, SI!TimeAssumption
<1>3. Proved!Safety => []Proved!HealedByExit
  BY <1>1, Proved!HealedByExitHolds DEF SI!SchedulesAssumption, SI!TimeAssumption
<1>4. Proved!Safety => []Proved!WindowKept
  BY <1>1, Proved!WindowKeptHolds DEF SI!SchedulesAssumption, SI!TimeAssumption
<1>5. /\ Proved!NoSilentFault => SI!NoSilentFault
      /\ Proved!HealedByExit => SI!HealedByExit
      /\ Proved!WindowKept => SI!WindowKept
  BY DEF SI!NoSilentFault, Proved!NoSilentFault, SI!HealedByExit, Proved!HealedByExit,
      SI!WindowKept, Proved!WindowKept, SI!Recoverable, Proved!Recoverable, SI!Gap,
      Proved!Gap, SI!CtxDone, Proved!CtxDone, SI!Never, Proved!Never
<1> QED
  BY RunsInjectors, <1>2, <1>3, <1>4, <1>5, PTL

\* The journal of a whole run is final.
THEOREM JournalIsFinalInARun == Spec => SI!JournalIsFinal
<1>1. Proved!Safety => Proved!JournalIsFinal
  BY InjectorsAssumption, Proved!JournalIsFinalHolds
     DEF SI!SchedulesAssumption, SI!TimeAssumption
<1>2. Proved!JournalIsFinal => SI!JournalIsFinal
  BY PTL DEF SI!JournalIsFinal, Proved!JournalIsFinal, SI!Never, Proved!Never, SI!vars,
     Proved!vars
<1> QED
  BY RunsInjectors, <1>1, <1>2, PTL

\* A whole run implements the abstract fault window.
THEOREM ImplementsFaultWindowInARun == Spec => SI!FW!Safety
<1>1. Proved!Safety => Proved!FW!Safety
  BY InjectorsAssumption, Proved!Refinement DEF SI!SchedulesAssumption, SI!TimeAssumption
<1>2. /\ Proved!phase = SI!phase /\ Proved!openedAt = SI!openedAt
      /\ Proved!CtxDone = SI!CtxDone
      /\ Proved!phase' = SI!phase' /\ Proved!openedAt' = SI!openedAt'
      /\ Proved!CtxDone' = SI!CtxDone'
  BY DEF Proved!phase, SI!phase, Proved!PhaseOf, SI!PhaseOf, Proved!openedAt, SI!openedAt,
      Proved!CtxDone, SI!CtxDone, Proved!Never, SI!Never
<1>3. Proved!FW!Init => SI!FW!Init
  BY <1>2 DEF Proved!FW!Init, SI!FW!Init
<1>4. ASSUME NEW i \in Injectors
      PROVE  /\ Proved!FW!Open(i) => SI!FW!Open(i)
             /\ Proved!FW!Skip(i) => SI!FW!Skip(i)
             /\ Proved!FW!Close(i) => SI!FW!Close(i)
  BY <1>2 DEF Proved!FW!Open, SI!FW!Open, Proved!FW!Skip, SI!FW!Skip, Proved!FW!Close, SI!FW!Close,
      Proved!FW!Closes, SI!FW!Closes, Proved!FW!Gap, SI!FW!Gap
<1>5. /\ Proved!FW!Stop => SI!FW!Stop
      /\ Proved!FW!Advance => SI!FW!Advance
      /\ UNCHANGED Proved!FW!abstractVars => UNCHANGED SI!FW!abstractVars
  BY <1>2 DEF Proved!FW!Stop, SI!FW!Stop, Proved!FW!Advance, SI!FW!Advance, Proved!FW!abstractVars,
      SI!FW!abstractVars
<1>6. [Proved!FW!Next]_Proved!FW!abstractVars => [SI!FW!Next]_SI!FW!abstractVars
  BY <1>4, <1>5 DEF Proved!FW!Next, SI!FW!Next
<1> QED
  BY RunsInjectors, <1>1, <1>3, <1>6, PTL DEF Proved!FW!Safety, SI!FW!Safety

\* A fault that outlives a run is in its report: no fault is silent, by what
\* is proved of the injectors alone, and the report holds the rows as they are
\* when every injector is done.
THEOREM FaultsAreReportedHolds == Spec => []FaultsAreReported
<1>1. SI!NoSilentFault /\ AliveInv /\ Copied => FaultsAreReported
  <2> SUFFICES ASSUME SI!NoSilentFault, AliveInv, Copied, result = "ok",
                      NEW i \in Injectors, fault[i]
               PROVE  /\ report.rows[i].appliedAt # SI!Never
                      /\ ~SI!Recoverable(i) \/ report.rows[i].detail # ""
    BY DEF FaultsAreReported
  <2>1. report.rows = event
    BY DEF Copied
  <2>2. pc[i] = "done"
    BY DEF Copied
  <2> QED
    BY <2>1, <2>2 DEF SI!NoSilentFault
<1>2. AliveInv => Shape
  BY DEF AliveInv
<1> QED
  BY <1>2, AliveInit, AliveNext, CopiedInit, CopiedNext, InjectorsInARun, <1>1, PTL
     DEF Spec, Safety

-----------------------------------------------------------------------------
(* The agents of a whole run are drivers, as Agent is one *)

LEMMA DriverInit ==
  ASSUME NEW a \in Agents PROVE Init => D(a)!Init
BY DEF Init, SI!Init, CtxDone, SI!CtxDone, Place, Counted, D!Init

\* A step that leaves the context and the agent alone is none of the driver's.
LEMMA DriverStutters ==
  ASSUME NEW a \in Agents,
         UNCHANGED <<ctxEndedAt, agent[a], ops[a], errors[a]>>
  PROVE  UNCHANGED D(a)!driverVars
BY DEF D!driverVars, Place, Counted, CtxDone, SI!CtxDone

LEMMA DriverNext ==
  ASSUME NEW a \in Agents
  PROVE  AliveInv /\ [Next]_vars => [D(a)!Next]_(D(a)!driverVars)
<1> SUFFICES ASSUME AliveInv, [Next]_vars PROVE D(a)!Next \/ UNCHANGED D(a)!driverVars
  OBVIOUS
<1>0. /\ agent \in [Agents -> AgentSteps] /\ ops \in [Agents -> Nat]
      /\ errors \in [Agents -> Nat]
  BY DEF AliveInv, Shape
<1>1. CASE SpawnAgents
  <2>1. agent[a] = "unspawned" /\ agent'[a] = "idle"
    BY <1>1 DEF SpawnAgents, Goes, AliveInv, Spawned, Early
  <2> QED
    BY <1>1, <2>1 DEF SpawnAgents, injectorVars, CtxDone, SI!CtxDone, Place, Counted,
       D!driverVars
<1>2. CASE \/ BuildAgents \/ BuildInjectors \/ BuildInvariants \/ SpawnInjectors
           \/ SpawnInvariants \/ WaitReturns \/ CollectTimelines \/ ZipBlocks \/ WriteReport
  <2>1. UNCHANGED <<ctxEndedAt, agent, ops, errors>>
    BY <1>2 DEF BuildAgents, BuildInjectors, BuildInvariants, Builds, SpawnInjectors,
       SpawnInvariants, WaitReturns, CollectTimelines, ZipBlocks, WriteReport,
       injectorVars, agentVars
  <2> QED
    BY <2>1, DriverStutters
<1>3. ASSUME NEW b \in Agents, AgentRun(b), b # a PROVE UNCHANGED D(a)!driverVars
  <2>1. UNCHANGED <<ctxEndedAt, agent[a], ops[a], errors[a]>>
    BY <1>0, <1>3 DEF AgentRun, AgentDrains, AgentTicks, AgentCountsOp, AgentCountsError,
       AgentGoes, injectorVars
  <2> QED
    BY <2>1, DriverStutters
<1>4. CASE AgentDrains(a)
  <2>1. /\ agent[a] = "idle" /\ agent'[a] = "done" /\ CtxDone
        /\ UNCHANGED <<ctxEndedAt, ops, errors>>
    BY <1>0, <1>4 DEF AgentDrains, AgentGoes, injectorVars
  <2> QED
    BY <2>1 DEF D!Next, D!Exit, Place, Counted, CtxDone, SI!CtxDone
<1>5. CASE AgentTicks(a)
  <2>1. /\ agent[a] = "idle" /\ agent'[a] = "dispatching"
        /\ UNCHANGED <<ctxEndedAt, ops, errors>>
    BY <1>0, <1>5 DEF AgentTicks, AgentGoes, injectorVars
  <2> QED
    BY <2>1 DEF D!Next, D!Call, Place, Counted, CtxDone, SI!CtxDone
<1>6. CASE AgentCountsOp(a)
  <2>1. /\ agent[a] = "dispatching" /\ agent'[a] \in {"idle", "failed"}
        /\ ops'[a] = ops[a] + 1
        /\ UNCHANGED <<ctxEndedAt, errors>>
    BY <1>0, <1>6 DEF AgentCountsOp, AgentGoes, injectorVars
  <2>2. CASE agent'[a] = "idle"
    BY <2>1, <2>2 DEF D!Next, D!Return, Place, Counted, CtxDone, SI!CtxDone
  <2>3. CASE agent'[a] = "failed"
    <3>1. Counted(a)' = Counted(a) /\ Place(a)' = Place(a)
      BY <1>0, <2>1, <2>3 DEF Counted, Place
    <3> QED
      BY <2>1, <3>1 DEF D!driverVars, CtxDone, SI!CtxDone
  <2> QED
    BY <2>1, <2>2, <2>3
<1>7. CASE AgentCountsError(a)
  <2>1. /\ agent[a] = "failed" /\ agent'[a] = "idle"
        /\ errors'[a] = errors[a] + 1
        /\ UNCHANGED <<ctxEndedAt, ops>>
    BY <1>0, <1>7 DEF AgentCountsError, AgentGoes, injectorVars
  <2>2. Counted(a)' = Counted(a) + 1
    BY <1>0, <2>1 DEF Counted
  <2> QED
    BY <2>1, <2>2 DEF D!Next, D!Return, Place, CtxDone, SI!CtxDone
<1>8. ASSUME NEW i \in Injectors, InjectorRun(i) PROVE UNCHANGED D(a)!driverVars
  <2>1. UNCHANGED <<ctxEndedAt, agent, ops, errors>>
    BY <1>8 DEF InjectorRun, agentVars, SI!run, SI!Start, SI!CancelBeforeApply, SI!CallApply,
       SI!ApplyReturns, SI!CancelInWindow, SI!CallRevert, SI!RevertReturns
  <2> QED
    BY <2>1, DriverStutters
<1>9. ASSUME NEW w \in Watchers, WatcherRun(w) PROVE UNCHANGED D(a)!driverVars
  BY <1>9, WatcherFrame, DriverStutters DEF injectorVars, agentVars
<1>10. CASE Signal \/ DeadlineExpires
  <2>1. ~CtxDone /\ CtxDone'
    <3>1. now \in Nat
      BY Constants DEF AliveInv, Shape, SI!TypeOK
    <3> QED
      BY <1>10, <3>1 DEF Signal, DeadlineExpires, SI!Signal, SI!DeadlineExpires, SI!Never,
         CtxDone, SI!CtxDone
  <2>2. UNCHANGED <<agent, ops, errors>>
    BY <1>10 DEF Signal, DeadlineExpires, others
  <2> QED
    BY <2>1, <2>2 DEF D!Next, D!End, Place, Counted
<1>11. CASE Tick \/ UNCHANGED vars
  <2>1. UNCHANGED <<ctxEndedAt, agent, ops, errors>>
    BY <1>11 DEF Tick, SI!Tick, others, vars
  <2> QED
    BY <2>1, DriverStutters
<1> QED
  BY <1>1, <1>2, <1>3, <1>4, <1>5, <1>6, <1>7, <1>8, <1>9, <1>10, <1>11
     DEF Next, Run, AgentRun, Terminated

\* Each agent of a run is the driver that Agent implements: what Agent adds to
\* it is not seen by Run, and the two additions to the counters do not show.
THEOREM AgentsAreDrivers ==
  ASSUME NEW a \in Agents PROVE Spec => D(a)!Safety
<1>1. Init => D(a)!Init
  BY DriverInit
<1>2. AliveInv /\ [Next]_vars => [D(a)!Next]_(D(a)!driverVars)
  BY DriverNext
<1> QED
  BY AliveInit, AliveNext, <1>1, <1>2, PTL DEF Spec, Safety, D!Safety
=============================================================================
