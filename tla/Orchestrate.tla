----------------------------- MODULE Orchestrate -----------------------------
(***************************************************************************)
(* orchestrate.Run: one whole run of the harness.  The main goroutine      *)
(* builds and spawns the workload agents, the injectors and the invariant  *)
(* watchers, waits for all of them on a WaitGroup, and then assembles the  *)
(* report from what they left: the breach log of the shared Recorder, the  *)
(* agents' atomic counters and the injectors' journal rows.                *)
(*                                                                         *)
(* The injectors are those of ScheduledInjectors, step for step.  An agent *)
(* is its loop and its two counters (Agent has the rest), a watcher is its *)
(* loop and the breaches it records (Watcher has the rest).                *)
(***************************************************************************)
EXTENDS Integers, Sequences, FiniteSets

CONSTANTS Injectors, Schedules, Duration, MaxTime,   \* as in ScheduledInjectors
          Agents,        \* the workload blocks
          Watchers,      \* the invariant blocks
          Names,         \* the labels of invariant blocks
          Kinds,         \* the kinds of invariant
          NameOf,        \* NameOf[w]: the label of block w
          KindOf,        \* KindOf[w]: its kind
          BadParams,     \* the blocks whose Run rejects its params
          MaxOps,        \* bound on the dispatches of an agent, for TLC
          MaxBreaches    \* bound on the breach log, for TLC

ASSUME BlocksAssumption ==
  /\ IsFiniteSet(Injectors) /\ IsFiniteSet(Agents) /\ IsFiniteSet(Watchers)
  /\ Watchers # {}                     \* scenario.Validate refuses none
  /\ NameOf \in [Watchers -> Names] /\ KindOf \in [Watchers -> Kinds]
  /\ BadParams \subseteq Watchers
  /\ MaxOps \in Nat /\ MaxBreaches \in Nat

VARIABLES schedule, now, ctxEndedAt, pc, timer, event, fault,  \* the injectors
          main,        \* where Run is
          wg,          \* the WaitGroup's counter
          agent,       \* where the goroutine of each agent is
          ops, errors, \* its atomic counters
          watcher,     \* where the goroutine of each watcher is
          breaches,    \* the Recorder's log: the label of each breach
          counter,     \* weft_chaos_breach_total, by label
          report,      \* what Run has read of the state so far
          result       \* what Run returned

injectorVars == <<schedule, now, ctxEndedAt, pc, timer, event, fault>>
agentVars == <<agent, ops, errors>>
recorderVars == <<breaches, counter>>
mainVars == <<main, report, result>>
vars == <<schedule, now, ctxEndedAt, pc, timer, event, fault, main, wg, agent,
          ops, errors, watcher, breaches, counter, report, result>>

SI == INSTANCE ScheduledInjectors

ASSUME InjectorsAssumption == SI!SchedulesAssumption /\ SI!TimeAssumption

CtxDone == SI!CtxDone

-----------------------------------------------------------------------------
MainSteps == {"arming", "armInjectors", "armInvariants", "spawnAgents", "spawnInjectors", "spawnInvariants",
              "waiting", "draining", "zipping", "writing", "returned"}
Assembling == {"draining", "zipping", "writing"}
AgentSteps == {"unspawned", "idle", "dispatching", "failed", "done"}
WatcherSteps == {"unspawned", "spawned", "probing", "appended", "polling", "done"}

EmptyReport == [timelines |-> [w \in Watchers |-> {}],
                ops |-> [a \in Agents |-> 0],
                errors |-> [a \in Agents |-> 0],
                rows |-> event,
                summary |-> [byName |-> [n \in Names |-> 0],
                             byKind |-> [k \in Kinds |-> 0], total |-> 0]]

Init ==
  /\ SI!Init
  /\ main = "arming"
  /\ wg = 0
  /\ agent = [a \in Agents |-> "unspawned"]
  /\ ops = [a \in Agents |-> 0]
  /\ errors = [a \in Agents |-> 0]
  /\ watcher = [w \in Watchers |-> "unspawned"]
  /\ breaches = <<>>
  /\ counter = [n \in Names |-> 0]
  /\ report = EmptyReport
  /\ result = "none"

-----------------------------------------------------------------------------
(* The main goroutine *)

Goes(from, to) == main = from /\ main' = to

\* A builder returns the error of the first block it cannot build, and the run
\* ends before anything is spawned.
Builds(from, to) ==
  /\ \/ Goes(from, to) /\ UNCHANGED result
     \/ Goes(from, "returned") /\ result' = "error"
  /\ UNCHANGED <<injectorVars, wg, agentVars, watcher, recorderVars, report>>

\* burst_every or burst_for is no duration.
BuildAgents == Builds("arming", "armInjectors")

\* at_offset or recover_at is no duration, or the kind is unknown.  The blocks
\* that are built are the Schedules.
BuildInjectors == Builds("armInjectors", "armInvariants")

\* window is no duration, or the kind is unknown.  Nobody looks at params.
BuildInvariants == Builds("armInvariants", "spawnAgents")

\* Each loop does wg.Add(1) and go for every block of its kind.
SpawnAgents ==
  /\ Goes("spawnAgents", "spawnInjectors")
  /\ wg' = wg + Cardinality(Agents)
  /\ agent' = [a \in Agents |-> "idle"]
  /\ UNCHANGED <<injectorVars, ops, errors, watcher, recorderVars, report, result>>

SpawnInjectors ==
  /\ Goes("spawnInjectors", "spawnInvariants")
  /\ wg' = wg + Cardinality(Injectors)
  /\ UNCHANGED <<injectorVars, agentVars, watcher, recorderVars, report, result>>

SpawnInvariants ==
  /\ Goes("spawnInvariants", "waiting")
  /\ wg' = wg + Cardinality(Watchers)
  /\ watcher' = [w \in Watchers |-> "spawned"]
  /\ UNCHANGED <<injectorVars, agentVars, recorderVars, report, result>>

WaitOverAtDeadline == CtxDone   \* mutant: waits for the context only

WaitOver == wg = 0

\* wg.Wait returns
WaitReturns ==
  /\ WaitOver
  /\ Goes("waiting", "draining")
  /\ UNCHANGED <<injectorVars, wg, agentVars, watcher, recorderVars, report, result>>

\* byName[v.Name]: the breaches of the block's label.  They keep the order of
\* the log, so their places in it say which they are and in what order.
Timeline(log, w) == {k \in DOMAIN log : log[k] = NameOf[w]}

\* After the sleep: collectInvariantTimelines over a snapshot of the log.
CollectTimelines ==
  /\ Goes("draining", "zipping")
  /\ report' = [report EXCEPT !.timelines = [w \in Watchers |-> Timeline(breaches, w)]]
  /\ UNCHANGED <<injectorVars, wg, agentVars, watcher, recorderVars, result>>

\* The lines of the report: a breach counts once for every block that lists it.
Entries(timelines, blocks) == UNION {{w} \X timelines[w] : w \in blocks}

\* Summarize: every block adds the breaches of its timeline to the cell of its
\* label, to that of its kind and to the total.
Summarize(timelines) ==
  LET Sum(blocks) == Cardinality(Entries(timelines, blocks))
  IN  [byName |-> [n \in Names |-> Sum({w \in Watchers : NameOf[w] = n})],
       byKind |-> [k \in Kinds |-> Sum({w \in Watchers : KindOf[w] = k})],
       total |-> Sum(Watchers)]

\* The workload entries and the injector rows.
ZipBlocks ==
  /\ Goes("zipping", "writing")
  /\ report' = [report EXCEPT !.ops = ops, !.errors = errors, !.rows = event,
                              !.summary = Summarize(report.timelines)]
  /\ UNCHANGED <<injectorVars, wg, agentVars, watcher, recorderVars, result>>

\* report.Write succeeds or its error is returned.
WriteReport ==
  /\ Goes("writing", "returned")
  /\ result' \in {"ok", "error"}
  /\ UNCHANGED <<injectorVars, wg, agentVars, watcher, recorderVars, report>>

Run == \/ BuildAgents \/ BuildInjectors \/ BuildInvariants
       \/ SpawnAgents \/ SpawnInjectors \/ SpawnInvariants
       \/ WaitReturns
       \/ CollectTimelines \/ ZipBlocks \/ WriteReport

-----------------------------------------------------------------------------
(* An agent: the select loop of Agent.Run, and dispatchOne with its two    *)
(* separate atomic additions.                                              *)

AgentGoes(a, from, to) == agent[a] = from /\ agent' = [agent EXCEPT ![a] = to]

\* The context branch; the deferred wg.Done follows.
AgentDrains(a) ==
  /\ CtxDone
  /\ AgentGoes(a, "idle", "done")
  /\ wg' = wg - 1
  /\ UNCHANGED <<injectorVars, ops, errors, watcher, recorderVars, mainVars>>

\* The tick branch, ready or not ready whatever the context says.
AgentTicks(a) ==
  /\ ops[a] < MaxOps
  /\ AgentGoes(a, "idle", "dispatching")
  /\ UNCHANGED <<injectorVars, wg, ops, errors, watcher, recorderVars, mainVars>>

\* a.ops.Add(1)
AgentCountsOp(a) ==
  /\ \E to \in {"idle", "failed"} : AgentGoes(a, "dispatching", to)
  /\ ops' = [ops EXCEPT ![a] = @ + 1]
  /\ UNCHANGED <<injectorVars, wg, errors, watcher, recorderVars, mainVars>>

\* a.errors.Add(1)
AgentCountsError(a) ==
  /\ AgentGoes(a, "failed", "idle")
  /\ errors' = [errors EXCEPT ![a] = @ + 1]
  /\ UNCHANGED <<injectorVars, wg, ops, watcher, recorderVars, mainVars>>

AgentRun(a) == AgentDrains(a) \/ AgentTicks(a) \/ AgentCountsOp(a) \/ AgentCountsError(a)

-----------------------------------------------------------------------------
(* An injector: one step of its goroutine, and wg.Done with the last.      *)

InjectorsSpawned == main \in {"spawnInvariants", "waiting"} \cup Assembling

InjectorRun(i) ==
  /\ InjectorsSpawned
  /\ SI!run(i)
  /\ wg' = IF pc'[i] = "done" THEN wg - 1 ELSE wg
  /\ UNCHANGED <<agentVars, watcher, recorderVars, mainVars>>

-----------------------------------------------------------------------------
(* A watcher: Run of an Invariant, and Recorder.Record.                    *)

WatcherGoes(w, from, to) ==
  watcher[w] = from /\ watcher' = [watcher EXCEPT ![w] = to]

DoneForgotten == UNCHANGED wg   \* mutant: wg.Done is not deferred

\* The deferred wg.Done of a goroutine whose Run returns an error.
DoneOnError == wg' = wg - 1

\* Run returns an error, which the goroutine only logs.
WatcherRejectsParams(w) ==
  /\ w \in BadParams
  /\ WatcherGoes(w, "spawned", "done")
  /\ DoneOnError
  /\ UNCHANGED <<injectorVars, agentVars, recorderVars, mainVars>>

\* One evaluation at once, so that a short run reports a round.
WatcherStarts(w) ==
  /\ w \notin BadParams
  /\ WatcherGoes(w, "spawned", "probing")
  /\ UNCHANGED <<injectorVars, wg, agentVars, recorderVars, mainVars>>

\* A probe that ends the round without a breach.
RoundEnds(w) ==
  /\ WatcherGoes(w, "probing", "polling")
  /\ UNCHANGED <<injectorVars, wg, agentVars, recorderVars, mainVars>>

\* Record, under the mutex: the breach is appended to the log.
AppendBreach(w) ==
  /\ Len(breaches) < MaxBreaches
  /\ WatcherGoes(w, "probing", "appended")
  /\ breaches' = Append(breaches, NameOf[w])
  /\ UNCHANGED <<injectorVars, wg, agentVars, counter, mainVars>>

IncTwice(n) == n + 2   \* mutant: counted by the watcher too
Flagged(n) == 1        \* mutant: a gauge that is set

Inc(n) == n + 1

\* Record, after the unlock: the counter mirrors it.  The round goes on, there
\* may be another tenant, URL or event to look at.
CountBreach(w) ==
  /\ WatcherGoes(w, "appended", "probing")
  /\ counter' = [counter EXCEPT ![NameOf[w]] = Inc(@)]
  /\ UNCHANGED <<injectorVars, wg, agentVars, breaches, mainVars>>

\* The ticker branch of the select.
NextRound(w) ==
  /\ WatcherGoes(w, "polling", "probing")
  /\ UNCHANGED <<injectorVars, wg, agentVars, recorderVars, mainVars>>

\* The context branch, and wg.Done.
WatcherExits(w) ==
  /\ CtxDone
  /\ WatcherGoes(w, "polling", "done")
  /\ wg' = wg - 1
  /\ UNCHANGED <<injectorVars, agentVars, recorderVars, mainVars>>

WatcherRun(w) == \/ WatcherRejectsParams(w) \/ WatcherStarts(w)
                 \/ RoundEnds(w) \/ AppendBreach(w) \/ CountBreach(w)
                 \/ NextRound(w) \/ WatcherExits(w)

-----------------------------------------------------------------------------
others == <<main, wg, agent, ops, errors, watcher, breaches, counter, report, result>>

Signal == SI!Signal /\ UNCHANGED others
DeadlineExpires == SI!DeadlineExpires /\ UNCHANGED others
Tick == SI!Tick /\ UNCHANGED others

\* Run has returned and the clock is at its bound.
Terminated == main = "returned" /\ CtxDone /\ now = MaxTime /\ UNCHANGED vars

Next == \/ Run
        \/ \E a \in Agents : AgentRun(a)
        \/ \E i \in Injectors : InjectorRun(i)
        \/ \E w \in Watchers : WatcherRun(w)
        \/ Signal \/ DeadlineExpires \/ Tick
        \/ Terminated

Safety == Init /\ [][Next]_vars

\* The scheduler runs what can run, calls return, time passes.  A watcher's
\* select whose context branch stays ready takes it in the end, however often
\* the ticker was ready too: Go picks among ready branches at random.  (For an
\* agent the same holds, and MaxOps makes weak fairness enough.)
Fairness ==
  /\ WF_vars(Run)
  /\ WF_vars(Tick) /\ WF_vars(DeadlineExpires)
  /\ \A i \in Injectors : WF_vars(InjectorRun(i))
  /\ \A a \in Agents : WF_vars(AgentRun(a))
  /\ \A w \in Watchers : WF_vars(WatcherRun(w)) /\ SF_vars(WatcherExits(w))

Spec == Safety /\ Fairness

-----------------------------------------------------------------------------
(* Properties *)

TypeOK ==
  /\ SI!TypeOK
  /\ main \in MainSteps
  /\ wg \in Int
  /\ agent \in [Agents -> AgentSteps]
  /\ ops \in [Agents -> 0..MaxOps]
  /\ errors \in [Agents -> 0..MaxOps]
  /\ watcher \in [Watchers -> WatcherSteps]
  /\ breaches \in Seq(Names) /\ Len(breaches) <= MaxBreaches
  /\ counter \in [Names -> 0..MaxBreaches]
  /\ result \in {"none", "ok", "error"}

\* The goroutines that have been spawned and have not exited.
LiveAgents == {a \in Agents : agent[a] \notin {"unspawned", "done"}}
LiveInjectors == IF InjectorsSpawned THEN {i \in Injectors : pc[i] # "done"} ELSE {}
LiveWatchers == {w \in Watchers : watcher[w] \notin {"unspawned", "done"}}

\* Every wg.Add is matched by one wg.Done however a goroutine ends, an early
\* error included: the counter is the number of live goroutines, so it is
\* never negative (a panic in Go) and Wait returns neither early nor never.
WaitGroupExact ==
  wg = Cardinality(LiveAgents) + Cardinality(LiveInjectors) + Cardinality(LiveWatchers)

Occurrences(name) == Cardinality({k \in DOMAIN breaches : breaches[k] = name})

\* Record appends under the mutex and counts after it: the counter of a label
\* lags the log by exactly the watchers caught between the two, so when the
\* report is assembled /metrics and the report agree.
CounterMirrorsLog ==
  /\ \A name \in Names :
       Occurrences(name) =
         counter[name]
           + Cardinality({w \in Watchers : watcher[w] = "appended" /\ NameOf[w] = name})
  /\ main \in Assembling => \A name \in Names : counter[name] = Occurrences(name)

\* The breaches that blocks of a kind have recorded, where labels differ.
RecordedBy(kind) ==
  {k \in DOMAIN breaches :
     \E w \in Watchers : KindOf[w] = kind /\ NameOf[w] = breaches[k]}

\* What the report says is the state the run ended in: no breach, dispatch or
\* revert is missing from it, although Run reads them one after the other, and
\* where labels differ its summary is what /metrics shows, and of a kind what
\* blocks of that kind have recorded.
ReportIsComplete ==
  main \in {"writing", "returned"} /\ result # "error" =>
    /\ \A w \in Watchers : report.timelines[w] = Timeline(breaches, w)
    /\ report.ops = ops /\ report.errors = errors
    /\ report.rows = event
    /\ (\A v, w \in Watchers : NameOf[v] = NameOf[w] => v = w)
         => report.summary =
              [byName |-> counter,
               byKind |-> [kind \in Kinds |-> Cardinality(RecordedBy(kind))],
               total |-> Len(breaches)]

\* A fault that outlives a run is in its report: a permanent block with its
\* applied_at, or a recoverable one with the error of the call that failed.
FaultsAreReported ==
  result = "ok" =>
    \A i \in Injectors :
      fault[i] => /\ report.rows[i].appliedAt # SI!Never
                  /\ ~SI!Recoverable(i) \/ report.rows[i].detail # ""

\* From the moment wg.Wait returns nobody writes what the report is read
\* from, which is why Run may read it without a common lock.
NothingMovesAfterWait ==
  [][(main \in Assembling \cup {"returned"}) =>
       /\ UNCHANGED <<wg, agentVars, watcher, recorderVars>>
       /\ pc' = pc /\ event' = event /\ fault' = fault]_vars

\* The two additions of dispatchOne as one: a call has returned once it is
\* counted in full.  An agent not yet spawned is an idle one.
Place(a) == CASE agent[a] \in {"unspawned", "idle"} -> "idle"
              [] agent[a] \in {"dispatching", "failed"} -> "calling"
              [] OTHER -> "done"
Counted(a) == IF agent[a] = "failed" THEN ops[a] - 1 ELSE ops[a]

D(a) == INSTANCE Driver WITH
          ended <- CtxDone, at <- Place(a), ops <- Counted(a), errors <- errors[a]

\* Run returns: the deadline ends the context, every goroutine notices it,
\* and wg.Wait lets the report be written.
RunReturns == <>(main = "returned")

-----------------------------------------------------------------------------
(* What the repository's text says and the code does not do. *)

\* orchestrate.go:62-64, "an invariant with bad params [...] is fatal - we
\* want to fail loud before any churn rather than silently skip", and :51-53,
\* Run "returns the first error from any goroutine".
BadParamsAreFatal == result = "ok" => BadParams = {}

\* report.go:100, "InvariantTimeline collects every breach for one invariant":
\* each breach is in the timeline of the one block that recorded it, and the
\* total counts it once.
BreachesCountedOnce ==
  main \in {"writing", "returned"} /\ result # "error" => report.summary.total = Len(breaches)
=============================================================================
