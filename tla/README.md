# TLA+ models of weft-chaos

`weft-chaos run` drives churn against a live cluster, injects faults on a
schedule, watches invariants and writes one JSON report. This directory models
the program's concurrent core (who runs when, what is still held when the run
ends, what the report may claim), checks it with TLC and proves the central
results with TLAPS. Line numbers are those of the sources beside it.

## The system

| Part | State it keeps | Operations | Hard behaviour |
|---|---|---|---|
| `cmd/weft-chaos` `doRun`, `plan` | flags, run context, metrics listener | load, validate, guard, dial, listen, run, deferred stop; load and print | signal or deadline at any time, a check that fails late, a kill |
| `orchestrate.Run` | WaitGroup, recorder, report | build, spawn, wait, assemble, write | everything it reads is written by other goroutines |
| `scheduledInjector.run` | two timers, journal row (`injectorEvent`) | Apply, Revert, markApplied, markReverted | selects with two ready branches, failing or slow calls, a run that ends inside a fault window |
| `agents.Agent` | round-robin cursor, dispatch count, burst state, two atomic counters | Run, dispatchOne, dispatch | bursts entered and left only at ticks, calls that time out but took effect |
| `invariants.*` | ticker; a baseline for `bus_drops_zero` | Run, evaluate | hung pages, shared time budgets, the end of the run inside a probe, restarts of what is scraped |
| `invariants.Recorder` | breach log under a mutex, Prometheus counter | Record, Snapshot | append and count are two steps |
| `wclient` | HTTP client with a 5 s timeout | create, delete, probe, scrape, parse | answers that are lost, pages whose labels mislead the parser |
| `report` | the report file and its `.tmp` | Summarize; write, rename, remove | a kill or an error between two calls, two invocations on one `.tmp` |
| `injectors.*` | none (scaffolds) | Apply checks its block and logs, Revert logs | a block refused only when its time has come |
| `cluster`, `scenario` | parsed files | Load, ConfirmDestructive, Validate | none of their own |
| `metrics` | registry, HTTP listener | New, ServeBackground, stop | the address is held until stop |
| `scripts/` | none | sequential shell scripts for a lab | not modelled: they drive another binary over ssh |

`doRun` makes one context with the deadline under one with SIGINT/SIGTERM, and
`orchestrate.Run` starts one goroutine per workload, injector and invariant on
it. They meet only in the recorder, the journal rows, the agents' counters and
the WaitGroup; after `wg.Wait` the main goroutine reads all of them into the
report. What makes each part correct, and where it can go wrong, is the
`hazards` list of `PROJECT.json`, each entry at its line and with the
properties that cover it.

## Modules

| Module | Models | State and actions against the code |
|---|---|---|
| `FaultWindow` | abstract: what an injector block promises | a window opens at most once and not before `at_offset`, a recoverable one closes exactly once, early only when the run is stopped |
| `ScheduledInjectors` | `scheduledInjector.run`, orchestrate.go 187-271; what the three kinds of `internal/injectors` refuse | `pc[i]` is the goroutine's place, `timer[i]` the timer it waits for, `event[i]` its journal row, `fault[i]` the cluster's side; one action per select branch and one each for the call and the return of Apply and Revert |
| `Orchestrate` | `Run`, its builders and `collectInvariantTimelines`, orchestrate.go 54-182, 273-352; `Recorder`; `Summarize` | embeds `ScheduledInjectors` as `SI` and adds the main goroutine (`main`), the WaitGroup (`wg`), agents and watchers reduced to what they write; `Record` is two actions; the summary is by label, by kind and in total |
| `Driver` | abstract: a workload driver as a reader of its totals knows it | one call at a time, counted once when it has returned, an exit between two calls of a run that has ended |
| `Agent` | `Agent.Run`, `dispatchOne`, agent.go; create and delete of wclient.go | `StartDispatch` is the tick branch up to the call, `CallReturns` the rest of the loop body, the burst update included; `store` is what the cluster holds; `overdue` is history: the dispatches of the current window that began when `burst_for` was over |
| `Watcher` | loop and `evaluate` of the four stateless invariants | `kind` selects among them; a target is good, bad, down or hung; `deadline` is the probe context, `giveUp` the client's own timeout; a breach carries the history its verdict is judged by, `behind` the targets blamed before it in the round |
| `DropsWatcher` | `bus_drops_zero` | `baseline` is the local of `Run`; `value` is the summed counter of the cluster, `drops` and `restarts` what happened to it, `fell` what restarts took from it |
| `Scrape` | one round of `zombies_zero` and `respawn_within_sla` over `ScrapeMetric`, `ScrapeHistogram` and their parsers, wclient.go 112-188 and 406-539 | a page is a sequence of lines; `next` is the loop's place in it, `total`, `found`, `buckets` and `count` are the parsers' locals; one action per line, `verdict` is what the round records |
| `Exposition` | external: the page a target serves for its series | what it means for a page to show given series in the Prometheus text format; lets `Scrape`'s properties speak of the series, not of the lines |
| `Session` | `plan` 108-142, `doRun` 157-240 and `report.Write` 107-123 | `pc[p]` is the place of invocation `p`; files are inodes, so that a descriptor follows a rename; `Kill` is enabled at every step |

`Orchestrate` composes `ScheduledInjectors` (its steps are conjoined with
`wg.Done`); `ScheduledInjectors` implements `FaultWindow`, and so does the
composition; `Session` sees `orchestrate.Run` from outside. `Agent`, `Watcher`
and `DropsWatcher` are the details of the goroutines that `Orchestrate` shows
by what they write: `Agent` and the agents of `Orchestrate` implement one
abstract `Driver`.
`Scrape` is the inside of one probe that `Watcher` shows as good, bad or down.
`MC*` modules hold values for TLC. `*_proofs` modules hold theorems.
Definitions marked `mutant` are plausible bugs in the definition after them, no
part of the specification; each one is known to break the property it is
listed with in `PROJECT.json`.

## Modelling decisions

- A timer is ready from its deadline on and a goroutine may be delayed at
  will, so a step guarded by a timer is enabled at its deadline and ever after.
  A `select` with two ready branches takes either.
- The call and the return of Apply and Revert are separate steps: the context
  may end and the clock may pass between them. A failing Apply may have taken
  effect. The three injectors of the repository check their block and log; the
  calls to the cluster are still a TODO there. `Refused` and `Lasts` are what
  they check and say of themselves, the rest is the scheduler's contract with
  the interface: their code, filled in, may fail.
- A request that fails or times out may have taken effect; one made after the
  run context has ended is not sent.
- A page of `Scrape` keeps of the text what decides the verdict: a label key
  that ends in `le`, a label value with a closing brace, a number that does not
  parse. What else is on a page is a line of another metric or one without a
  number, anywhere. Each line has an owner, the series it is of, which the
  parsers do not see and the properties are stated by. The word behind a brace
  in a label value is taken to be no number. Values are naturals; the ratio is
  compared by cross-multiplication, which for a count of zero is as false as the
  code's comparison with NaN.
- A timeline of the report is a set of places in the breach log: breaches of a
  label are alike, their places are not, and their order is that of the log.
  `Summarize` counts the lines of the report, a block and a place in the log
  each, which is the sum it computes block by block.
- In `Watcher` an answer that is due arrives within its tick: only a hung
  target makes a probe last. What a page says is reduced to whether it
  satisfies the rule.
- Integers are unbounded: the counters of the code are 64 bits wide and count
  seconds, dispatches and breaches.
- Times are ticks. `--duration`, `at_offset`, windows and bursts are small
  numbers of ticks; what matters is their order, and the bounds let each come
  before, with and after each other.

## Runs

| Run | Question | Bounds |
|---|---|---|
| `injectors` | Does every fault heal, and does the row say so? Refinement of `FaultWindow` | 2 injectors, six kinds of block (recoverable, permanent, cut by the deadline, refused), deadline 2, clock 3 |
| `orchestrate` | Is the WaitGroup exact, the report complete, and does Run return? | 1 agent with one operation, 1 injector with a window the deadline cuts or a permanent fault, 3 watchers, one of them with bad parameters, 2 breaches, deadline 1 |
| `agent` | Counters, bursts, leftovers, draining | 6 workloads (bursts, odd and even numbers of resources, an unsupported kind, no resources, no portal, an interval of zero), clock 9, 10 dispatches |
| `watcher` | Whom does a breach blame, what is missed, how long is a round? | 4 kinds, 2 targets that change once, windows shorter and longer than the client's timeout |
| `drops` | False alarms and lost drops | 4 drops, 2 restarts, threshold 1 |
| `scrape` | Is the verdict that of the target's series? | 1 or 2 series under five labellings, gauges 0-2, every cumulative histogram over three boundaries and at most two samples, five blocks |
| `session` | Report file, exit code, checks before churn | 2 invocations, overlapping or not, 8 ways to be called, an earlier report or none |
| `inverted_schedule`, `bad_params`, `shared_label`, `agent_leak`, `shadowed_le` | One statement of a comment each, which the code does not keep | small instances; TLC prints the shortest run |

Why the bounds are enough to be interesting: two injectors and two watchers are
the least at which one goroutine's step can fall between two of another; a
clock that goes one past the deadline (`injectors`) lets a late timer and a
late call happen on both sides of it; a log of two breaches lets two watchers
be caught between append and count at once; clock 9 lets a workload go through
two burst windows; two series are the least at which a parser can mix them up.
`MaxDispatched` matters only to the workload with an interval of zero, whose
loop spins without time passing. The proofs lift every safety and every action
property of the seven passing runs to all values of the constants; the bounds
matter to liveness alone.

### What the violation runs show

- `inverted_schedule`: a block with `recover_at` at or before `at_offset` is
  accepted, applied and never reverted (orchestrate.go:248), cancelled or not.
- `bad_params`: the comment at orchestrate.go:62-64 calls bad parameters fatal
  before any churn; they are found in the invariant's goroutine and logged, and
  the run returns nil (`Run` "returns the first error from any goroutine",
  orchestrate.go:51-53, is not so either).
- `shared_label`: two invariant blocks with one label (of different kinds, say)
  each list both blocks' breaches, and the total counts them twice.
- `agent_leak`: a delete carries its own dispatch number, so it never names a
  created object; every create stays and every delete is a 404 counted as
  success.
- `shadowed_le`: `extractLabel` looks for `le="` in the text of the labels and
  finds it at the end of another key too (`role="server",le="5"`). The bucket is
  lost or stored under the wrong boundary, and the verdict is not that of the
  histogram, although wclient.go:403-405 says "Labels other than le are tolerated
  but ignored". `SlaVerdictIsTheLastSeries` is about the labellings where no key
  but `le` ends in `le`.

### Met while modelling, without a run

- An injector whose timer and context are ready together may Apply after the
  run has ended (orchestrate.go:234). The fault is still healed and reported,
  which is what `HealedByExit` and `NoSilentFault` check.
- healthy_endpoint.go:84 records a probe cut off by the end of the run as a
  breach; the other watchers ask `ctx.Err()` first. `BlamesTheFaulty` names the
  exception.
- The comment of `Agent.Run` (agent.go:67-68) has it "switching to BurstRPS every
  BurstEvery for BurstFor". `lastBurst` is set when a window is left, so the
  period is counted from there (agent.go:99-107) and two windows start
  `burst_every` plus `burst_for` apart, which is what `BurstCycle` checks. Nor
  does a window last `burst_for`: it is left at the return of a dispatch, whenever
  that is, and `BurstIsBounded` can only promise that no second dispatch of it
  begins late.
- With `min_samples = 0` and a count of zero the ratio of
  respawn_within_sla.go:159 is 0/0, NaN, and `ratio < minRatio` is false: the
  round passes. The comment at lines 143-145 says "An operator who wants this case
  flagged sets min_samples = 0". `SlaVerdictIsTheLastSeries` states what the code
  does: without a sample no breach.
- When Apply and Revert both fail, the row keeps the error of Apply and that of
  Revert is only logged (orchestrate.go:207). The row still tells that the fault
  may be there (`NoSilentFault`), not that its healing failed too.
- The comment of `ScrapeMetric` (wclient.go:103-107) says first matching sample
  and no aggregation; `parseMetric` sums all of them, as its own comment says.
- A series with `}` in a label value is missing from that sum (if a number follows
  the brace, as in `x} 7`, it is summed as the value, wclient.go:164-177; no such
  label is modelled), and of several histogram series only the last is judged.
  `ZombieVerdictIsTheSum` and
  `SlaVerdictIsTheLastSeries` state what is judged.
- audit_tenant_isolation.go:203 skips an event without a tenant; the comment at
  lines 111-114 promises a breach for every event whose tenant is not T.
- report.Write never syncs the temporary file (report.go:112-118): its promise, "a
  SIGKILL mid-write never leaves a torn report", is about the process, and so is
  `ReportNeverTorn`. A power cut is outside both.
- `burst_windows_hit` of the report (report.go:88) is never filled in by `Run`.
- Two invocations on one report path share `<path>.tmp`. Once two have had it
  at the same time (`clashed`) neither the report nor the exit code can be
  relied on; the properties of `session` are about everything short of that.

## Fairness

Weak fairness on each goroutine's steps: the Go scheduler runs what can run,
HTTP calls return (5 s timeout), injector calls return (they do not block in
this code). Weak fairness on the clock and on the deadline: time passes, and
`context.WithTimeout` fires. Strong fairness on a watcher's context branch: its
select finds the ticker ready again and again, the context branch stays ready,
and Go picks among ready branches at random. No fairness on signals, kills,
changes of targets, drops or restarts. In `Session` the liveness of the churn
is the `RunReturns` that `orchestrate` checks. An agent with an interval of
zero finds its timer ready for ever; strong fairness on `Drain` says that its
select takes the context in the end, for the same reason.

## Proofs

Each `*_proofs` module proves, for every value of the constants its module's
`ASSUME` allows, the type invariant and the safety properties of its run. They
rest on an inductive invariant because the properties speak of ends (a
goroutine that is done, a page that is read) and not of how they were reached.
Every invariant and action property that a passing run checks is stated by a
theorem.

| Module | Proved | The inductive invariant, and why it is needed |
|---|---|---|
| `ScheduledInjectors_proofs` | `TypeOK`, `NoSilentFault`, `HealedByExit`, `WindowKept`, `JournalIsFinal`, `Refinement` | `IInv`: for each place of the goroutine, what the row, the timer and the fault are there (blank before Apply, a timer at `appliedAt + Gap` inside the window, a cause for leaving it). The properties are about rows of goroutines that are done and do not mention the timer. Nothing needs fairness, so all are theorems of `Safety`. `Refinement` maps initial states to initial states and each step to a step or a stutter of `FaultWindow` |
| `Orchestrate_proofs` | `TypeOK`, `WaitGroupExact`, `NothingMovesAfterWait`, `CounterMirrorsLog`, `ReportIsComplete`, `FaultsAreReported`; `EmbedsInjectors` and what follows from it; `AgentsAreDrivers` | `Spawned`: nobody is alive before its spawn loop; with `WaitGroupExact` itself it gives that nobody is alive after Wait. `Mirrored` counts the watchers between append and count; `Labelled`: every label in the log is that of a block; `Copied`: what the report holds is what is there. Where labels differ, dropping the block from a line of the report is a bijection onto the log (`EntriesOf`), so the sums are those of the counters |
| `Agent_proofs` | `TypeOK`, `CountersAgree`, `LeakAccounting`, `VerbsPinnedToPositions`, `BurstIsBounded`, `BurstCycle`, `ImplementsDriver` | `CallInv`: the call in flight is that of the last count; `StoreInv`: the store after `ops` answered calls, by cardinality, from both sides; `PlacedInv`: an object's name says at which position of the resources its kind stands, whose parity an even length keeps (`EvenModulus`, `PlaceOfCount`); `BurstInv`: a period starts no sooner than `burst_for` after its window, and a call that began late is the last of it |
| `Watcher_proofs` | `TypeOK`, `BlamesTheFaulty`, `NoShutdownNoise`, `FailsClosed`, `RoundIsBounded` | `InTime`: a probe of a target that has been good all along is answered before any timeout, unless the budget was gone when it began, behind a blamed target; `Budget`: the budgets of a round add up; `Judged`: the targets a round is past have been judged |
| `DropsWatcher_proofs` | `TypeOK`, `GrowthIsReal`, `EveryDropAccounted` | `CounterFollowsDrops`: how far the counter has moved since the last good reading, read or not: by the drops less the falls (`RestartStep`), which makes the account an identity |
| `Scrape_proofs` | `TypeOK`, `LastLineWins`, `JudgedOnTheWholePage` | `LastLineWins` is inductive with the types, by what the maximum of a set of line numbers becomes when a later line joins it; a verdict exists only at the end |
| `ScrapeVerdict_proofs` | `ZombieVerdictIsTheSum`, `SlaVerdictIsTheLastSeries` | `More`: the total is the number of units on the usable lines read so far, and a verdict of `zombies_zero` is what total and found say. From there to the series: the format gives each series its line or its block of lines (`LabelOfBucket`, `BucketSamples`, `CountSamples`), and the last usable line belongs to the last readable series (`LastOwner`) |
| `Session_proofs` | `TypeOK`, `ChurnIsDeliberate`, `ReportNeverTorn`, `ExitCodeTellsReport` | `Checked`: what has been checked at each step; `FileInv`: while nobody has clashed the temporary inode is never the one at the report path, what the open file holds at each step, and that nothing on the disk is of an invocation that has not opened its file yet |

The composition is proved, not only checked. A step of a whole run is a step of
the injectors or leaves them alone, so a run is a behaviour of
`ScheduledInjectors` (`EmbedsInjectors`), and what is proved of them holds in a
run: the three invariants (`InjectorsInARun`), the journal
(`JournalIsFinalInARun`) and the abstract window (`ImplementsFaultWindowInARun`).
`FaultsAreReported` is then `NoSilentFault` for goroutines that are all done and
rows that have been copied. In the same way `ImplementsDriver` and
`AgentsAreDrivers` say that the agents in `Orchestrate` and the one in `Agent`
are the same to a reader of their totals: adding to `ops` and then to `errors`
counts as one step, taken with the second.

The assumptions are on the constants only: schedules are records of integers
and a selector, the sets of blocks are finite, a scenario has an invariant
(`Validate`), windows are at least two ticks (half of one is what a probe
gets), an SLA's minimum is a fraction. `InjectorsAssumption` hands those of the
injectors to the composition. `ExpositionAssumption` says that a page shows its
series in the text format (each gauge in one line; each histogram in one block
of lines, in any order, counts cumulative, a largest boundary there)
and that whatever else is on it is not of the metric or has no number.

No theorem uses induction over data. Where one would expect it, the proofs go
through sets of places: the total is the cardinality of a set of units, a sum
over blocks that of a set of lines, and the last or the first line of a kind
exists because a set of naturals has a least element (`LeastExists`, from the
well-ordering of the library).

Only model-checked: liveness under fairness, which is out of the prover's
reach. That is `Drains` of `injectors` and of `agent`, `RunReturns`, `Exits`,
`Ends`, and of `ImplementsFaultWindow` the part that is fairness. `Driver` is
there for its two theorems and no run.

## Not modelled

- HCL decoding, `time.ParseDuration`, JSON, serving of `/metrics`, the
  Prometheus counters other than the breach counter, logging and printing:
  library code and wording.
- `Dial` (it always succeeds), `AsTenant` (nobody calls it), URLs, headers and
  request bodies.
- The cluster calls of the injectors, which the code does not make yet.
- What an earlier run has left in the cluster: its names are those a rerun
  makes, and whether a create of one that exists fails is the server's choice
  (the model's calls may fail at any time).
- The rule of `audit_tenant_isolation` on a single event: one comparison.
- A power cut or a crash of the machine: nothing is synced, so what the report
  holds then is up to the file system.
- A label value in which a number follows a closing brace (see above).
- The shell scripts: they are sequential and drive another binary over ssh.
