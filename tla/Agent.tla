-------------------------------- MODULE Agent --------------------------------
(***************************************************************************)
(* One workload driver of internal/agents/agent.go: the loop of Agent.Run  *)
(* with its burst window, dispatchOne with its round robin over resources  *)
(* and its alternating verb, and the create and delete calls of            *)
(* internal/wclient as the cluster sees them.                              *)
(*                                                                         *)
(* The name chaos-<workload>-<n> is the number n: one workload is modelled *)
(* and its name is part of every name it makes.                            *)
(***************************************************************************)
EXTENDS Integers, Sequences, FiniteSets

CONSTANTS Workloads,   \* the workload blocks to choose from
          Supported,   \* the resource kinds dispatch has a driver for
          Second,      \* time.Second, in ticks of the model's clock
          MaxTime,     \* bound on the clock; the run context has ended by then
          MaxDispatched  \* bound on the dispatches, for TLC: an rps above Second
                         \* makes an interval of zero, and time need not pass

ASSUME AgentAssumption ==
  /\ \A w \in Workloads :
       /\ w.steadyRPS \in Int /\ w.burstRPS \in Int
       /\ w.burstEvery \in Int /\ w.burstFor \in Int
       /\ w.portal \in BOOLEAN
       /\ w.resources \in Seq(STRING)
  /\ Second \in Nat \ {0}
  /\ MaxTime \in Nat /\ MaxDispatched \in Nat

VARIABLES workload,     \* a.W, and whether the client has a PortalURL
          now, ctxDone,
          pc,           \* waiting in the select, calling the cluster, or done
          tick,         \* deadline of the tick timer
          bursting, burstStart, lastBurst,
          overdue,      \* history: dispatches of this window begun after burst_for
          resourceIdx,  \* round-robin cursor
          dispatched,   \* ticks so far: the verb and the name come from it
          call,         \* the call in flight: kind, verb, name, and is it sent?
          ops, errors,  \* what the report shows of this workload
          store         \* what the workload has in the cluster (external)

windowVars == <<bursting, burstStart, lastBurst, overdue>>
loopVars == <<pc, tick, windowVars>>
dispatchVars == <<resourceIdx, dispatched, call, ops, errors, store>>
vars == <<workload, now, ctxDone, loopVars, dispatchVars>>

NoCall == [kind |-> "none", verb |-> "none", name |-> 0, sent |-> FALSE]

-----------------------------------------------------------------------------
(* The knobs of the block *)

max1(n) == IF n < 1 THEN 1 ELSE n

\* time.Second / rps, an integer division
SteadyInterval == Second \div max1(workload.steadyRPS)

\* Zero: no burst rate.
BurstInterval == IF workload.burstRPS > 0 THEN Second \div workload.burstRPS ELSE 0

Init ==
  /\ workload \in Workloads
  /\ now = 0 /\ ctxDone = FALSE
  /\ pc = "waiting"
  /\ tick = SteadyInterval
  /\ bursting = FALSE /\ burstStart = 0 /\ lastBurst = 0 /\ overdue = 0
  /\ resourceIdx = 0 /\ dispatched = 0 /\ call = NoCall
  /\ ops = 0 /\ errors = 0
  /\ store = {}

-----------------------------------------------------------------------------
(* The end of a tick: the burst window is entered and left on the time     *)
(* read after the dispatch, then the timer is armed again.                 *)

EntersBurst == workload.burstEvery > 0 /\ ~bursting /\ now - lastBurst >= workload.burstEvery

StaysOnceIn(start) ==   \* mutant: leaving the window is checked on entry only
  bursting \/ now - start < workload.burstFor

StaysInBurst(start) == now - start < workload.burstFor

PeriodFromStart(start) == start   \* mutant: the period is counted from the start

\* lastBurst = now
PeriodFrom(start) == now

UpdateBurst ==
  LET start == IF EntersBurst THEN now ELSE burstStart
      inBurst == bursting \/ EntersBurst
  IN  /\ burstStart' = start
      /\ bursting' = (inBurst /\ StaysInBurst(start))
      /\ lastBurst' = IF inBurst /\ ~StaysInBurst(start) THEN PeriodFrom(start) ELSE lastBurst
      /\ tick' = now + (IF bursting' /\ BurstInterval > 0
                        THEN BurstInterval ELSE SteadyInterval)
      /\ overdue' = IF bursting' THEN overdue ELSE 0

-----------------------------------------------------------------------------
(* dispatchOne *)

Resource(n) == workload.resources[(n % Len(workload.resources)) + 1]

VerbDeleteFirst(n) == IF n % 2 = 1 THEN "create" ELSE "delete"   \* mutant

Verb(n) == IF n % 2 = 1 THEN "delete" ELSE "create"

\* A request goes out if there is a portal to send it to and the run context
\* has not ended: http.Client.Do looks at the context first.
Sends == workload.portal /\ ~ctxDone

\* The tick branch with no resources: dispatchOne returns at once.
TickWithoutResources ==
  /\ pc = "waiting" /\ now >= tick
  /\ workload.resources = <<>>
  /\ UpdateBurst
  /\ UNCHANGED <<workload, now, ctxDone, pc, dispatchVars>>

NameOfOldCount(n) == n   \* mutant: names the object before counting the dispatch

\* fmt.Sprintf after a.dispatched++
NameOf(n) == n + 1

CursorOnCreate(n) == n + ((dispatched + 1) % 2)   \* mutant: moves with every second dispatch

Cursor(n) == n + 1

\* The tick branch: next resource, next verb, and the name of the new count.
StartDispatch ==
  /\ pc = "waiting" /\ now >= tick
  /\ workload.resources # <<>>
  /\ dispatched < MaxDispatched
  /\ pc' = "calling"
  /\ call' = [kind |-> Resource(resourceIdx), verb |-> Verb(dispatched),
              name |-> NameOf(dispatched), sent |-> Sends]
  /\ resourceIdx' = Cursor(resourceIdx)
  /\ dispatched' = dispatched + 1
  /\ overdue' = IF bursting /\ now - burstStart >= workload.burstFor
                THEN overdue + 1 ELSE overdue
  /\ UNCHANGED <<workload, now, ctxDone, tick, bursting, burstStart, lastBurst,
                 ops, errors, store>>

ObjectWithVerb(c) == c   \* mutant: keeps the verb in the object's key

Object(c) == [kind |-> c.kind, name |-> c.name]

\* What the call leaves in the cluster.  Deleting what is not there succeeds
\* (404); a call that fails or times out may have taken effect.
Effect(c, result) ==
  LET done == IF c.verb = "create" THEN store \cup {Object(c)} ELSE store \ {Object(c)}
  IN  IF ~c.sent \/ result = "unsupported" THEN {store}
      ELSE IF result = "ok" THEN {done} ELSE {done, store}

\* Without a portal the client answers nil and sends nothing.
Outcomes(c) == IF c.kind \notin Supported THEN {"unsupported"}
               ELSE IF c.sent THEN {"ok", "error"}
               ELSE IF workload.portal THEN {"error"} ELSE {"ok"}

CallReturns ==
  /\ pc = "calling"
  /\ \E result \in Outcomes(call) :
       /\ store' \in Effect(call, result)
       /\ errors' = IF result = "error" THEN errors + 1 ELSE errors
  /\ ops' = ops + 1
  /\ pc' = "waiting"
  /\ call' = NoCall
  /\ UpdateBurst
  /\ UNCHANGED <<workload, now, ctxDone, resourceIdx, dispatched>>

SeenOutsideBurst == ctxDone /\ ~bursting   \* mutant: the burst ignores the context

\* <-ctx.Done()
CtxSeen == ctxDone

\* The context branch of the select.
Drain ==
  /\ pc = "waiting" /\ CtxSeen
  /\ pc' = "done"
  /\ UNCHANGED <<workload, now, ctxDone, tick, windowVars, dispatchVars>>

Run == TickWithoutResources \/ StartDispatch \/ CallReturns \/ Drain

EndRun ==
  /\ ~ctxDone
  /\ ctxDone' = TRUE
  /\ UNCHANGED <<workload, now, loopVars, dispatchVars>>

Clock ==
  /\ now < MaxTime
  /\ now' = now + 1
  /\ UNCHANGED <<workload, ctxDone, loopVars, dispatchVars>>

\* The goroutine has exited and the clock is at its bound.
Terminated == pc = "done" /\ now = MaxTime /\ UNCHANGED vars

Next == Run \/ EndRun \/ Clock \/ Terminated

Safety == Init /\ [][Next]_vars

\* The goroutine is scheduled, its calls return (the client gives up after
\* five seconds), time passes and the run context ends.  A context branch that
\* stays ready is taken in the end, however often the timer is ready with it:
\* Go picks among ready branches at random.
Spec == Safety /\ WF_vars(Run) /\ SF_vars(Drain) /\ WF_vars(Clock) /\ WF_vars(EndRun)

-----------------------------------------------------------------------------
(* Properties *)

Kinds == UNION {{w.resources[k] : k \in DOMAIN w.resources} : w \in Workloads}

Calls == [kind : Kinds, verb : {"create", "delete"}, name : Nat, sent : BOOLEAN]

TypeOK ==
  /\ workload \in Workloads
  /\ now \in 0..MaxTime /\ ctxDone \in BOOLEAN
  /\ pc \in {"waiting", "calling", "done"}
  /\ tick \in Nat
  /\ bursting \in BOOLEAN /\ burstStart \in 0..MaxTime /\ lastBurst \in 0..MaxTime
  /\ overdue \in Nat
  /\ resourceIdx \in Nat /\ dispatched \in 0..MaxDispatched
  /\ call \in Calls \cup {NoCall}
  /\ ops \in Nat /\ errors \in Nat
  /\ store \in SUBSET [kind : Kinds, name : Nat]

\* The totals of the report account for every tick: a dispatch is counted
\* once, after its call, and only the one in flight is missing.
CountersAgree ==
  /\ ops = dispatched - (IF pc = "calling" THEN 1 ELSE 0)
  /\ resourceIdx = dispatched
  /\ errors <= ops

\* What a run leaves in the cluster: one object for each create that took
\* effect, whatever the deletes did.  A delete carries the name of its own
\* dispatch (agent.go:127-133), so it never meets a created object.  The
\* counters bound the leftovers from both sides: no more objects than creates
\* begun, and, if every kind can be created, no fewer than the creates answered
\* less the calls counted as errors, some of which may have taken effect.
LeakAccounting ==
  /\ \A o \in store : o.name % 2 = 1 /\ o.name <= dispatched
  /\ \A o, p \in store : o.name = p.name => o = p
  /\ Cardinality(store) <= (dispatched + 1) \div 2
  /\ workload.portal
        /\ (\A k \in DOMAIN workload.resources : workload.resources[k] \in Supported)
       => Cardinality(store) + errors >= (ops + 1) \div 2

\* With an even number of resources the round robin and the alternation of
\* verbs run in step: the kinds at odd positions are only ever created and
\* those at even positions only ever deleted, in every call as it is made, and
\* what is in the cluster is of the kinds at odd positions.
VerbsPinnedToPositions ==
  Len(workload.resources) % 2 = 0 =>
    /\ pc = "calling" =>
         \E k \in DOMAIN workload.resources :
           workload.resources[k] = call.kind /\ (k % 2 = 1 <=> call.verb = "create")
    /\ \A o \in store :
         \E k \in DOMAIN workload.resources : k % 2 = 1 /\ workload.resources[k] = o.kind

\* Two burst windows start at least burst_every plus burst_for apart, because
\* lastBurst is set when a window is left (agent.go:104-107).  This is not the
\* period the comment of Run gives, "every BurstEvery for BurstFor"
\* (agent.go:67-68): the code's is longer by the length of the window.
BurstCycle ==
  [][~bursting /\ bursting' /\ lastBurst > 0
       => burstStart' - burstStart >= workload.burstEvery + workload.burstFor]_vars

\* burst_for ends a burst by dispatches, not by the clock: a slow call, or a
\* goroutine that is late, may hold a window open for any time.  What holds is
\* that a window begins at most one dispatch once burst_for is over, and leaves
\* with it; and that the timer armed inside a window is due less than one
\* interval after burst_for.
BurstIsBounded ==
  /\ overdue <= IF pc = "calling" THEN 1 ELSE 0
  /\ pc = "waiting" /\ bursting =>
       /\ workload.burstEvery > 0
       /\ tick - burstStart < workload.burstFor
                               + (IF BurstInterval > 0 THEN BurstInterval ELSE SteadyInterval)

\* The agent is a driver whose calls are its dispatches.
D == INSTANCE Driver WITH
       ended <- ctxDone, at <- IF pc = "waiting" THEN "idle" ELSE pc

\* A cancelled agent exits: wg.Wait does not hang on it.
Drains == <>(pc = "done")

-----------------------------------------------------------------------------
(* What the repository's text says and the code does not do. *)

\* agent.go:116-119, "Verb alternates CREATE, DELETE, CREATE [...] so a run
\* leaves the cluster at a similar resource count to where it started": with
\* every call answered ok, at most the last create is still there.
LeavesSimilarCount ==
  pc = "done" /\ errors = 0 => Cardinality(store) <= 1
=============================================================================
