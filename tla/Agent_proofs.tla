----------------------------- MODULE Agent_proofs -----------------------------
(***************************************************************************)
(* Theorems about one workload driver, for every workload.  The inductive  *)
(* invariant is made of the types, the call in flight (its name is the     *)
(* count, its verb the count's parity), the burst window and its late      *)
(* dispatch, and what the creates have left in the cluster.                *)
(***************************************************************************)
EXTENDS Agent, FiniteSetTheorems, TLAPS

\* The call in flight is the one of the last count.
CallInv ==
  /\ pc = "calling" <=> call # NoCall
  /\ resourceIdx = dispatched
  /\ pc = "calling" =>
       /\ dispatched > 0
       /\ call.name = dispatched
       /\ call.verb = Verb(dispatched - 1)
       /\ call.kind = Resource(dispatched - 1)
       /\ call.sent => workload.portal
       /\ workload.resources # <<>>

\* The window was left, and the period starts, burst_for after its start.
BurstInv ==
  /\ bursting => workload.burstEvery > 0
  /\ ~bursting /\ lastBurst > 0 => lastBurst - burstStart >= workload.burstFor
  /\ overdue > 0 => pc = "calling" /\ overdue = 1 /\ bursting
                     /\ now - burstStart >= workload.burstFor

AllSupported == \A k \in DOMAIN workload.resources : workload.resources[k] \in Supported

StoreInv ==
  /\ IsFiniteSet(store)
  /\ \A o \in store : o.name % 2 = 1 /\ o.name <= ops
  /\ \A o, p \in store : o.name = p.name => o = p
  /\ Cardinality(store) <= (ops + 1) \div 2
  /\ workload.portal /\ AllSupported => Cardinality(store) + errors >= (ops + 1) \div 2

\* The round robin chose the kind of an object by the same count as its name.
PlacedInv ==
  \A o \in store : workload.resources # <<>> /\ o.kind = Resource(o.name - 1)

IInv == /\ TypeOK /\ CallInv /\ CountersAgree /\ BurstInv /\ BurstIsBounded
        /\ StoreInv /\ PlacedInv

-----------------------------------------------------------------------------
LEMMA Knobs ==
  ASSUME workload \in Workloads
  PROVE  /\ workload.burstEvery \in Int /\ workload.burstFor \in Int
         /\ workload.resources \in Seq(STRING)
         /\ workload.portal \in BOOLEAN
         /\ SteadyInterval \in Nat /\ BurstInterval \in Nat
<1>1. /\ workload.steadyRPS \in Int /\ workload.burstRPS \in Int
      /\ workload.burstEvery \in Int /\ workload.burstFor \in Int
      /\ workload.resources \in Seq(STRING) /\ workload.portal \in BOOLEAN
      /\ Second \in Nat
  BY AgentAssumption
<1>2. \A d \in Int : d > 0 => Second \div d \in Nat
  BY <1>1
<1>3. max1(workload.steadyRPS) \in Int /\ max1(workload.steadyRPS) > 0
  BY <1>1 DEF max1
<1> QED
  BY <1>1, <1>2, <1>3 DEF SteadyInterval, BurstInterval

LEMMA ResourceInKinds ==
  ASSUME workload \in Workloads, workload.resources # <<>>, NEW n \in Nat
  PROVE  /\ Resource(n) \in Kinds
         /\ AllSupported => Resource(n) \in Supported
<1>1. workload.resources \in Seq(STRING)
  BY Knobs
<1> DEFINE len == Len(workload.resources)
           k == (n % len) + 1
<1>2. len \in Nat /\ len > 0 /\ DOMAIN workload.resources = 1..len
  BY <1>1
<1>3. k \in DOMAIN workload.resources
  <2>1. \A d \in Nat : d > 0 => n % d \in 0..(d - 1)
    OBVIOUS
  <2>2. n % len \in 0..(len - 1)
    BY <1>2, <2>1
  <2> HIDE DEF len
  <2>3. k \in 1..len
    BY <1>2, <2>2
  <2> QED
    BY <1>2, <2>3
<1>4. Resource(n) = workload.resources[k]
  BY DEF Resource
<1> QED
  BY <1>3, <1>4 DEF Kinds, AllSupported

LEMMA InitInv == Init => IInv
<1> SUFFICES ASSUME Init PROVE IInv
  OBVIOUS
<1>1. workload \in Workloads /\ SteadyInterval \in Nat /\ MaxTime \in Nat /\ MaxDispatched \in Nat
  BY Knobs, AgentAssumption DEF Init
<1>2. TypeOK
  <2>1. 0 \in 0..MaxTime /\ 0 \in 0..MaxDispatched /\ 0 \in Nat
    BY <1>1
  <2> QED
    BY <1>1, <2>1 DEF Init, TypeOK
<1>3. CallInv /\ BurstInv /\ BurstIsBounded
  BY DEF Init, CallInv, BurstInv, BurstIsBounded
<1>4. CountersAgree
  BY DEF Init, CountersAgree
<1>5. StoreInv
  <2>1. IsFiniteSet({}) /\ Cardinality({}) = 0 /\ (0 + 1) \div 2 = 0
    BY FS_EmptySet
  <2> QED
    BY <2>1 DEF Init, StoreInv
<1>6. PlacedInv
  BY DEF Init, PlacedInv
<1> QED
  BY <1>2, <1>3, <1>4, <1>5, <1>6 DEF IInv

\* What the end of a tick does to the window.
LEMMA BurstStep ==
  ASSUME IInv, UpdateBurst, UNCHANGED <<workload, now>>
  PROVE  /\ tick' \in Nat /\ bursting' \in BOOLEAN /\ overdue' = 0
         /\ burstStart' \in 0..MaxTime /\ lastBurst' \in 0..MaxTime
         /\ BurstInv' /\ BurstIsBounded'
         /\ ~bursting /\ bursting' /\ lastBurst > 0
              => burstStart' - burstStart >= workload.burstEvery + workload.burstFor
<1> DEFINE start == IF EntersBurst THEN now ELSE burstStart
           inBurst == bursting \/ EntersBurst
<1>1. /\ workload.burstEvery \in Int /\ workload.burstFor \in Int
      /\ SteadyInterval \in Nat /\ BurstInterval \in Nat
      /\ now \in 0..MaxTime /\ burstStart \in 0..MaxTime /\ lastBurst \in 0..MaxTime
      /\ bursting \in BOOLEAN /\ MaxTime \in Nat /\ overdue \in Nat
  BY Knobs, AgentAssumption DEF IInv, TypeOK
<1>2. /\ burstStart' = start
      /\ bursting' = (inBurst /\ now - start < workload.burstFor)
      /\ lastBurst' = IF inBurst /\ ~(now - start < workload.burstFor) THEN now ELSE lastBurst
      /\ tick' = now + (IF bursting' /\ BurstInterval > 0 THEN BurstInterval ELSE SteadyInterval)
      /\ overdue' = IF bursting' THEN overdue ELSE 0
  BY DEF UpdateBurst, StaysInBurst, PeriodFrom
<1>3. /\ SteadyInterval' = SteadyInterval /\ BurstInterval' = BurstInterval
      /\ workload' = workload
  BY DEF SteadyInterval, BurstInterval
<1>4. start \in 0..MaxTime
  BY <1>1
<1>5. EntersBurst <=> /\ workload.burstEvery > 0 /\ ~bursting
                      /\ now - lastBurst >= workload.burstEvery
  BY DEF EntersBurst
<1>6. BurstInv
  BY DEF IInv
<1> HIDE DEF start, inBurst
<1>7. /\ inBurst <=> (bursting \/ EntersBurst)
      /\ start = IF EntersBurst THEN now ELSE burstStart
  BY DEF start, inBurst
<1>8. tick' \in Nat /\ bursting' \in BOOLEAN /\ burstStart' \in 0..MaxTime /\ lastBurst' \in 0..MaxTime
  BY <1>1, <1>2, <1>4
<1>8a. overdue' = 0
  <2>1. CASE overdue > 0
    <3>1. bursting /\ now - burstStart >= workload.burstFor
      BY <1>6, <2>1 DEF BurstInv
    <3>2. start = burstStart
      BY <1>5, <1>7, <3>1
    <3>3. ~(now - start < workload.burstFor)
      BY <1>1, <3>1, <3>2
    <3> QED
      BY <1>2, <3>3
  <2>2. CASE overdue = 0
    BY <1>2, <2>2
  <2> QED
    BY <1>1, <2>1, <2>2
<1>9. BurstInv'
  <2>1. bursting' => workload.burstEvery > 0
    BY <1>2, <1>5, <1>6, <1>7 DEF BurstInv
  <2>2. CASE inBurst /\ ~(now - start < workload.burstFor)
    <3>1. lastBurst' - burstStart' >= workload.burstFor
      BY <1>1, <1>2, <1>4, <2>2
    <3> QED
      BY <1>3, <1>8a, <2>1, <3>1 DEF BurstInv
  <2>3. CASE ~inBurst
    <3>1. ~bursting /\ ~EntersBurst
      BY <1>7, <2>3
    <3>2. burstStart' = burstStart /\ lastBurst' = lastBurst
      BY <1>2, <1>7, <2>3, <3>1
    <3> QED
      BY <1>3, <1>6, <1>8a, <2>1, <3>1, <3>2 DEF BurstInv
  <2>4. CASE inBurst /\ now - start < workload.burstFor
    <3>1. bursting'
      BY <1>2, <2>4
    <3> QED
      BY <1>3, <1>8a, <2>1, <3>1 DEF BurstInv
  <2> QED
    BY <2>2, <2>3, <2>4
<1>10. BurstIsBounded'
  <2>1. bursting' => /\ workload.burstEvery > 0
                     /\ tick' - burstStart' < workload.burstFor
                          + (IF BurstInterval > 0 THEN BurstInterval ELSE SteadyInterval)
    <3> SUFFICES ASSUME bursting'
                 PROVE  /\ workload.burstEvery > 0
                        /\ tick' - burstStart' < workload.burstFor
                             + (IF BurstInterval > 0 THEN BurstInterval ELSE SteadyInterval)
      OBVIOUS
    <3>1. workload.burstEvery > 0
      BY <1>3, <1>9 DEF BurstInv
    <3>2. now - start < workload.burstFor /\ burstStart' = start
      BY <1>2
    <3>3. tick' = now + (IF BurstInterval > 0 THEN BurstInterval ELSE SteadyInterval)
      BY <1>2
    <3> QED
      BY <1>1, <1>4, <3>1, <3>2, <3>3
  <2> QED
    BY <1>3, <1>8a, <2>1 DEF BurstIsBounded
<1>11. ~bursting /\ bursting' /\ lastBurst > 0
         => burstStart' - burstStart >= workload.burstEvery + workload.burstFor
  BY <1>1, <1>2, <1>5, <1>6, <1>7 DEF BurstInv
<1> QED
  BY <1>8, <1>8a, <1>9, <1>10, <1>11

\* What a call leaves in the cluster.
LEMMA CallStep ==
  ASSUME IInv, CallReturns
  PROVE  StoreInv' /\ store' \in SUBSET [kind : Kinds, name : Nat] /\ errors' \in Nat
<1>1. PICK result \in Outcomes(call) :
        /\ store' \in Effect(call, result)
        /\ errors' = IF result = "error" THEN errors + 1 ELSE errors
  BY DEF CallReturns
<1>2. /\ ops' = ops + 1 /\ dispatched = ops + 1 /\ workload' = workload
      /\ ops \in Nat /\ errors \in Nat /\ workload.resources # <<>>
      /\ call.name = dispatched /\ call.verb = Verb(dispatched - 1)
      /\ call.kind = Resource(dispatched - 1)
      /\ workload \in Workloads /\ workload.portal \in BOOLEAN
  BY Knobs DEF CallReturns, IInv, TypeOK, CallInv, CountersAgree
<1>3. call.kind \in Kinds /\ (AllSupported => call.kind \in Supported)
  BY <1>2, ResourceInKinds
<1> DEFINE obj == [kind |-> call.kind, name |-> ops + 1]
<1>4. obj \in [kind : Kinds, name : Nat] /\ Object(call) = obj
  BY <1>2, <1>3 DEF Object
<1>5. StoreInv /\ store \subseteq [kind : Kinds, name : Nat] /\ (AllSupported' <=> AllSupported)
  BY <1>2 DEF IInv, TypeOK, AllSupported
<1> HIDE DEF obj
<1>6. obj.name = ops + 1 /\ obj \notin store
  BY <1>2, <1>5 DEF obj, StoreInv
<1>6a. call.verb = Verb(ops)
  <2>1. dispatched - 1 = ops
    BY <1>2
  <2> QED
    BY <1>2, <2>1
<1>7. CASE call.verb = "create"
  <2>1. (ops + 1) % 2 = 1 /\ (ops + 1 + 1) \div 2 = (ops + 1) \div 2 + 1
    <3>1. ~(ops % 2 = 1)
      BY <1>7, <1>6a DEF Verb
    <3>2. \A n \in Nat : ~(n % 2 = 1)
            => (n + 1) % 2 = 1 /\ (n + 1 + 1) \div 2 = (n + 1) \div 2 + 1
      OBVIOUS
    <3> QED
      BY <1>2, <3>1, <3>2
  <2>2. store' \in {store, store \cup {obj}}
    BY <1>1, <1>4, <1>7 DEF Effect
  <2>3. /\ IsFiniteSet(store \cup {obj})
        /\ Cardinality(store \cup {obj}) = Cardinality(store) + 1
    BY <1>5, <1>6, FS_AddElement DEF StoreInv
  <2>4. /\ IsFiniteSet(store') /\ store' \subseteq [kind : Kinds, name : Nat]
        /\ \A o \in store' : o.name % 2 = 1 /\ o.name <= ops + 1
        /\ \A o, p \in store' : o.name = p.name => o = p
    <3>1. \A o \in store : o.name \in Nat /\ o.name <= ops /\ o.name % 2 = 1
      BY <1>5 DEF StoreInv
    <3>2. \A o, p \in store : o.name = p.name => o = p
      BY <1>5 DEF StoreInv
    <3>3. \A o \in store' : o \in store \/ o = obj
      BY <2>2
    <3>4. \A o \in store' : o.name % 2 = 1 /\ o.name <= ops + 1
      BY <1>2, <1>6, <2>1, <3>1, <3>3
    <3>5. \A o, p \in store' : o.name = p.name => o = p
      BY <1>2, <1>6, <3>1, <3>2, <3>3
    <3> QED
      BY <1>4, <1>5, <2>2, <2>3, <3>4, <3>5 DEF StoreInv
  <2>5. /\ Cardinality(store) \in Nat
        /\ Cardinality(store) <= (ops + 1) \div 2
        /\ (ops + 1) \div 2 \in Int
    BY <1>2, <1>5, FS_CardinalityType DEF StoreInv
  <2>6. Cardinality(store') <= (ops + 1 + 1) \div 2
    <3>1. Cardinality(store') \in {Cardinality(store), Cardinality(store) + 1}
      BY <2>2, <2>3
    <3> QED
      BY <2>1, <2>5, <3>1
  <2>7. ASSUME workload.portal, AllSupported
        PROVE  Cardinality(store') + errors' >= (ops + 1 + 1) \div 2
    <3>1. Cardinality(store) + errors >= (ops + 1) \div 2
      BY <1>5, <2>7 DEF StoreInv
    <3>2. CASE result = "error"
      <4>1. errors' = errors + 1
        BY <1>1, <3>2
      <4>2. Cardinality(store') \in {Cardinality(store), Cardinality(store) + 1}
        BY <2>2, <2>3
      <4> QED
        BY <1>2, <2>1, <2>5, <3>1, <4>1, <4>2
    <3>3. CASE result # "error"
      <4>1. call.sent /\ result = "ok" /\ errors' = errors
        BY <1>1, <1>3, <2>7, <3>3 DEF Outcomes
      <4>2. store' = store \cup {obj}
        BY <1>1, <1>4, <1>7, <4>1 DEF Effect
      <4>3. Cardinality(store') = Cardinality(store) + 1
        BY <2>3, <4>2
      <4> QED
        BY <1>2, <2>1, <2>5, <3>1, <4>1, <4>3
    <3> QED
      BY <3>2, <3>3
  <2>8. errors' \in Nat
    BY <1>1, <1>2
  <2> QED
    BY <1>1, <1>2, <1>5, <2>4, <2>6, <2>7, <2>8 DEF StoreInv
<1>8. CASE call.verb # "create"
  <2>1. (ops + 1 + 1) \div 2 = (ops + 1) \div 2
    <3>1. ops % 2 = 1
      BY <1>8, <1>6a DEF Verb
    <3>2. \A n \in Nat : n % 2 = 1 => (n + 1 + 1) \div 2 = (n + 1) \div 2
      OBVIOUS
    <3> QED
      BY <1>2, <3>1, <3>2
  <2>2. store' = store
    BY <1>1, <1>4, <1>6, <1>8 DEF Effect
  <2>3. \A o \in store : o.name <= ops + 1
    BY <1>2, <1>5 DEF StoreInv
  <2>4. Cardinality(store) \in Nat /\ errors' \in {errors, errors + 1} /\ (ops + 1) \div 2 \in Int
    BY <1>1, <1>2, <1>5, FS_CardinalityType DEF StoreInv
  <2>5. workload.portal /\ AllSupported => Cardinality(store) + errors' >= (ops + 1) \div 2
    <3>1. workload.portal /\ AllSupported => Cardinality(store) + errors >= (ops + 1) \div 2
      BY <1>5 DEF StoreInv
    <3> QED
      BY <1>2, <2>4, <3>1
  <2>6. errors' \in Nat
    BY <1>2, <2>4
  <2> QED
    BY <1>1, <1>2, <1>5, <2>1, <2>2, <2>3, <2>5, <2>6 DEF StoreInv
<1> QED
  BY <1>7, <1>8

\* The object a create leaves is of the kind at its count's place.
LEMMA CallPlaces ==
  ASSUME IInv, CallReturns PROVE PlacedInv'
<1>1. PICK result \in Outcomes(call) : store' \in Effect(call, result)
  BY DEF CallReturns
<1>2. /\ workload' = workload /\ call.name = dispatched
      /\ call.kind = Resource(dispatched - 1) /\ PlacedInv
      /\ workload.resources # <<>>
  BY DEF CallReturns, IInv, CallInv
<1>3. \A o \in store' : o \in store \/ o = Object(call)
  BY <1>1 DEF Effect
<1>4. Object(call).kind = Resource(Object(call).name - 1)
  BY <1>2 DEF Object
<1> QED
  BY <1>2, <1>3, <1>4 DEF PlacedInv, Resource

LEMMA NextInv == IInv /\ [Next]_vars => IInv'
<1> SUFFICES ASSUME IInv, [Next]_vars PROVE IInv'
  OBVIOUS
<1>0. /\ TypeOK /\ CallInv /\ CountersAgree /\ BurstInv /\ BurstIsBounded
      /\ StoreInv /\ PlacedInv
      /\ MaxTime \in Nat /\ MaxDispatched \in Nat
  BY AgentAssumption DEF IInv
<1>1. CASE TickWithoutResources
  <2>1. /\ UpdateBurst /\ UNCHANGED <<workload, now, ctxDone, pc, resourceIdx, dispatched,
                                      call, ops, errors, store>>
    BY <1>1 DEF TickWithoutResources, dispatchVars
  <2>2. TypeOK' /\ BurstInv' /\ BurstIsBounded'
    BY <1>0, <2>1, BurstStep DEF TypeOK
  <2>3. CallInv' /\ CountersAgree' /\ StoreInv' /\ PlacedInv'
    BY <1>0, <2>1 DEF CallInv, CountersAgree, StoreInv, PlacedInv, AllSupported, Verb,
       Resource
  <2> QED
    BY <2>2, <2>3 DEF IInv
<1>2. CASE StartDispatch
  <2>1. /\ UNCHANGED <<workload, now, ctxDone, tick, bursting, burstStart, lastBurst,
                       ops, errors, store>>
        /\ pc = "waiting" /\ pc' = "calling" /\ workload.resources # <<>>
        /\ resourceIdx' = resourceIdx + 1 /\ dispatched' = dispatched + 1
        /\ dispatched < MaxDispatched
        /\ overdue' = IF bursting /\ now - burstStart >= workload.burstFor
                      THEN overdue + 1 ELSE overdue
        /\ call' = [kind |-> Resource(dispatched), verb |-> Verb(dispatched),
                    name |-> dispatched + 1, sent |-> Sends]
    BY <1>0, <1>2 DEF StartDispatch, Cursor, NameOf, CallInv
  <2>2. /\ dispatched \in Nat /\ resourceIdx \in Nat /\ workload \in Workloads
        /\ workload.portal \in BOOLEAN /\ ctxDone \in BOOLEAN
    BY <1>0, Knobs DEF TypeOK
  <2>3. call' \in Calls /\ call' # NoCall
    <3>1. Resource(dispatched) \in Kinds
      BY <2>1, <2>2, ResourceInKinds
    <3>2. Sends \in BOOLEAN
      BY DEF Sends
    <3>3. call'.name # 0
      BY <2>1, <2>2
    <3> QED
      BY <2>1, <2>2, <3>1, <3>2, <3>3 DEF Calls, NoCall, Verb
  <2>3a. /\ overdue' \in {0, 1}
         /\ overdue' = 1 => bursting /\ now - burstStart >= workload.burstFor
    <3>1. overdue = 0
      BY <1>0, <2>1 DEF BurstInv, TypeOK
    <3> QED
      BY <2>1, <3>1
  <2>4. TypeOK'
    BY <1>0, <2>1, <2>2, <2>3, <2>3a DEF TypeOK
  <2>5. CallInv'
    <3>1. dispatched' - 1 = dispatched
      BY <2>1, <2>2
    <3>2. Resource(dispatched)' = Resource(dispatched') /\ call'.sent => workload.portal
      BY <2>1 DEF Sends, Resource
    <3> QED
      BY <1>0, <2>1, <2>2, <2>3, <3>1 DEF CallInv, Sends, Resource, Verb
  <2>6. CountersAgree' /\ BurstInv' /\ BurstIsBounded' /\ StoreInv'
    BY <1>0, <2>1, <2>2, <2>3a DEF CountersAgree, BurstInv, BurstIsBounded, StoreInv,
       AllSupported
  <2>7. PlacedInv'
    BY <1>0, <2>1 DEF PlacedInv, Resource
  <2> QED
    BY <2>4, <2>5, <2>6, <2>7 DEF IInv
<1>3. CASE CallReturns
  <2>1. /\ UpdateBurst /\ pc = "calling" /\ pc' = "waiting" /\ call' = NoCall
        /\ ops' = ops + 1
        /\ UNCHANGED <<workload, now, ctxDone, resourceIdx, dispatched>>
    BY <1>3 DEF CallReturns
  <2>2. errors' \in {errors, errors + 1}
    BY <1>3 DEF CallReturns
  <2>3. /\ StoreInv' /\ store' \in SUBSET [kind : Kinds, name : Nat] /\ errors' \in Nat
        /\ PlacedInv'
    BY <1>3, CallStep, CallPlaces
  <2>4. TypeOK' /\ BurstInv' /\ BurstIsBounded'
    BY <1>0, <2>1, <2>3, BurstStep DEF TypeOK
  <2>5. CallInv'
    BY <1>0, <2>1 DEF CallInv
  <2>6. CountersAgree'
    BY <1>0, <2>1, <2>2 DEF CountersAgree, TypeOK
  <2> QED
    BY <2>3, <2>4, <2>5, <2>6 DEF IInv
<1>4. CASE Drain \/ EndRun \/ Clock \/ UNCHANGED vars
  <2>1. /\ UNCHANGED <<workload, tick, bursting, burstStart, lastBurst, overdue, resourceIdx,
                       dispatched, call, ops, errors, store>>
        /\ pc' = pc \/ (pc = "waiting" /\ pc' = "done")
        /\ ctxDone' \in {ctxDone, TRUE}
        /\ now' = now \/ (now < MaxTime /\ now' = now + 1)
    BY <1>4 DEF Drain, CtxSeen, EndRun, Clock, loopVars, windowVars, dispatchVars, vars
  <2>2. TypeOK'
    <3>1. now' \in 0..MaxTime
      BY <1>0, <2>1 DEF TypeOK
    <3>2. ctxDone' \in BOOLEAN /\ pc' \in {"waiting", "calling", "done"}
      BY <1>0, <2>1 DEF TypeOK
    <3> QED
      BY <1>0, <2>1, <3>1, <3>2 DEF TypeOK
  <2>3. CallInv' /\ CountersAgree'
    BY <1>0, <2>1 DEF CallInv, CountersAgree, Verb, Resource
  <2>4. BurstInv'
    <3>1. /\ now' \in Int /\ now \in Int /\ burstStart \in Int /\ now' >= now
          /\ workload.burstFor \in Int /\ overdue \in Nat
      BY <1>0, <2>1, Knobs DEF TypeOK
    <3>2. overdue > 0 => pc = "calling" /\ pc' = "calling"
      BY <1>0, <2>1 DEF BurstInv
    <3>3. overdue > 0 => now' - burstStart >= workload.burstFor
      BY <1>0, <3>1 DEF BurstInv
    <3> QED
      BY <1>0, <2>1, <3>2, <3>3 DEF BurstInv
  <2>5. BurstIsBounded' /\ StoreInv' /\ PlacedInv'
    <3>1. overdue > 0 => pc = "calling" /\ pc' = "calling"
      BY <1>0, <2>1 DEF BurstInv
    <3>2. overdue \in Nat
      BY <1>0 DEF TypeOK
    <3> QED
      BY <1>0, <2>1, <3>1, <3>2 DEF BurstIsBounded, StoreInv, PlacedInv, AllSupported,
         Resource, SteadyInterval, BurstInterval
  <2> QED
    BY <2>2, <2>3, <2>4, <2>5 DEF IInv
<1> QED
  BY <1>1, <1>2, <1>3, <1>4 DEF Next, Run, Terminated

-----------------------------------------------------------------------------
(* The properties the run checks *)

THEOREM Invariance == Spec => []IInv
BY InitInv, NextInv, PTL DEF Spec, Safety

\* Every variable keeps to its values.
THEOREM TypeCorrect == Spec => []TypeOK
<1>1. IInv => TypeOK
  BY DEF IInv
<1> QED
  BY <1>1, Invariance, PTL

\* Every tick is in the totals of the report, but for the call in flight.
THEOREM CountersAgreeHolds == Spec => []CountersAgree
<1>1. IInv => CountersAgree
  BY DEF IInv
<1> QED
  BY <1>1, Invariance, PTL

\* No delete meets a created object, so a run leaves one object for every
\* create that took effect: no more than were begun, and no fewer than were
\* answered less the errors.
THEOREM LeakAccountingHolds == Spec => []LeakAccounting
<1>1. IInv => LeakAccounting
  <2> SUFFICES ASSUME IInv PROVE LeakAccounting
    OBVIOUS
  <2>1. /\ ops = dispatched - (IF pc = "calling" THEN 1 ELSE 0)
        /\ ops \in Nat /\ dispatched \in Nat
    BY AgentAssumption DEF IInv, TypeOK, CountersAgree
  <2>2. \A o \in store : o.name \in Nat
    BY DEF IInv, TypeOK
  <2>3. StoreInv
    BY DEF IInv
  <2>4. \A o \in store : o.name % 2 = 1 /\ o.name <= dispatched
    BY <2>1, <2>2, <2>3 DEF StoreInv
  <2>5. Cardinality(store) <= (dispatched + 1) \div 2
    <3>1. (ops + 1) \div 2 <= (dispatched + 1) \div 2 /\ (ops + 1) \div 2 \in Int
      BY <2>1
    <3>2. Cardinality(store) \in Nat /\ Cardinality(store) <= (ops + 1) \div 2
      BY <2>3, FS_CardinalityType DEF StoreInv
    <3>3. (dispatched + 1) \div 2 \in Int
      BY <2>1
    <3> QED
      BY <3>1, <3>2, <3>3
  <2> QED
    BY <2>3, <2>4, <2>5 DEF StoreInv, LeakAccounting, AllSupported
<1> QED
  BY <1>1, Invariance, PTL

\* Taking the remainder by an even number keeps the parity.
LEMMA EvenModulus ==
  ASSUME NEW n \in Nat, NEW L \in Nat, L > 0, L % 2 = 0
  PROVE  (n % L) % 2 = n % 2
<1> DEFINE h == L \div 2
           q == n \div L
           r == n % L
           m == h * q
<1>1. h \in Int /\ L = 2 * h
  OBVIOUS
<1>2. q \in Int /\ r \in Int /\ n = L * q + r
  <2>1. \A a, b \in Int :
          b > 0 => a \div b \in Int /\ a % b \in Int /\ a = b * (a \div b) + (a % b)
    OBVIOUS
  <2> QED
    BY <2>1
<1>3. m \in Int /\ L * q = 2 * m
  <2> HIDE DEF h, q
  <2>1. m \in Int
    BY <1>1, <1>2
  <2>2. (2 * h) * q = 2 * (h * q)
    BY <1>1, <1>2
  <2> QED
    BY <1>1, <2>1, <2>2
<1> HIDE DEF h, q, r, m
<1>4. n % 2 = r % 2
  <2>1. n = 2 * m + r
    BY <1>2, <1>3
  <2> QED
    BY <1>2, <1>3, <2>1
<1> QED
  BY <1>4 DEF r

\* With an even number of resources the position a count chooses has the
\* parity the count has.
LEMMA PlaceOfCount ==
  ASSUME workload \in Workloads, workload.resources # <<>>,
         Len(workload.resources) % 2 = 0, NEW n \in Nat
  PROVE  \E k \in DOMAIN workload.resources :
           workload.resources[k] = Resource(n) /\ (k % 2 = 1 <=> n % 2 = 0)
<1> DEFINE L == Len(workload.resources)
           k == (n % L) + 1
<1>1. L \in Nat /\ L > 0 /\ L % 2 = 0 /\ DOMAIN workload.resources = 1..L
  <2>1. workload.resources \in Seq(STRING)
    BY Knobs
  <2>2. L \in Nat /\ L > 0 /\ DOMAIN workload.resources = 1..L
    BY <2>1
  <2> QED
    BY <2>2
<1>2. workload.resources[k] = Resource(n)
  BY DEF Resource
<1> HIDE DEF L
<1>3. (n % L) % 2 = n % 2
  BY <1>1, EvenModulus
<1>4. n % L \in 0..(L - 1)
  <2>1. \A a, b \in Nat : b > 0 => a % b \in 0..(b - 1)
    OBVIOUS
  <2> QED
    BY <1>1, <2>1
<1>5. k \in 1..L /\ (k % 2 = 1 <=> n % 2 = 0)
  BY <1>1, <1>3, <1>4
<1> QED
  BY <1>1, <1>2, <1>5

\* With an even number of resources no create ever meets an even position and
\* no delete an odd one.
THEOREM VerbsPinnedToPositionsHolds == Spec => []VerbsPinnedToPositions
<1>1. IInv => VerbsPinnedToPositions
  <2> SUFFICES ASSUME IInv, Len(workload.resources) % 2 = 0
               PROVE  VerbsPinnedToPositions
    BY DEF VerbsPinnedToPositions
  <2>0. TypeOK /\ CallInv /\ StoreInv /\ PlacedInv
    BY DEF IInv
  <2>1. ASSUME pc = "calling"
        PROVE  \E k \in DOMAIN workload.resources :
                 workload.resources[k] = call.kind /\ (k % 2 = 1 <=> call.verb = "create")
    <3>1. /\ dispatched - 1 \in Nat /\ workload.resources # <<>>
          /\ call.kind = Resource(dispatched - 1) /\ call.verb = Verb(dispatched - 1)
      BY <2>0, <2>1, AgentAssumption DEF TypeOK, CallInv
    <3>2. call.verb = "create" <=> (dispatched - 1) % 2 = 0
      <4>1. \A n \in Nat : n % 2 = 1 \/ n % 2 = 0
        OBVIOUS
      <4> QED
        BY <3>1, <4>1 DEF Verb
    <3> QED
      BY <2>0, <3>1, <3>2, PlaceOfCount DEF TypeOK
  <2>2. ASSUME NEW o \in store
        PROVE  \E k \in DOMAIN workload.resources :
                 k % 2 = 1 /\ workload.resources[k] = o.kind
    <3>1. o.name \in Nat /\ o.name % 2 = 1
      BY <2>0, <2>2 DEF TypeOK, StoreInv
    <3>2. o.name - 1 \in Nat /\ (o.name - 1) % 2 = 0
      BY <3>1
    <3>3. workload.resources # <<>> /\ o.kind = Resource(o.name - 1)
      BY <2>0, <2>2 DEF PlacedInv
    <3> QED
      BY <2>0, <3>2, <3>3, PlaceOfCount DEF TypeOK
  <2> QED
    BY <2>1, <2>2 DEF VerbsPinnedToPositions
<1> QED
  BY <1>1, Invariance, PTL

\* A window begins at most one dispatch once burst_for is over, and leaves with
\* it; the timer armed inside it is due less than an interval after burst_for.
THEOREM BurstIsBoundedHolds == Spec => []BurstIsBounded
<1>1. IInv => BurstIsBounded
  BY DEF IInv
<1> QED
  BY <1>1, Invariance, PTL

\* Two windows start at least burst_every plus burst_for apart.
THEOREM BurstCycleHolds == Spec => BurstCycle
<1>1. IInv /\ [Next]_vars =>
        [~bursting /\ bursting' /\ lastBurst > 0
           => burstStart' - burstStart >= workload.burstEvery + workload.burstFor]_vars
  <2> SUFFICES ASSUME IInv, [Next]_vars, ~bursting /\ bursting' /\ lastBurst > 0
               PROVE  burstStart' - burstStart >= workload.burstEvery + workload.burstFor
    OBVIOUS
  <2>1. CASE TickWithoutResources \/ CallReturns
    <3>1. UpdateBurst /\ UNCHANGED <<workload, now>>
      BY <2>1 DEF TickWithoutResources, CallReturns
    <3> QED
      BY <3>1, BurstStep
  <2>2. CASE StartDispatch \/ Drain \/ EndRun \/ Clock \/ UNCHANGED vars
    BY <2>2 DEF StartDispatch, Drain, EndRun, Clock, loopVars, windowVars, vars
  <2> QED
    BY <2>1, <2>2 DEF Next, Run, Terminated
<1> QED
  BY <1>1, Invariance, PTL DEF Spec, Safety, BurstCycle

-----------------------------------------------------------------------------
(* The agent implements Driver *)

LEMMA RefinesInit == Init => D!Init
BY DEF Init, D!Init

LEMMA RefinesNext == IInv /\ [Next]_vars => [D!Next]_D!driverVars
<1> SUFFICES ASSUME IInv, [Next]_vars PROVE D!Next \/ UNCHANGED D!driverVars
  OBVIOUS
<1>1. CASE TickWithoutResources \/ Clock \/ UNCHANGED vars
  <2>1. UNCHANGED <<pc, ctxDone, ops, errors>>
    BY <1>1 DEF TickWithoutResources, Clock, loopVars, windowVars, dispatchVars, vars
  <2> QED
    BY <2>1 DEF D!driverVars
<1>2. CASE StartDispatch
  BY <1>2 DEF StartDispatch, D!Next, D!Call
<1>3. CASE CallReturns
  BY <1>3 DEF CallReturns, D!Next, D!Return
<1>4. CASE Drain
  BY <1>4 DEF Drain, CtxSeen, dispatchVars, D!Next, D!Exit
<1>5. CASE EndRun
  BY <1>5 DEF EndRun, loopVars, dispatchVars, D!Next, D!End
<1> QED
  BY <1>1, <1>2, <1>3, <1>4, <1>5 DEF Next, Run, Terminated

\* An agent is a driver as a reader of its totals knows it: what bursts, ticks,
\* resources and the cluster do to it never shows as anything but a call.
THEOREM ImplementsDriver == Spec => D!Safety
BY RefinesInit, RefinesNext, Invariance, PTL DEF Spec, Safety, D!Safety
=============================================================================
