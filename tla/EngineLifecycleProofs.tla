------------------------ MODULE EngineLifecycleProofs ------------------------
(***************************************************************************)
(* The engine's life for any number of processors and reloads: no          *)
(* goroutine outlives the last stop, exactly one polls per endpoint, and   *)
(* none sees its configuration change.  The argument counts: `refs` is the *)
(* number of processors started less those stopped, so that it is zero     *)
(* whenever a service is built, and the goroutines belong to the context   *)
(* the engine would cancel.                                                *)
(***************************************************************************)
EXTENDS EngineLifecycle, FiniteSetTheorems, TLAPS

\* The stop that waits has been counted, but has not returned.
Waiting == IF holder = Nil THEN 0 ELSE 1

\* What the host's phase says about its processors.
PhaseInv ==
  /\ phase \in {"build", "start", "run"} => stopped = {}
  /\ phase = "build" => running = {}
  /\ phase \in {"run", "stop"} => running = Processor
  /\ phase # "down" => reloads >= 1
  /\ holder # Nil => phase \in {"stop", "abort"} /\ holder \notin stopped

\* refs counts the starts less the stops of the service; nothing is left of
\* the one before.
RefsInv ==
  IF phase = "down"
  THEN refs = 0
  ELSE refs = Cardinality(running) - Cardinality(stopped) - Waiting

\* Goroutines belong to the engine's context, which is there only while some
\* processor holds the engine or the last stop waits, and is cancelled by the
\* latter alone.
ContextInv ==
  /\ \A g \in loops : g.context = background
  /\ background # Nil =>
       /\ background < contexts
       /\ background \in cancelled <=> holder # Nil
       /\ holder = Nil => refs > 0
  /\ background = Nil => loops = {} /\ holder = Nil
  /\ \A c \in cancelled : c < contexts

\* A service runs its own configuration, one goroutine per endpoint of it from
\* the first start on.
ConfigInv ==
  /\ phase = "build" /\ created # {} => cfg = svcCfg
  /\ phase \in {"start", "run"} =>
       /\ cfg = svcCfg
       /\ refs > 0 => {g.kind : g \in loops} = cfg
       /\ \A g, h \in loops : g.kind = h.kind => g = h

\* Instruments are registered with the provider of the service under way.
InstrumentsInv ==
  /\ \A s \in 1..MaxReloads : s > reloads => registered[s] = 0
  /\ phase = "build" /\ cfg = Nil => registered[reloads] = 0

IInv ==
  TypeOK /\ PhaseInv /\ RefsInv /\ ContextInv /\ ConfigInv /\ InstrumentsInv

-----------------------------------------------------------------------------
(* Counting processors. *)

LEMMA SubsetsCount ==
  ASSUME NEW S \in SUBSET Processor
  PROVE  /\ IsFiniteSet(S) /\ Cardinality(S) \in Nat
         /\ Cardinality(S) <= Cardinality(Processor)
         /\ \A p \in Processor \ S : Cardinality(S \cup {p}) = Cardinality(S) + 1
<1>1. IsFiniteSet(S) /\ Cardinality(S) <= Cardinality(Processor)
  BY ProcessorAssumption, FS_Subset
<1>2. Cardinality(S) \in Nat
  BY <1>1, FS_CardinalityType
<1>3. ASSUME NEW p \in Processor \ S
      PROVE  Cardinality(S \cup {p}) = Cardinality(S) + 1
  BY <1>1, FS_AddElement
<1>4. QED
  BY <1>1, <1>2, <1>3

LEMMA NobodyCounts == Cardinality({}) = 0
BY FS_EmptySet

-----------------------------------------------------------------------------
(* The inductive invariant. *)

LEMMA InitIInv == Init => IInv
<1>1. SUFFICES ASSUME Init PROVE IInv
  OBVIOUS
<1>2. TypeOK
  BY <1>1, BoundsAssumption DEF Init, TypeOK, Phase, Config, Kind
<1>3. PhaseInv /\ RefsInv /\ ContextInv /\ ConfigInv
  BY <1>1 DEF Init, PhaseInv, RefsInv, ContextInv, ConfigInv
<1>4. InstrumentsInv
  BY <1>1 DEF Init, InstrumentsInv
<1>5. QED
  BY <1>2, <1>3, <1>4 DEF IInv

\* The host's own steps leave the engine alone.
LEMMA BuildServiceStep ==
  ASSUME IInv, NEW c \in Config, BuildService(c)
  PROVE  IInv'
<1>1. TypeOK'
  BY BoundsAssumption DEF IInv, TypeOK, BuildService, engine, telemetry, Phase
<1>2. holder = Nil /\ refs = 0
  BY DEF IInv, PhaseInv, RefsInv, BuildService
<1>3. PhaseInv'
  BY <1>2 DEF IInv, TypeOK, PhaseInv, BuildService, engine
<1>4. RefsInv'
  BY <1>2, NobodyCounts DEF RefsInv, Waiting, BuildService, engine
<1>5. ContextInv' /\ ConfigInv'
  BY DEF IInv, ContextInv, ConfigInv, BuildService, engine
<1>6. InstrumentsInv'
  BY BoundsAssumption DEF IInv, TypeOK, InstrumentsInv, BuildService, engine, telemetry
<1>7. QED
  BY <1>1, <1>3, <1>4, <1>5, <1>6 DEF IInv

LEMMA PhaseStep ==
  ASSUME IInv, BeginStart \/ ServiceRuns \/ BeginStop \/ StartFails \/ ServiceStopped
  PROVE  IInv'
<1> USE DEF BeginStart, ServiceRuns, BeginStop, StartFails, ServiceStopped
<1>1. TypeOK'
  BY DEF IInv, TypeOK, engine, telemetry, Phase
<1>2. holder # Nil => phase \in {"stop", "abort"} /\ stopped # Processor
  BY DEF IInv, TypeOK, PhaseInv
<1>3. PhaseInv'
  BY <1>2 DEF IInv, PhaseInv, engine
<1>4. RefsInv'
  <2>1. CASE ServiceStopped
    <3>1. running = Processor /\ stopped = Processor /\ holder = Nil
      BY <1>2, <2>1 DEF IInv, PhaseInv
    <3>2. refs = 0
      BY <2>1, <3>1, SubsetsCount DEF IInv, RefsInv, Waiting
    <3>3. QED
      BY <2>1, <3>2 DEF RefsInv, engine
  <2>2. CASE BeginStart \/ ServiceRuns \/ BeginStop \/ StartFails
    BY <2>2 DEF IInv, RefsInv, Waiting, engine
  <2>3. QED
    BY <2>1, <2>2
<1>5. ContextInv'
  BY DEF IInv, ContextInv, engine
<1>6. ConfigInv'
  <2>1. CASE BeginStart
    <3>1. cfg = svcCfg
      BY <2>1, ProcessorAssumption DEF IInv, ConfigInv
    <3>2. refs = 0 /\ holder = Nil
      BY <2>1, NobodyCounts DEF IInv, PhaseInv, RefsInv, Waiting
    <3>3. loops = {}
      BY <3>2 DEF IInv, ContextInv
    <3>4. QED
      BY <2>1, <3>1, <3>2, <3>3 DEF ConfigInv, engine
  <2>2. CASE ServiceRuns \/ BeginStop \/ StartFails \/ ServiceStopped
    BY <2>2 DEF IInv, ConfigInv, engine
  <2>3. QED
    BY <2>1, <2>2
<1>7. InstrumentsInv'
  BY DEF IInv, InstrumentsInv, engine, telemetry
<1>8. QED
  BY <1>1, <1>3, <1>4, <1>5, <1>6, <1>7 DEF IInv

\* Every processor was shut down after the failed start: nobody holds the
\* engine, so it has no goroutine.
LEMMA QuietInv == IInv /\ refs <= 0 /\ holder = Nil => background = Nil /\ loops = {}
BY DEF IInv, TypeOK, ContextInv

LEMMA AbortedCount ==
  ASSUME IInv, phase = "abort", stopped = Processor
  PROVE  holder = Nil /\ refs <= 0
<1>1. holder = Nil
  BY DEF IInv, TypeOK, PhaseInv
<1>2. running \in SUBSET Processor
  BY DEF IInv, TypeOK
<1>3. QED
  BY <1>1, <1>2, SubsetsCount DEF IInv, RefsInv, Waiting

LEMMA ProcessExitsStep ==
  ASSUME IInv, ProcessExits
  PROVE  IInv'
<1>1. TypeOK'
  BY DEF IInv, TypeOK, ProcessExits, Phase
<1>2. PhaseInv' /\ RefsInv' /\ ConfigInv'
  BY DEF PhaseInv, RefsInv, ConfigInv, ProcessExits
<1>3. ContextInv'
  BY DEF IInv, ContextInv, ProcessExits
<1>4. InstrumentsInv'
  BY DEF IInv, InstrumentsInv, ProcessExits
<1>5. QED
  BY <1>1, <1>2, <1>3, <1>4 DEF IInv

\* While a service is built nobody holds the engine.
LEMMA BuildIsIdle == IInv /\ phase = "build" => refs = 0 /\ holder = Nil /\ loops = {}
<1>1. SUFFICES ASSUME IInv, phase = "build"
               PROVE  refs = 0 /\ holder = Nil /\ loops = {}
  OBVIOUS
<1>2. refs = 0 /\ holder = Nil
  BY <1>1, NobodyCounts DEF IInv, PhaseInv, RefsInv, Waiting
<1>3. QED
  BY <1>1, <1>2, QuietInv

LEMMA CreateStep ==
  ASSUME IInv, NEW p \in Processor, Create(p)
  PROVE  IInv'
<1>1. refs = 0 /\ holder = Nil
  BY BuildIsIdle DEF Create
<1>2. cfg' = svcCfg /\ cfg' # Nil
  BY <1>1, NilAssumption DEF IInv, TypeOK, Create, Adopted
<1>3. UNCHANGED telemetry \/
        /\ cfg = Nil /\ instruments' = reloads
        /\ registered' = [registered EXCEPT ![reloads] = registered[reloads] + 1]
  BY DEF Create, Register, RegistersInstruments
<1>4. reloads \in 1..MaxReloads
  BY BoundsAssumption DEF IInv, TypeOK, PhaseInv, Create
<1>5. TypeOK'
  <2>1. instruments' \in 1..MaxReloads \cup {Nil}
    BY <1>3, <1>4 DEF IInv, TypeOK, telemetry
  <2>2. registered' \in [1..MaxReloads -> 0..1]
    BY <1>3, <1>4 DEF IInv, TypeOK, InstrumentsInv, Create, telemetry
  <2>3. QED
    BY <1>2, <2>1, <2>2 DEF IInv, TypeOK, Create
<1>6. PhaseInv' /\ RefsInv'
  BY DEF IInv, PhaseInv, RefsInv, Waiting, Create
<1>7. ContextInv' /\ ConfigInv'
  BY <1>2 DEF IInv, ContextInv, ConfigInv, Create
<1>8. InstrumentsInv'
  <2>1. reloads' = reloads
    BY DEF Create
  <2>2. \A s \in 1..MaxReloads : s > reloads => registered'[s] = registered[s]
    <3>1. CASE UNCHANGED telemetry
      BY <3>1 DEF telemetry
    <3>2. CASE registered' = [registered EXCEPT ![reloads] = registered[reloads] + 1]
      BY <1>4, <3>2 DEF IInv, TypeOK
    <3>3. QED
      BY <1>3, <3>1, <3>2
  <2>3. QED
    BY <1>2, <2>1, <2>2 DEF IInv, InstrumentsInv
<1>9. QED
  BY <1>5, <1>6, <1>7, <1>8 DEF IInv

\* The first start spawns, and finds nothing left to share endpoints with.
LEMMA StartProcessorStep ==
  ASSUME IInv, NEW p \in Processor, StartProcessor(p)
  PROVE  IInv'
<1>1. /\ phase = "start" /\ holder = Nil /\ stopped = {} /\ cfg = svcCfg
      /\ refs = Cardinality(running) /\ refs \in Nat /\ refs' = refs + 1
  <2>1. phase = "start" /\ holder = Nil /\ stopped = {} /\ cfg = svcCfg /\ refs' = refs + 1
    BY DEF IInv, PhaseInv, ConfigInv, StartProcessor
  <2>2. Cardinality(running) \in Nat
    BY SubsetsCount DEF IInv, TypeOK
  <2>3. QED
    BY <2>1, <2>2, NobodyCounts DEF IInv, RefsInv, Waiting
<1>2. RefsInv'
  <2>1. Cardinality(running') = Cardinality(running) + 1
    BY SubsetsCount DEF IInv, TypeOK, StartProcessor
  <2>2. QED
    BY <1>1, <2>1, NobodyCounts DEF RefsInv, Waiting, StartProcessor
<1>3. PhaseInv'
  BY <1>1 DEF IInv, PhaseInv, StartProcessor
<1>4. InstrumentsInv'
  BY DEF IInv, InstrumentsInv, StartProcessor, telemetry
<1>5. CASE SpawnsLoops
  <2>1. refs = 0 /\ loops = {} /\ background = Nil
    BY <1>1, <1>5, QuietInv DEF SpawnsLoops
  <2>2. loops' = Spawned /\ background' = contexts /\ contexts' = contexts + 1
    BY <1>5, <2>1 DEF StartProcessor
  <2>3. cfg \subseteq Kind
    BY <1>1 DEF IInv, TypeOK, Config
  <2>4. TypeOK'
    BY <2>2, <2>3 DEF IInv, TypeOK, StartProcessor, Spawned, Loop, telemetry
  <2>5. contexts \in Nat /\ contexts # Nil /\ contexts \notin cancelled
    BY NilAssumption DEF IInv, TypeOK, ContextInv
  <2>6. ContextInv'
    BY <1>1, <2>2, <2>5 DEF IInv, TypeOK, ContextInv, StartProcessor, Spawned
  <2>7. {g.kind : g \in Spawned} = cfg
    <3>1. \A g \in Spawned : g.kind \in cfg
      BY DEF Spawned
    <3>2. ASSUME NEW k \in cfg PROVE \E g \in Spawned : g.kind = k
      <4>1. [kind |-> k, context |-> contexts, at |-> "busy"] \in Spawned
        BY <3>2 DEF Spawned
      <4>2. QED
        BY <4>1
    <3>3. QED
      BY <3>1, <3>2
  <2>8. \A g, h \in Spawned : g.kind = h.kind => g = h
    BY DEF Spawned
  <2>9. ConfigInv'
    BY <1>1, <2>2, <2>7, <2>8 DEF ConfigInv, StartProcessor
  <2>10. QED
    BY <1>2, <1>3, <1>4, <2>4, <2>6, <2>9 DEF IInv
<1>6. CASE ~SpawnsLoops
  <2>1. UNCHANGED <<background, contexts, loops>>
    BY <1>6 DEF StartProcessor
  <2>2. TypeOK'
    BY <2>1 DEF IInv, TypeOK, StartProcessor, telemetry
  <2>3. ContextInv'
    BY <1>1, <2>1 DEF IInv, ContextInv, StartProcessor
  <2>4. {g.kind : g \in loops} = cfg
    <3>1. CASE refs > 0
      BY <1>1, <3>1 DEF IInv, ConfigInv
    <3>2. CASE refs = 0
      BY <1>1, <1>6, <3>2, QuietInv DEF SpawnsLoops
    <3>3. QED
      BY <1>1, <3>1, <3>2 DEF IInv, TypeOK
  <2>5. ConfigInv'
    BY <1>1, <2>1, <2>4 DEF IInv, ConfigInv, StartProcessor
  <2>6. QED
    BY <1>2, <1>3, <1>4, <2>2, <2>3, <2>5 DEF IInv
<1>7. QED
  BY <1>5, <1>6

LEMMA StopCountsStep ==
  ASSUME IInv, NEW p \in Processor, StopCounts(p)
  PROVE  IInv'
<1>1. TypeOK'
  BY DEF IInv, TypeOK, StopCounts, telemetry
<1>2. PhaseInv'
  BY DEF IInv, PhaseInv, StopCounts
<1>3. RefsInv'
  <2>1. Cardinality(stopped') = Cardinality(stopped) + 1 /\ Cardinality(stopped) \in Nat
    BY SubsetsCount DEF IInv, TypeOK, StopCounts
  <2>2. Cardinality(running) \in Nat
    BY SubsetsCount DEF IInv, TypeOK
  <2>3. QED
    BY <2>1, <2>2 DEF IInv, RefsInv, Waiting, StopCounts
<1>4. ContextInv'
  BY DEF IInv, TypeOK, ContextInv, StopCounts
<1>5. ConfigInv' /\ InstrumentsInv'
  BY DEF IInv, ConfigInv, InstrumentsInv, StopCounts, telemetry
<1>6. QED
  BY <1>1, <1>2, <1>3, <1>4, <1>5 DEF IInv

LEMMA StopCancelsStep ==
  ASSUME IInv, NEW p \in Processor, StopCancels(p)
  PROVE  IInv'
<1>1. background \in Nat /\ holder' = p /\ p # Nil
  BY NilAssumption DEF IInv, TypeOK, StopCancels
<1>2. TypeOK'
  BY <1>1 DEF IInv, TypeOK, StopCancels, host, telemetry
<1>3. PhaseInv'
  BY DEF IInv, PhaseInv, StopCancels, host
<1>4. RefsInv'
  <2>1. Cardinality(stopped) \in Nat /\ Cardinality(running) \in Nat
    BY SubsetsCount DEF IInv, TypeOK
  <2>2. QED
    BY <1>1, <2>1 DEF IInv, RefsInv, Waiting, StopCancels, host
<1>5. ContextInv'
  BY <1>1 DEF IInv, TypeOK, ContextInv, StopCancels
<1>6. ConfigInv' /\ InstrumentsInv'
  BY DEF IInv, ConfigInv, InstrumentsInv, StopCancels, host, telemetry
<1>7. QED
  BY <1>2, <1>3, <1>4, <1>5, <1>6 DEF IInv

LEMMA StopReturnsStep ==
  ASSUME IInv, NEW p \in Processor, StopReturns(p)
  PROVE  IInv'
<1>1. holder = p /\ p # Nil /\ holder' = Nil
  BY NilAssumption DEF StopReturns
<1>2. TypeOK'
  BY DEF IInv, TypeOK, StopReturns, telemetry
<1>3. PhaseInv'
  BY <1>1 DEF IInv, PhaseInv, StopReturns
<1>4. RefsInv'
  <2>1. p \notin stopped
    BY <1>1 DEF IInv, PhaseInv
  <2>2. Cardinality(stopped') = Cardinality(stopped) + 1 /\ Cardinality(stopped) \in Nat
    BY <2>1, SubsetsCount DEF IInv, TypeOK, StopReturns
  <2>3. Cardinality(running) \in Nat
    BY SubsetsCount DEF IInv, TypeOK
  <2>4. QED
    BY <1>1, <2>2, <2>3 DEF IInv, RefsInv, Waiting, StopReturns
<1>5. ContextInv'
  BY <1>1 DEF IInv, ContextInv, StopReturns
<1>6. ConfigInv' /\ InstrumentsInv'
  BY <1>1 DEF IInv, PhaseInv, ConfigInv, InstrumentsInv, StopReturns, telemetry
<1>7. QED
  BY <1>2, <1>3, <1>4, <1>5, <1>6 DEF IInv

\* A goroutine that goes on keeps its endpoint and its context.
LEMMA GoroutineStep ==
  ASSUME IInv, NEW g \in loops, WorkDone(g) \/ TakeTick(g) \/ ExitLoop(g)
  PROVE  IInv'
<1>1. PICK S :
        /\ loops' = (loops \ {g}) \cup S
        /\ \/ S = {} /\ ExitLoop(g)
           \/ \E a \in {"busy", "select"} : S = {[g EXCEPT !.at = a]}
  <2>1. CASE WorkDone(g)
    BY <2>1 DEF WorkDone
  <2>2. CASE TakeTick(g)
    BY <2>2 DEF TakeTick
  <2>3. CASE ExitLoop(g)
    BY <2>3 DEF ExitLoop
  <2>4. QED
    BY <2>1, <2>2, <2>3
<1>2. UNCHANGED <<host, engine, cancelled>> /\ g \in Loop
  BY DEF IInv, TypeOK, WorkDone, TakeTick, ExitLoop
<1>3. \A h \in S : h \in Loop /\ h.kind = g.kind /\ h.context = g.context
  BY <1>1, <1>2 DEF Loop
<1>4. TypeOK'
  BY <1>1, <1>2, <1>3 DEF IInv, TypeOK, host, engine, telemetry
<1>5. PhaseInv' /\ RefsInv' /\ InstrumentsInv'
  BY <1>2 DEF IInv, PhaseInv, RefsInv, Waiting, InstrumentsInv, host, engine, telemetry
<1>6. ContextInv'
  BY <1>1, <1>2, <1>3 DEF IInv, ContextInv, host, engine
<1>7. ConfigInv'
  <2>1. CASE phase \in {"start", "run"}
    <3>1. g.context \notin cancelled
      BY <2>1 DEF IInv, PhaseInv, ContextInv
    <3>2. S # {}
      BY <1>1, <3>1 DEF ExitLoop
    <3>3. {h.kind : h \in loops'} = {h.kind : h \in loops}
      BY <1>1, <1>3, <3>2
    <3>4. \A h, k \in loops' : h.kind = k.kind => h = k
      BY <1>1, <1>3, <2>1 DEF IInv, ConfigInv
    <3>5. QED
      BY <1>2, <3>3, <3>4 DEF IInv, ConfigInv, host, engine
  <2>2. CASE phase \notin {"start", "run"}
    BY <1>2, <2>2 DEF IInv, ConfigInv, host, engine
  <2>3. QED
    BY <2>1, <2>2
<1>8. QED
  BY <1>4, <1>5, <1>6, <1>7 DEF IInv

LEMMA NextIInv == IInv /\ [Next]_vars => IInv'
<1>1. SUFFICES ASSUME IInv, [Next]_vars PROVE IInv'
  OBVIOUS
<1>2. CASE Host
  BY <1>1, <1>2, BuildServiceStep, PhaseStep, ProcessExitsStep DEF Host
<1>3. CASE Engine
  BY <1>1, <1>3, CreateStep, StartProcessorStep, StopCountsStep, StopCancelsStep,
     StopReturnsStep
  DEF Engine, StopStep
<1>4. CASE Goroutines
  BY <1>1, <1>4, GoroutineStep DEF Goroutines
<1>5. CASE UNCHANGED vars
  BY <1>1, <1>5
  DEF vars, host, engine, telemetry, IInv, TypeOK, PhaseInv, RefsInv, Waiting,
      ContextInv, ConfigInv, InstrumentsInv
<1>6. QED
  BY <1>1, <1>2, <1>3, <1>4, <1>5 DEF Next

LEMMA InductiveInvariant == Spec => []IInv
BY InitIInv, NextIInv, PTL DEF Spec

-----------------------------------------------------------------------------
(* Theorems. *)

\* The engine is well typed whatever the host does, and its instruments are
\* registered at most once with any service's provider.
THEOREM TypeCorrect == Spec => []TypeOK
<1>1. IInv => TypeOK
  BY DEF IInv
<1>2. QED
  BY <1>1, InductiveInvariant, PTL

\* After the last stop has returned no goroutine polls or reports: for any
\* number of processors, after reloads and after starts that failed half-way.
THEOREM NoLoopOutlivesTheLastStop == Spec => []QuietAfterLastStop
<1>1. IInv => QuietAfterLastStop
  BY QuietInv DEF QuietAfterLastStop
<1>2. QED
  BY <1>1, InductiveInvariant, PTL

\* However many processors share the engine, it polls once and sends one
\* heartbeat while they run.
THEOREM EndpointsPolledOnce == Spec => []OneLoopPerEndpoint
<1>1. ASSUME IInv, phase = "run"
      PROVE  /\ {g.kind : g \in loops} = svcCfg
             /\ \A g, h \in loops : g.kind = h.kind => g = h
             /\ \A g \in loops : g.context \notin cancelled
  <2>1. holder = Nil /\ running = Processor /\ stopped = {}
    BY <1>1 DEF IInv, PhaseInv
  <2>2. Cardinality(running) \in Nat /\ Cardinality(running) # 0
    BY <2>1, SubsetsCount, ProcessorAssumption, FS_EmptySet
  <2>3. refs > 0
    BY <1>1, <2>1, <2>2, NobodyCounts DEF IInv, RefsInv, Waiting
  <2>4. QED
    BY <1>1, <2>1, <2>3 DEF IInv, ConfigInv, ContextInv
<1>2. IInv => OneLoopPerEndpoint
  BY <1>1 DEF OneLoopPerEndpoint
<1>3. QED
  BY <1>2, InductiveInvariant, PTL

\* No goroutine ever finds e.cfg exchanged under it: the read without a lock is
\* safe.
THEOREM ConfigUnderLoopsIsStable == Spec => ConfigStableUnderLoops
<1>1. ASSUME IInv, [Next]_vars, cfg' # cfg
      PROVE  loops = {}
  <2>1. ASSUME NEW p \in Processor, Create(p)
        PROVE  loops = {}
    BY <1>1, <2>1, BuildIsIdle DEF Create
  <2>2. CASE ProcessExits
    BY <1>1, <2>2, AbortedCount, QuietInv DEF ProcessExits
  <2>3. CASE Host /\ ~ProcessExits
    BY <1>1, <2>3
    DEF Host, BuildService, BeginStart, ServiceRuns, BeginStop, StartFails,
        ServiceStopped, engine
  <2>4. ASSUME NEW p \in Processor, StartProcessor(p)
        PROVE  FALSE
    BY <1>1, <2>4 DEF StartProcessor
  <2>5. CASE StopStep
    BY <1>1, <2>5 DEF StopStep, StopCounts, StopCancels, StopReturns
  <2>6. CASE Goroutines \/ UNCHANGED vars
    BY <1>1, <2>6 DEF Goroutines, WorkDone, TakeTick, ExitLoop, vars, engine
  <2>7. QED
    BY <1>1, <2>1, <2>2, <2>3, <2>4, <2>5, <2>6 DEF Next, Engine
<1>2. IInv /\ [Next]_vars => [cfg' # cfg => loops = {}]_vars
  BY <1>1
<1>3. QED
  BY <1>2, InductiveInvariant, PTL DEF Spec, ConfigStableUnderLoops
=============================================================================
