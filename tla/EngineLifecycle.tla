--------------------------- MODULE EngineLifecycle ---------------------------
(***************************************************************************)
(* The life of the rule engine one component ID shares: the collector host *)
(* builds processors through the factory (getOrCreate, adoptConfigIfIdle), *)
(* starts and shuts them down (start, stop), reloads its configuration and *)
(* may fail half-way through a start; the engine counts references, spawns *)
(* the sync and stats goroutines and waits for them under lifecycleMu.     *)
(***************************************************************************)
EXTENDS Integers, FiniteSets

CONSTANTS
  Processor,   \* processors of one collector service that share the engine
  Nil,         \* no engine, no context, no lock holder
  MaxReloads   \* bound: services built

\* sync_endpoint and stats_endpoint are each set or empty.
Kind   == {"sync", "stats"}
Config == SUBSET Kind

ASSUME ProcessorAssumption == IsFiniteSet(Processor) /\ Processor # {}
ASSUME BoundsAssumption == MaxReloads \in Nat
ASSUME NilAssumption ==
  Nil \notin Nat /\ Nil \notin Processor /\ \A c \in Config : Nil # c

VARIABLES
  phase,       \* host: what it is doing with its service
  svcCfg,      \* host: the configuration of that service
  reloads,     \* services built so far
  created, running, stopped,  \* processors built, started, shut down
  cfg,         \* engine: e.cfg, or Nil when the factory has no engine yet
  refs,        \* engine: reference count
  background,  \* engine: cancelBackground, as the context it cancels, or Nil
  holder,      \* engine: the processor whose stop waits inside lifecycleMu
  contexts,    \* contexts created so far
  cancelled,   \* those cancelled
  loops,       \* goroutines alive
  instruments, \* engine: e.telemetry, as the service whose meter provider it
               \* was registered with, or Nil
  registered   \* history: registrations with each service's meter provider

host   == <<phase, svcCfg, reloads, created, running, stopped>>
telemetry == <<instruments, registered>>
engine == <<cfg, refs, background, holder, contexts, telemetry>>
vars   == <<host, engine, cancelled, loops>>

Phase == {"down", "build", "start", "run", "stop", "abort"}
Loop  == [kind : Kind, context : Nat, at : {"busy", "select"}]

Init ==
  /\ phase = "down" /\ svcCfg = {} /\ reloads = 0
  /\ created = {} /\ running = {} /\ stopped = {}
  /\ cfg = Nil /\ refs = 0 /\ background = Nil /\ holder = Nil
  /\ contexts = 0 /\ cancelled = {} /\ loops = {}
  /\ instruments = Nil /\ registered = [s \in 1..MaxReloads |-> 0]

-----------------------------------------------------------------------------
(* The collector host. *)

\* (Re)read the configuration and begin to build a service from it.
BuildService(c) ==
  /\ phase = "down" /\ reloads < MaxReloads
  /\ phase' = "build" /\ svcCfg' = c /\ reloads' = reloads + 1
  /\ created' = {} /\ running' = {} /\ stopped' = {}
  /\ UNCHANGED <<engine, cancelled, loops>>

\* Every processor is built before any is started.
BeginStart ==
  /\ phase = "build" /\ created = Processor
  /\ phase' = "start"
  /\ UNCHANGED <<svcCfg, reloads, created, running, stopped, engine, cancelled, loops>>

ServiceRuns ==
  /\ phase = "start" /\ running = Processor
  /\ phase' = "run"
  /\ UNCHANGED <<svcCfg, reloads, created, running, stopped, engine, cancelled, loops>>

\* A reload or a shutdown.
BeginStop ==
  /\ phase = "run"
  /\ phase' = "stop"
  /\ UNCHANGED <<svcCfg, reloads, created, running, stopped, engine, cancelled, loops>>

\* Some component fails to start: the host shuts every processor down, the
\* ones it never started included.
StartFails ==
  /\ phase = "start"
  /\ phase' = "abort"
  /\ UNCHANGED <<svcCfg, reloads, created, running, stopped, engine, cancelled, loops>>

\* The old service is gone; the factory keeps its engine for the next one.
ServiceStopped ==
  /\ phase = "stop" /\ stopped = Processor
  /\ phase' = "down"
  /\ UNCHANGED <<svcCfg, reloads, created, running, stopped, engine, cancelled, loops>>

\* After a failed start the process exits; a new one has no engine.
ProcessExits ==
  /\ phase = "abort" /\ stopped = Processor
  /\ phase' = "down"
  /\ cfg' = Nil /\ refs' = 0 /\ background' = Nil /\ holder' = Nil /\ loops' = {}
  /\ instruments' = Nil
  /\ UNCHANGED <<svcCfg, reloads, created, running, stopped, contexts, cancelled, registered>>

-----------------------------------------------------------------------------
(* Factory and engine, each call under lifecycleMu. *)

\* adoptConfigIfIdle.
Adopted == IF cfg = Nil \/ refs = 0 THEN svcCfg ELSE cfg

RegistersInstruments == cfg = Nil

\* newEngineTelemetry, for a new engine: best effort, and off without a provider.
Register ==
  IF RegistersInstruments
  THEN \/ /\ instruments' = reloads
          /\ registered' = [registered EXCEPT ![reloads] = @ + 1]
       \/ UNCHANGED telemetry
  ELSE UNCHANGED telemetry

\* createTraces / createLogs / createMetrics: a new engine with its instruments,
\* or the cached one, which takes the new configuration only while nothing
\* holds it started.
Create(p) ==
  /\ phase = "build" /\ p \notin created
  /\ created' = created \cup {p}
  /\ cfg' = Adopted
  /\ Register
  /\ UNCHANGED <<phase, svcCfg, reloads, running, stopped, refs, background,
                 holder, contexts, cancelled, loops>>

\* Mutant: the goroutines of the context before.
MutantSpawnedBefore == {[kind |-> k, context |-> contexts - 1, at |-> "busy"] : k \in cfg}

Spawned == {[kind |-> k, context |-> contexts, at |-> "busy"] : k \in cfg}

\* Mutant: every start spawns.
MutantEveryStartSpawns == cfg # {}

SpawnsLoops == ~(refs + 1 > 1) /\ cfg # {}

\* start: count; the first one spawns a goroutine per configured endpoint.
StartProcessor(p) ==
  /\ phase = "start" /\ p \notin running /\ holder = Nil
  /\ running' = running \cup {p}
  /\ refs' = refs + 1
  /\ IF SpawnsLoops
     THEN /\ background' = contexts
          /\ contexts' = contexts + 1
          /\ loops' = loops \cup Spawned
     ELSE UNCHANGED <<background, contexts, loops>>
  /\ UNCHANGED <<phase, svcCfg, reloads, created, stopped, cfg, holder, cancelled, telemetry>>

\* stop: discount; nothing more unless this was the last one of an engine with
\* goroutines.
StopCounts(p) ==
  /\ phase \in {"stop", "abort"} /\ p \notin stopped /\ holder = Nil
  /\ refs - 1 > 0 \/ background = Nil
  /\ refs' = refs - 1
  /\ stopped' = stopped \cup {p}
  /\ UNCHANGED <<phase, svcCfg, reloads, created, running, cfg, background,
                 holder, contexts, cancelled, loops, telemetry>>

\* Mutant: the last stop waits without cancelling.
MutantStopKeepsContext(p) ==
  /\ phase \in {"stop", "abort"} /\ p \notin stopped /\ holder = Nil
  /\ ~(refs - 1 > 0 \/ background = Nil)
  /\ refs' = refs - 1
  /\ holder' = p
  /\ UNCHANGED <<host, cfg, background, contexts, cancelled, loops, telemetry>>

\* stop, the last one: cancel the goroutines and wait, lock in hand ...
StopCancels(p) ==
  /\ phase \in {"stop", "abort"} /\ p \notin stopped /\ holder = Nil
  /\ ~(refs - 1 > 0 \/ background = Nil)
  /\ refs' = refs - 1
  /\ cancelled' = cancelled \cup {background}
  /\ holder' = p
  /\ UNCHANGED <<host, cfg, background, contexts, loops, telemetry>>

\* Mutant: the last stop does not wait.
MutantStopWithoutWait(p) ==
  /\ holder = p
  /\ background' = Nil /\ holder' = Nil
  /\ stopped' = stopped \cup {p}
  /\ UNCHANGED <<phase, svcCfg, reloads, created, running, cfg, refs, contexts,
                 cancelled, loops, telemetry>>

\* ... until backgroundDone.Wait returns.
StopReturns(p) ==
  /\ holder = p /\ loops = {}
  /\ background' = Nil /\ holder' = Nil
  /\ stopped' = stopped \cup {p}
  /\ UNCHANGED <<phase, svcCfg, reloads, created, running, cfg, refs, contexts,
                 cancelled, loops, telemetry>>

-----------------------------------------------------------------------------
(* The goroutines: runSyncLoop and runStatsLoop. *)

\* One poll or report ends: the request has a timeout and obeys the context.
WorkDone(g) ==
  /\ g.at = "busy"
  /\ loops' = (loops \ {g}) \cup {[g EXCEPT !.at = "select"]}
  /\ UNCHANGED <<host, engine, cancelled>>

\* The select takes a tick, even if the context is cancelled too.
TakeTick(g) ==
  /\ g.at = "select"
  /\ loops' = (loops \ {g}) \cup {[g EXCEPT !.at = "busy"]}
  /\ UNCHANGED <<host, engine, cancelled>>

\* The select takes ctx.Done.
ExitLoop(g) ==
  /\ g.at = "select" /\ g.context \in cancelled
  /\ loops' = loops \ {g}
  /\ UNCHANGED <<host, engine, cancelled>>

-----------------------------------------------------------------------------
Host ==
  \/ \E c \in Config : BuildService(c)
  \/ BeginStart \/ ServiceRuns \/ BeginStop \/ StartFails
  \/ ServiceStopped \/ ProcessExits

StopStep == \E p \in Processor : StopCounts(p) \/ StopCancels(p) \/ StopReturns(p)

Engine ==
  \/ \E p \in Processor : Create(p) \/ StartProcessor(p)
  \/ StopStep

Goroutines == \E g \in loops : WorkDone(g) \/ TakeTick(g) \/ ExitLoop(g)

Next == Host \/ Engine \/ Goroutines

Spec == Init /\ [][Next]_vars

Finish(k) == \E g \in loops : g.kind = k /\ WorkDone(g)
Leave(k)  == \E g \in loops : g.kind = k /\ ExitLoop(g)

\* The host goes on shutting down; a request ends by its timeout at the
\* latest; a select that keeps finding ctx.Done ready picks it some time, as
\* select chooses at random among the ready cases.
Fairness ==
  /\ WF_vars(StopStep) /\ WF_vars(ServiceStopped \/ ProcessExits)
  /\ \A k \in Kind : WF_vars(Finish(k)) /\ SF_vars(Leave(k))

FairSpec == Spec /\ Fairness

-----------------------------------------------------------------------------
(* Properties. *)

\* Type correctness: the holder of lifecycleMu, the contexts and the goroutines;
\* refs may be negative, as in the code after a failed start.
TypeOK ==
  /\ phase \in Phase /\ svcCfg \in Config /\ reloads \in 0..MaxReloads
  /\ created \subseteq Processor /\ running \subseteq Processor
  /\ stopped \subseteq Processor
  /\ cfg \in Config \cup {Nil} /\ refs \in Int
  /\ background \in Nat \cup {Nil} /\ holder \in Processor \cup {Nil}
  /\ contexts \in Nat /\ cancelled \subseteq Nat /\ loops \subseteq Loop
  /\ instruments \in 1..MaxReloads \cup {Nil} /\ registered \in [1..MaxReloads -> 0..1]

\* "After the last stop returns, nothing touches the network or the rule cache"
\* (stop): an engine nobody holds, with no stop still waiting, has no goroutine
\* left, neither after a reload nor after a start that failed half-way.
QuietAfterLastStop == refs <= 0 /\ holder = Nil => loops = {}

\* "polls the policy endpoint once and sends one combined heartbeat"
\* (sharedEngines): however many processors share the engine, while they run it
\* has exactly one uncancelled goroutine per configured endpoint of the running
\* service's configuration.
OneLoopPerEndpoint ==
  phase = "run" =>
    /\ {g.kind : g \in loops} = svcCfg
    /\ \A g, h \in loops : g.kind = h.kind => g = h
    /\ \A g \in loops : g.context \notin cancelled

\* The goroutines read e.cfg without a lock: adoptConfigIfIdle never swaps it
\* under one.
ConfigStableUnderLoops == [][cfg' # cfg => loops = {}]_vars

\* No deadlock between the stop that waits under lifecycleMu, the stops queued
\* behind it and the goroutines it waits for: every shutdown completes.
ShutdownCompletes == phase \in {"stop", "abort"} ~> phase = "down"
=============================================================================
