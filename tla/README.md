# Verification of pulse-telemetry

TLA+ specifications, TLC runs and TLAPS proofs kept beside the code in `src/`.
Pulse is a telemetry firewall: a control plane (Next.js, Postgres) stores policy
rules per collector fleet, and a processor inside each OpenTelemetry collector
(`pulse_filter`, Go) polls them, applies them to traces, logs and metrics, and
reports what it received and dropped.

Paths below are relative to `src/data-plane/processors/filterprocessor/` for Go
and to `src/control-plane/` for TypeScript.

## 1. Inventory

| Component | State | Operations | Talks to |
|---|---|---|---|
| Engine lifecycle (`engine.go`, `factory.go`) | `engines` by component ID, `cfg`, `refs`, `cancelBackground`, goroutines | getOrCreate, adoptConfigIfIdle, start, stop | collector host; spawns the two loops |
| Policy sync (`engine.go`) | `rules`, `lastRulesHash`, `lastETag` | runSyncLoop, syncOnce, snapshotRules | policies route over HTTP; consume calls read `rules` |
| Telemetry accounting (`engine.go`) | six interval counters | observeTraces / Logs / Metrics, runStatsLoop, reportStatsOnce, postStats | stats route over HTTP |
| Rule evaluation (`processor.go`, `logs.go`, `metrics.go`, `rules.go`) | the batch under evaluation | ConsumeTraces / Logs / Metrics and what they call, compileRules | receivers, next consumer, throttle buckets, accounting |
| Throttle buckets (`ratelimit.go`) | `cur`, `prev`, limiters | allow, getOrCreate | consume calls of all signals |
| Policies route (`src/app/api/v1/policies/`) | none (reads PolicyRule) | GET with ETag / 304 | Postgres |
| Stats route (`src/app/api/v1/telemetry/`) | FleetMetric rows | POST, asCount | Postgres |
| Fleet authentication (`src/lib/fleet-auth.ts`) | none | authenticateFleet | both routes |
| Dashboard actions (`src/app/dashboard/actions.ts`) | PolicyRule rows | createRule, toggleRuleActive, deleteRule | Postgres |
| Dashboard pages (`src/app/dashboard/page.tsx`) | what each open tab shows | render, AutoRefresh, collectorOnline, ruleEnforced, totals | Postgres, read only |
| Configuration (`config.go`) | none | Validate | collector host |
| Self-metrics (`telemetry.go`) | instruments of one meter provider | newEngineTelemetry, additions | collector's own telemetry |
| Load generator (`deploy/sandbox/loadgen/main.go`) | pacers, window, totals, cumulative counters | tick, exportLogs / Traces / Metrics, report, shutdown | OTLP to the collector |
| Prisma schema and seed, deployment, CI | - | - | not part of the policy logic |

What is hard, and what makes each part correct:

* **Accounting.** Consumers add while the reporter swaps six atomics one by one,
  and a POST may fail before or after the row is written. Correct: no event is
  lost or invented except where the protocol cannot know better.
* **Sync.** Edits, polls, answers and reloads interleave; the ETag is a cache key
  for a cache that can refuse what it fetched. Correct: a conditional poll never
  asks about anything but the enforced ruleset, and rulesets never go backwards.
* **Lifecycle.** Several processors share one engine across reloads and failed
  starts, and the last `stop` waits with the mutex held. Correct: one goroutine
  per endpoint while running, none after, no deadlock, no configuration changed
  under a goroutine.
* **Throttle.** Concurrent misses, rotation and eviction. Correct: one limiter per
  key, bounded memory, the rate is the rate.
* **Evaluation.** The walk removes what it iterates over and rewrites a resource
  that other records share, while a new ruleset may be published. Correct: the
  order-free reading of the rules, wherever rules do not rewrite what others read.
* **Dashboard.** Every tab shows an older state of the rules, a toggle is a read and
  a write, and three pieces of code in two languages decide what a rule may be, what
  it does and what its card says. Correct: the card tells what the data plane does,
  and a click can only be misread through somebody else's write.
* **Timing.** Calls outlast intervals, tickers drop ticks, and the page compares
  heartbeats with a constant. Correct: polls and edits keep their deadlines, and the
  online badge errs in neither direction beyond what the constants say.
* **Load generator.** Exports block the loop that paces them. Correct: the rate is
  kept, no record is lost silently, the shutdown comes to an end.

`PROJECT.json` lists every component and, under `hazards`, each hard place at its
line with the properties that watch it.

## 2. Modules

| Module | What it models |
|---|---|
| `StatsReport` | Accounting: counters, stats goroutine, network, stats route |
| `RuleCache` | Abstract: what an engine promises about the ruleset it enforces |
| `PolicySync` | Sync goroutine, policies route, edits, network, reload; implements `RuleCache` |
| `EngineLifecycle` | Collector host, factory, start / stop, goroutines |
| `ThrottleBuckets` | Concurrent `allow` / `getOrCreate` on one limiterGroup |
| `Rules` | What a compiled rule means; shared by the next module and the dashboard |
| `RuleEvaluation` | A consume call on a batch, for each of the three signals, and its sender |
| `ControlPlane` | The dashboard's operators, Server Actions and pages |
| `Timing` | The poll and heartbeat loops and the online badge against a clock |
| `LoadGenerator` | The main loop of the sandbox's workload |
| `StatsReportProofs`, `PolicySyncProofs`, `EngineLifecycleProofs`, `ThrottleBucketsProofs`, `RuleEvaluationProofs`, `ControlPlaneProofs`, `TimingProofs`, `LoadGeneratorProofs` | The theorems about each component, proved with TLAPS |
| `MC*` | Instances for TLC |

Operators whose name begins with `Mutant` are deliberately wrong variants of the
definition that follows them; no specification uses them. Each property of each
run is known to fail when a variant replaces its original (`mutants` in
`PROJECT.json`), so no property holds vacuously.

### StatsReport

`counter` is the six atomics, indexed by signal and half (`received`, `dropped`),
so the module is parameterised by the signals (`SignalOrder`). An observe call is
two steps, `AddReceived` and `AddDropped`, because the two Adds are two atomics.
`reportStatsOnce` is one `Drain` step per Swap in source order, `SendStats`, and
then `PostSucceeds`, or one `FoldBack` step per Add. `wire` is what has become of
the POST; `orphans` are requests that still travel after their sender gave up
(`PostGivenUp`: timeout, cancellation, broken connection) and may yet be stored.
`rows` is the sum over the FleetMetric table, written by the stats route with
`AsCount` on every field. `ProcessExit` may happen anywhere. History variables
(`observed`, `clamped`, `recounted`, `lost`) say where each count went. A 2xx whose
body is lost is not distinguished from one that arrives: the code discards it.

### PolicySync and RuleCache

A body is a fleet and its stored rules; `Digest` stands for SHA-256 (collisions
excluded), used by the route as ETag and by the engine as change detector.
`syncOnce` is `Poll`, then one of `PollFails`, `KeepRules` (304 or another status),
`RejectBody` (over 4 MiB or not JSON) and `AcceptBody`, then `Publish`, with edits
possible between any two. A proxy may strip the ETag. `Cancel`, `ExitLoop`,
`StopReturns`, `AdoptConfig` are the part of the lifecycle the goroutine sees.
`RuleCache` knows nothing of requests: its cache is empty or a ruleset the control
plane stored for the fleet the engine points at, never older than before, and only a
process exit (counted in `exits`) empties it: no failed poll does. The
refinement maps `source` to `cfg` and the cache to the published rules with the
edit they were read at.

### EngineLifecycle

The host builds every processor (`Create`, which is getOrCreate with
adoptConfigIfIdle), starts them one by one, and stops them; a start may fail
(`StartFails`), upon which the collector shuts down *all* processors, started or
not, and exits. `refs` therefore goes negative, as in the code. `stop` is split
where it blocks: `StopCancels` decrements, cancels and keeps `lifecycleMu`
(`holder`), `StopReturns` is `Wait` returning; no other start or stop can run in
between. A goroutine is in a request (`busy`) or in its `select`; after a
cancellation the select may still take the tick. `instruments` is the service whose
meter provider the engine's self-metrics belong to: the factory registers them with
a new engine only (`Register`), so after a reload they belong to an earlier service.

### ThrottleBuckets

`allow` is `Lookup` under the read lock; a miss is followed by `FindCreated` or
`Insert` under the write lock (getOrCreate: the second look, promotion or a new
limiter, rotation, insertion, in one step since the lock is held throughout); then
`Take` with no lock held. compileRules makes new groups for every ruleset it
publishes (`Republish`); a goroutine keeps the group of the ruleset its batch began
with until its `NextBatch`. Limiters are numbered, `tokens` is their content, and
the history `owner` the group and key each was made for; `admitted` counts what each
group let through per key. The limiter of golang.org/x/time/rate is external: a bucket of whole tokens, `Elapse`
adds one to each.

### RuleEvaluation

One step per rule per record: `SkipRule`, `Drop`, `Sample`, `Throttle`, `Redact`,
`Route`; then `KeepRecord`, `EndScope`, `EndResource`, `EndBatch`, `Observe`,
`Forward`. The next consumer may refuse the batch (`ForwardFails`); its sender then
tries the same records again (`Retry`) or drops them (`GiveUp`), and either way the
attempt stays counted. `RemoveIf` is modelled as removal with the cursor standing still. The
variable `signal`, fixed by `Init`, selects what differs between the three processors: the virtual
fields (`log.severity`, `log.body`, `metric.name`), whether record attributes are
consulted, and which actions are enforced. A text is the set of the atoms it
contains, which tells apart what conditions and masks do (EQUALS, CONTAINS, a
regular expression that finds one of its atoms, GREATER_THAN on numerals, partial
and whole masks); the TraceID hash is a constant function; the answer of a
throttle bucket is arbitrary, as other goroutines use the same bucket. `ThrottleKey` is
the group a record pays for: an attribute of the record or its resource for spans and
logs, whatever its name; for metrics the name (`metric.name`) or an attribute of the
resource; one default bucket where the rule has no group-by or the record no such
value. `IsBatch` and
`IsRuleset` say what the receiver and the control plane hand over: Go's types, with
records told apart by their id. `Positions` are the places of a batch's records;
`Count`, the pdata count, is their number. `EnvelopesKept` compares pairs of positions,
before and after: two records left share a resource or a scope, and follow each other,
exactly as they did when they arrived (`SameOrder`).
`Publish` may replace the engine's ruleset between any two steps. Which rules apply
to a signal and how many of the 100 sampling buckets a rate keeps is in `Rules`, in
terms of the compiled rule (`HasRegex`, `HasLimiters`).

### ControlPlane

`rows` is the PolicyRule table of one fleet, `view` what each tab shows. `CreateRule`
is the form with all its checks (`Accepted`) and the row it becomes (`Row`);
`ReadToggle` and `WriteToggle` are the two statements of toggleRuleActive, with
anything in between; `ToggleThrows` is an update whose row is gone. An action that
does not throw ends with the rendering of its page (`Render`), one that throws
leaves it as it was; `Refresh` is AutoRefresh. A tab runs its actions one at a time,
as Next.js does. `IsStored` is what the checks let through; the rule a fleet starts
with (`Seed`) is one of those. `RuleEnforced`, `ShownEnforced` and `Percent` are the dashboard's
side of what `Rules` says for the data plane.

### Timing

`clock` counts units of five seconds. A loop calls when it starts (`FirstStep`) and
on every tick (`Begin`); the ticker holds one tick and drops the rest. The control
plane serves a call (`Serve`) and answers (`Answer`) within `Latency`, or the call
ends in `Fail`, at the request timeout at the latest. `Die` and `Start` are a crash
and a restart, `StoreOrphan` a report that arrives after its collector died. `Elapse`
waits for what takes no time (a tick taken by an idle loop, a timeout, a refresh).
`Refresh` sets `shown` by collectorOnline. Only here is time measured; the modules
above leave every order of events open.

### LoadGenerator

One goroutine: `pc` is where it is, `channel` the tick each ticker holds, `Elapse` a
tick of 100 ms that goes on while an export blocks. `TakeTick` is the whole branch up
to the first export: elapsed time with its cap, whole events per stream with the
remainder carried, the counts. An export is answered (`Acknowledge`), answered with
some records of some streams rejected (`Reject`), or ends in an error, its timeout or
the signal (`ExportFails`); `Return` goes on with the batch's next export.
`TakeReport` and `Finish` print the window and the totals. `acked` and `unacked` are
history: what became of the window's records, per stream.

## 3. Runs

| Run | Shows | Bounds |
|---|---|---|
| `stats` | TypeOK, Conservation, DropsBacked, CarriedOver | 2 consumers, 1 signal, 2 events in batches of up to 2, 2 failures, INT4_MAX = 1 so that clamping happens |
| `stats_exact` | *violation*: "Sums across reports are exact" | 1 event, 1 failure |
| `sync` | TypeOK, TagIsPublished, NotModifiedMeansCurrent, ImplementsRuleCache, EventuallyEnforced | 2 fleets, 3 rulesets (1 oversized), 2 edits per fleet, 2 failures |
| `sync_static` | *violation*: empty endpoint is a pass-through | 1 fleet |
| `lifecycle` | TypeOK, QuietAfterLastStop, OneLoopPerEndpoint, ConfigStableUnderLoops, ShutdownCompletes | 3 processors, 3 services, every choice of endpoints |
| `throttle` | TypeOK, RetentionBounded, OneLimiterPerKey, EvictedOnlyUnderChurn, RateClamped | 2 goroutines, 1 key per generation, 3 buckets and a key over the length limit, 6 calls, 1 refill, 2 rulesets |
| `eval` | TypeOK, DropsAreIndependentFilters, EnvelopesKept, MaskedWhereResolved, NobodyDodgesThrottle, CountsAddUp | each signal with every pair of 17 to 18 rules; 3 records in 2 layouts, with every choice of attributes; for metrics 2 publications and 1 refusal |
| `eval_split`, `eval_route` | *violations*, see below | as `eval` |
| `loadgen` | TypeOK, RateKept, EveryRecordAccounted, ReportsAddUp, ShutdownFinishes | a log stream of 3 events and a trace stream of 1 event per second of 2 ticks, metrics and reports every 3 ticks, timeout 3 ticks, 6 ticks |
| `control_plane` | TypeOK, BadgeMirrorsDataPlane, PercentIsKept, SeesOwnChanges, ClickDoesWhatItSays | 2 operators, 2 rules, 3 clicks; every action, signal and kind of condition, with parameters on either side of each check |
| `timing` | TypeOK, PollsOnTime, EnforcedInTime, DeadShownOffline, OfflineMeansMissed | units of 5 s up to 65 s: polls every 5 or 30 s, reports every 10 or 30 s, timeout 10 s, stale after 30 s, refresh every 10 s; 1 edit, 2 starts |

Why the bounds suffice. Two consumers and a reporter give every order of an Add and
a Swap on a counter. Counters do not interact except through the order of the drain,
and one signal has two counters to drain; the theorems of section 4 cover every
number of signals. Two failures allow a failure during the recovery from another.
Two edits per fleet allow a stale answer to meet a newer ruleset; two fleets allow a
reload between them while a poll is under way. Three processors have a first, a
middle and a last one. In the throttle, two goroutines race one key, and generations
of one key rotate several times in six calls, and two rulesets let batches of the old
and the new one spend at once. Rules interact in pairs: one writes, the other reads;
publications and refusals do not depend on the signal, so metrics, with the fewest
fields, stand for all three. In the load generator an export of three ticks exceeds
the second of two, so that the cap cuts time off, ticks are dropped, and a report and
a metric export wait behind it. Two operators and three clicks give every
interleaving of two toggles, and of a toggle and a deletion. In `timing` 65 s are two
stale periods, or six timeouts; a loop meets the other one only in the process both
live in, so a configuration has one endpoint.

Deadlock is not checked where the bounds end a run (events, batches, reloads, calls,
and the clicks of operators, who may stop); it is checked in `sync`, where the loop
never ends, and in `loadgen` and `timing`, whose ends are states of their own.

### Fairness

* `StatsReport`: the running goroutine keeps stepping and its ticker firing, a
  consumer finishes its two Adds, the control plane answers what reaches it. Network
  failures are bounded; `CarriedOver` also assumes that the engine stays started.
* `PolicySync`: the same for the sync goroutine and the policies route.
* `EngineLifecycle`: the host goes on shutting down, a request ends (its client has
  a timeout and obeys the context), and a `select` that finds `ctx.Done` ready again
  and again takes it some time, since Go chooses at random among ready cases: strong
  fairness.
* `LoadGenerator`: an export whose context has ended returns, and the same strong
  fairness for `ctx.Done`.
* `RuleEvaluation`, `ThrottleBuckets`, `ControlPlane` and `Timing` state no fairness:
  their properties are about what has happened. The deadlines of `Timing` hold because
  time does not pass while something that takes none is due.

### What the violations say

* `stats_exact`: a report that was stored but whose answer was lost is folded back
  and stored again. `Conservation` states the exact account: the surplus is
  `recounted`, nothing else.
* `sync_static`: after a reload that empties `sync_endpoint` the old ruleset stays.
* `eval_split`: SAMPLE conditions are evaluated span by span, so a trace is split
  when not all of its spans meet the condition.
* `eval_route`: with several records under a resource the destination is that of the
  last record that matched, not of the later rule.

### Limits of what holds

`DropsAreIndependentFilters` speaks of DROP rules on fields that no enforced rule
rewrites. A DROP rule placed after a REDACT rule on the same field reads the mask
instead of the value, although the comment of `evaluateSpan` promises that no scrub
shields a span from a later DROP rule. No property covers that hazard.

`NobodyDodgesThrottle` speaks of THROTTLE rules on such fields too, with any group-by.
If an enforced rule rewrites the field the rule groups by, the record still pays, but
from the bucket of what the field holds by then. `Group` says which bucket is due in
terms of what conditions find under the same name, as the comment of `throttleKey` does
("the same precedence conditions resolve with"), with one exception the code makes: for
log records a condition on `log.body` or `log.severity` reads the record, while
`throttleKey` looks for an attribute of that name, so that as a rule all logs share the
default bucket.

`CountsAddUp` counts attempts, as the code does: a batch refused and tried again is
received, and perhaps dropped, once per attempt.

`BadgeMirrorsDataPlane` states when a rule is enforced on its signal: if its card shows
it enforced and RE2 takes its pattern. The second half is not on the card: for a pattern
that JavaScript compiles and RE2 does not, the data plane skips the rule, and its card
shows no "not enforced" badge. `PercentIsKept` covers rates that round to nothing: a SAMPLE rule of 0.4 %
keeps no trace, and its card says 0 %.

`PollsOnTime` says "one interval or the timeout, whichever is longer". The comment at
`syncRequestTimeout` promises one interval, which holds only for a sync_interval of
10 s or more; the sandbox's 5 s are below it. `OfflineMeansMissed` counts how many
beats it takes: the comment at `HEARTBEAT_STALE_MS` says three, but two failed
reports at the default stats_interval of 10 s suffice, as the third is then due when
the threshold is reached; with an interval near the threshold none need fail. Nothing
relates the two constants.

`RateKept` takes rates that are natural numbers. The -noisy-rate flag also takes
negative ones, unlike the environment variable of that name. After a reload the
self-metrics stay with the meter provider of the first service, which the host has
shut down; what a scrape then shows is decided outside this code.

## 4. Proofs

Every theorem holds for every value of the constants that satisfies the named
assumptions below. Each module of proofs has an inductive invariant `IInv`, the
conjunction of named parts; a lemma for each action that disturbs it shows that it is
kept, and the theorems follow.

| Theorems | Properties | Module |
|---|---|---|
| `TypeCorrect` | `TypeOK` | each of the eight |
| `CountsConserved`, `DropsAreBacked` | `Conservation`, `DropsBacked` | `StatsReportProofs` |
| `PollsAboutPublished`, `NotModifiedIsCurrent`, `RefinesRuleCache` | `TagIsPublished`, `NotModifiedMeansCurrent`, `ImplementsRuleCache` | `PolicySyncProofs` |
| `NoLoopOutlivesTheLastStop`, `EndpointsPolledOnce`, `ConfigUnderLoopsIsStable` | `QuietAfterLastStop`, `OneLoopPerEndpoint`, `ConfigStableUnderLoops` | `EngineLifecycleProofs` |
| `KeysAreBounded`, `RacersShareALimiter`, `BusyKeysKeepTheirBucket`, `OverloadClamps` | `RetentionBounded`, `OneLimiterPerKey`, `EvictedOnlyUnderChurn`, `RateClamped` | `ThrottleBucketsProofs` |
| `DropsIndependent`, `EnvelopesAreKept`, `RedactedForGood`, `ThrottledByGroup`, `CountedOnce` | `DropsAreIndependentFilters`, `EnvelopesKept`, `MaskedWhereResolved`, `NobodyDodgesThrottle`, `CountsAddUp` | `RuleEvaluationProofs` |
| `CardsMirrorTheDataPlane`, `CardsShowTheRateKept`, `ChangesAreSeen`, `ClicksAreHonest` | `BadgeMirrorsDataPlane`, `PercentIsKept`, `SeesOwnChanges`, `ClickDoesWhatItSays` | `ControlPlaneProofs` |
| `PollsKeepTime`, `EditsAreEnforced`, `DeathIsShown`, `OfflineIsEarned` | `PollsOnTime`, `EnforcedInTime`, `DeadShownOffline`, `OfflineMeansMissed` | `TimingProofs` |
| `RatesAreKept`, `RecordsAreAccounted`, `ReportsAgree` | `RateKept`, `EveryRecordAccounted`, `ReportsAddUp` | `LoadGeneratorProofs` |

### Assumptions

* All: bounds are natural numbers, and `Nil` and `None` are none of the values they
  stand beside.
* `StatsReport`: the signals in `SignalOrder` are distinct. `PolicySync`: oversized
  policies are policies.
* `EngineLifecycle`: a finite, non-empty set of processors. `ThrottleBuckets`:
  finitely many keys, cutting a key twice cuts it once, a positive rate (newLimiterGroup
  requires it) and generation size.
* `RuleEvaluation`: batches and rulesets have Go's types, the records of a batch are
  told apart, a bucket is below 100 (traceIDBucket), neither mask is a numeral.
* `ControlPlane`: the names in a form passed isEnumValue, the identifier of a form is
  not blank, and the rule a fleet starts with is one createRule stores.
* `Timing`: positive intervals, and the latency is below the request timeout.
* `LoadGenerator`: finitely many streams, rates that are natural numbers, positive
  periods.

### Arguments

* `CountsConserved`. Conservation alone is not inductive: what the goroutine still
  owes depends on how far the drain or the fold-back has come. `PayloadInv` says
  which entries of `payload` are zero at each position of the drain order, when `wire`
  can be `stored`, and that a goroutine that neither drains nor posts owes nothing.
  `TypeOK`, `PayloadInv` and `Conservation` together are inductive. Each action that
  moves counts is one lemma, and each of those balances the two sides of the equation
  for one counter.
* `DropsAreBacked`. Consumers add to the received counter first, so the drops added so
  far and those still to be added by calls between their two Adds never exceed the
  receipts added (`Backed`). The drops to come are a set, `Ahead`, counted by its
  cardinality; `Conservation` turns what was added into what is stored.
* `PollsAboutPublished`, `NotModifiedIsCurrent`. The invariant ties `rulesHash` to
  `rules`, `lastETag` to the published or (while compiling) the pending body, and the
  request under way to `lastETag`; the tag comparison of the route then yields the
  body by injectivity of `Digest`.
* `RefinesRuleCache`. The history is bounded: `published` and `newest` never exceed
  `head`, and whatever an answer or the pending body was read at is at least `newest`
  of its fleet, because the goroutine is the only writer. Every action maps to one
  abstract action or a stutter.
* `EngineLifecycleProofs` counts: `refs` is the number of processors started less
  those stopped and the one that waits (`RefsInv`), so it is zero whenever a service is
  built; and every goroutine belongs to the context the engine holds, which only the
  last stop cancels (`ContextInv`). A configuration is then adopted only when there is
  no goroutine to see it.
* `BusyKeysKeepTheirBucket`. A key that only the previous generation holds has been
  idle while every key of the current one was used (`IdleInv`); when rotation drops
  it, that is a full generation and the key that caused the rotation.
  `RacersShareALimiter` needs that every limiter in a map or in a goroutine's hands was
  issued (`MapInv`), so that a new one is nobody's.
* `OverloadClamps`. A limiter is only ever used for the group and key it was made for
  (`OwnerInv`), so what a key of a group was let through came out of its own limiters.
  `ClampInv` adds what is left in those: admitted plus left never exceeds
  `Burst + elapsed` per limiter. What is left is a set, the pairs of a limiter and one
  of its tokens, counted by its cardinality. Taking a token moves one from
  left to admitted, a period adds at most one per limiter, a new limiter adds a burst;
  and `OneLimiterPerKey` says how many limiters there are. The bound holds in each
  ruleset's group, which implies the one for all the rulesets together.
* `RuleEvaluationProofs` follows each record through a walk whose cursor, batch and
  shared resources all move. A record agrees with its original on every field that no
  rule rewrites (`Same`); each rule the walk has passed on it is obeyed (`PassedInv`),
  and stays obeyed when a later rule rewrites the record, or the resource that it shares
  with others (`RewriteSurvives`). A removal leaves the other records as they were: the
  positions left are injected into those before, which also bounds the counts.
  `LostInv` says that whatever is missing could be removed by a rule that matches it.
* `EnvelopesAreKept`. A removal, at whichever level, moves what is behind it up by one at
  that level and leaves the two other levels alone, so order and togetherness are those
  of the positions before (`OrderInv`); rewriting fields moves nothing. The walk leaves
  nothing hollow behind its cursor (`SolidInv`): a record's removal can only empty the
  scope it is in, a scope's only its resource, and both are looked at again
  when the cursor reaches their end.
* `ChangesAreSeen` and `ClicksAreHonest` ask who wrote a row last: a row whose last
  writer has been shown the page since, or that nobody has written, is on that page as
  it is stored (`OwnInv`, `SeedInv`), and a toggle has read what its button said unless
  somebody else has written the row (`ClickInv`). The badge and the percentage are
  cases over the rows that can be stored.
* `TimingProofs` follows one loop from call to call. `Begins` is when the call under
  way began or the next one begins; whatever becomes of a call, the next begins at most
  one `Gap` later. `SyncInv` and `StatsInv` bound `Begins` by the failures counted
  since the edit and since the last row; a failure moves the bound by one `Gap`.
* `LoadGeneratorProofs` keeps one account per stream: the carry is the remainder of the
  rate times the time handled (`RateKept`, with `CreditSplits`), and what the window
  counts beyond what is answered for is the batch under way (`AccountInv`).

### Only model-checked

* The liveness properties `CarriedOver`, `EventuallyEnforced`, `ShutdownCompletes`
  and `ShutdownFinishes`: fairness is out of the prover's reach.

Every other property of a passing run is stated by a theorem.

## 5. Not modelled

The parsing of URLs in `Validate`, the comparison of the key in authenticateFleet, the
shape of identifiers and the trimming in createRule, the totals, prices and layout of
the pages, the additions to the self-metrics, the texts the load generator invents
(`pii.go`), schema, seed and deployment files: pure checks, sums, rendering or library
calls. Exporters and the routing connector belong to the collector. Time is measured
in `Timing` and `LoadGenerator` only; elsewhere intervals and timeouts appear as steps
that may happen. A 200 whose body is some other JSON is not modelled: no answer of the
policies route has that form.

## 6. Plan

Done: the modules and theorems above. Next, in this order:

1. A composition of lifecycle, sync and accounting on one engine: counters and rules
   across a reload, the final state after shutdown.
2. Several collectors of one fleet: rows from all of them, the eventual agreement on
   a ruleset.
