------------------------------- MODULE Timing -------------------------------
(***************************************************************************)
(* The two loops of the collector and the open dashboard against a clock.  *)
(* A loop calls the control plane at once when it starts and then on every *)
(* tick; a call takes until it is answered, fails or reaches the request   *)
(* timeout, and the ticker keeps one tick meanwhile.  The dashboard judges *)
(* the collector by the age of its last report whenever it is refreshed.   *)
(* The control plane answers within Latency, if it answers.                *)
(***************************************************************************)
EXTENDS Integers, FiniteSetsExt

CONSTANTS
  Config,         \* pairs of sync_interval and stats_interval, None without endpoint
  MinInterval,    \* minSyncInterval
  RequestTimeout, \* syncRequestTimeout
  Latency,        \* of an answered call
  Stale,          \* HEARTBEAT_STALE_MS
  RefreshEvery,   \* AutoRefresh intervalMs
  None,           \* no time, no endpoint
  MaxTime, MaxEdits, MaxStarts \* bounds

ASSUME TimingAssumption ==
  /\ {MinInterval, RequestTimeout, Stale, RefreshEvery} \subseteq Nat \ {0}
  /\ Latency \in 0..(RequestTimeout - 1)
  /\ Config \subseteq [sync : Nat \cup {None}, stats : Nat \cup {None}]
  /\ {MaxTime, MaxEdits, MaxStarts} \subseteq Nat /\ None \notin Nat

VARIABLES
  clock,
  up,         \* the collector runs
  interval,   \* of each loop, or None: its endpoint is empty, or nothing runs
  loop,       \* where each loop is: off, in select, or in a call
  due,        \* when each ticker fires next
  tick,       \* a tick waits in the ticker's channel
  edits,      \* version of the stored rules
  enforced,   \* version of the published rules
  lastRow,    \* createdAt of the last FleetMetric row
  orphan,     \* a report a dead collector sent arrives until then, if ever
  shown,      \* the page says "Collector online"
  refresh,    \* the page is due to be refreshed
  starts,     \* starts so far
  since,      \* history: when the collector started, or died
  polledAt, editedAt, \* history: the last poll begun, the last edit
  failed      \* history: calls failed since one was answered, polls since the last edit

collector == <<up, interval, starts, since>>
loops     == <<loop, due, tick>>
rulesets  == <<edits, enforced, editedAt>>
calls     == <<polledAt, failed>>
beats     == <<lastRow, orphan>>
page      == <<shown, refresh>>
vars      == <<clock, collector, loops, rulesets, calls, beats, page>>

Loop   == {"sync", "stats"}
Every(v) == [l \in Loop |-> v]
Off    == [step |-> "off"]
Select == [step |-> "select"]
Longer(a, b) == Max({a, b})

\* Validate: the intervals of the endpoints that are set.
Valid(config) == \A l \in Loop : config[l] # None => config[l] >= MinInterval

\* Mutant: two beats are enough.
MutantTwoBeats(age) == age < 2 * RefreshEvery

\* Mutant: a collector that ever reported is online.
MutantNeverStale(age) == TRUE

\* collectorOnline.
Fresh(age) == age < Stale
Online == lastRow # None /\ Fresh(clock - lastRow)

\* A call under way: when it began, and the version it was served with.
Call == [step |-> "call", begun |-> clock, served |-> None]

Init ==
  /\ clock = 0 /\ up = FALSE /\ interval = Every(None) /\ starts = 0 /\ since = 0
  /\ loop = Every(Off) /\ due = Every(0) /\ tick = Every(FALSE)
  /\ edits = 0 /\ enforced = 0 /\ editedAt = 0 /\ polledAt = 0 /\ failed = Every(0)
  /\ lastRow = None /\ orphan = None
  /\ shown = FALSE /\ refresh = FALSE

\* Mutant: the loops wait for the first tick.
MutantFirstTick == Select

\* runSyncLoop and runStatsLoop call before they select.
FirstStep == Call

\* The collector starts with a configuration that Validate accepts.
Start(config) ==
  /\ ~up /\ starts < MaxStarts /\ Valid(config)
  /\ up' = TRUE /\ starts' = starts + 1 /\ since' = clock
  /\ interval' = config
  /\ due'  = [l \in Loop |-> IF config[l] = None THEN 0 ELSE clock + config[l]]
  /\ loop' = [l \in Loop |-> IF config[l] = None THEN Off ELSE FirstStep]
  /\ polledAt' = clock
  /\ UNCHANGED <<clock, tick, rulesets, failed, beats, page>>

\* The process dies.  A report on its way may still arrive.
Die ==
  /\ up
  /\ up' = FALSE /\ interval' = Every(None) /\ since' = clock
  /\ loop' = Every(Off) /\ due' = Every(0) /\ tick' = Every(FALSE)
  /\ enforced' = 0 /\ polledAt' = 0 /\ failed' = Every(0)
  /\ orphan' = IF loop.stats.step = "call" /\ loop.stats.served = None
               THEN loop.stats.begun + Latency ELSE None
  /\ UNCHANGED <<clock, starts, edits, editedAt, lastRow, page>>

\* Mutant: a request without a timeout of its own.
MutantNoDeadline(l) == FALSE

\* context.WithTimeout of syncOnce and postStats.
TimedOut(l) == loop[l].step = "call" /\ clock >= loop[l].begun + RequestTimeout

\* Something that takes no time is due: a call has run out, a loop has a tick
\* to take, the page is to be refreshed.
Urgent ==
  \/ \E l \in Loop : TimedOut(l) \/ (loop[l] = Select /\ tick[l])
  \/ refresh

\* Time passes; tickers fire, and drop the tick if one still waits.
Elapse ==
  /\ clock < MaxTime /\ ~Urgent
  /\ clock' = clock + 1
  /\ tick' = [l \in Loop |-> tick[l] \/ (loop[l] # Off /\ due[l] = clock')]
  /\ due'  = [l \in Loop |-> IF loop[l] # Off /\ due[l] = clock' THEN due[l] + interval[l] ELSE due[l]]
  /\ refresh' = (clock' % RefreshEvery = 0)
  /\ UNCHANGED <<collector, loop, rulesets, calls, beats, shown>>

\* case <-ticker.C.
Begin(l) ==
  /\ loop[l] = Select /\ tick[l]
  /\ tick' = [tick EXCEPT ![l] = FALSE]
  /\ loop' = [loop EXCEPT ![l] = Call]
  /\ polledAt' = IF l = "sync" THEN clock ELSE polledAt
  /\ UNCHANGED <<clock, collector, due, rulesets, failed, beats, page>>

Answerable(l) == loop[l].step = "call" /\ clock <= loop[l].begun + Latency

\* The control plane handles the request: reads the rules, or inserts a row.
Serve(l) ==
  /\ Answerable(l) /\ loop[l].served = None
  /\ loop' = [loop EXCEPT ![l].served = IF l = "sync" THEN edits ELSE 0]
  /\ lastRow' = IF l = "stats" THEN clock ELSE lastRow
  /\ UNCHANGED <<clock, collector, due, tick, rulesets, calls, orphan, page>>

\* The answer arrives: the ruleset is published, or the report is done.
Answer(l) ==
  /\ Answerable(l) /\ loop[l].served # None
  /\ loop' = [loop EXCEPT ![l] = Select]
  /\ enforced' = IF l = "sync" THEN loop[l].served ELSE enforced
  /\ failed' = [failed EXCEPT ![l] = 0]
  /\ UNCHANGED <<clock, collector, due, tick, edits, editedAt, polledAt, beats, page>>

\* The call ends without an answer: refused, broken off, timed out.
Fail(l) ==
  /\ loop[l].step = "call" /\ (clock < loop[l].begun + RequestTimeout \/ TimedOut(l))
  /\ loop' = [loop EXCEPT ![l] = Select]
  /\ failed' = [failed EXCEPT ![l] = @ + 1]
  /\ UNCHANGED <<clock, collector, due, tick, rulesets, polledAt, beats, page>>

StoreOrphan ==
  /\ orphan # None /\ clock <= orphan
  /\ lastRow' = clock /\ orphan' = None
  /\ UNCHANGED <<clock, collector, loops, rulesets, calls, page>>

\* An operator edits the rules.
Edit ==
  /\ edits < MaxEdits
  /\ edits' = edits + 1 /\ editedAt' = clock /\ failed' = [failed EXCEPT !.sync = 0]
  /\ UNCHANGED <<clock, collector, loops, enforced, polledAt, beats, page>>

\* The refreshed page.
Refresh ==
  /\ refresh /\ refresh' = FALSE
  /\ shown' = Online
  /\ UNCHANGED <<clock, collector, loops, rulesets, calls, beats>>

Done == clock = MaxTime /\ ~Urgent /\ UNCHANGED vars

Next ==
  \/ \E config \in Config : Start(config)
  \/ Die \/ Elapse \/ StoreOrphan \/ Edit \/ Refresh \/ Done
  \/ \E l \in Loop : Begin(l) \/ Serve(l) \/ Answer(l) \/ Fail(l)

Spec == Init /\ [][Next]_vars

-----------------------------------------------------------------------------
(* Properties. *)

Time == 0..MaxTime

\* Type correctness: no loop has more than one call under way, and none
\* outlives its timeout.
TypeOK ==
  /\ clock \in Time /\ up \in BOOLEAN /\ starts \in 0..MaxStarts
  /\ interval \in IF up THEN {config \in Config : Valid(config)} ELSE {Every(None)}
  /\ \A l \in Loop :
       IF interval[l] = None THEN loop[l] = Off ELSE loop[l] = Select \/
         /\ loop[l] \in [step : {"call"}, begun : Time, served : 0..edits \cup {None}]
         /\ clock <= loop[l].begun + RequestTimeout
  /\ due \in [Loop -> Nat] /\ tick \in [Loop -> BOOLEAN]
  /\ edits \in 0..MaxEdits /\ enforced \in 0..edits
  /\ lastRow \in Time \cup {None} /\ orphan \in Nat \cup {None}
  /\ shown \in BOOLEAN /\ refresh \in BOOLEAN
  /\ {since, editedAt, polledAt} \subseteq Time /\ failed \in [Loop -> Nat]

\* The longest time between two calls of a loop.
Gap(l) == Longer(interval[l], RequestTimeout)

\* The failures counted, with that of a call too late to be answered.
Failures(l) == failed[l] + (IF loop[l].step = "call" /\ ~Answerable(l) THEN 1 ELSE 0)

\* "bounds a single poll so a hung control plane can never wedge the sync
\* goroutine past one interval": the next poll is never further away than one
\* interval, or than the timeout where that is the longer of the two - however
\* the calls before it ended and whichever ticks were dropped.
PollsOnTime == loop.sync # Off => clock - polledAt <= Gap("sync")

\* "propagate to running collectors within one sync interval", "so a fresh
\* collector enforces policy within seconds, not one full interval": an edit is
\* enforced an interval and two answers later, one Gap later for every poll
\* that failed meanwhile; after a restart no interval is waited for.
EnforcedInTime ==
  loop.sync # Off /\ enforced # edits =>
    LET wait == IF editedAt < since THEN Latency
                ELSE Longer(interval.sync, Latency) + Latency
    IN  clock <= Longer(editedAt, since) + Failures("sync") * Gap("sync") + wait

\* "three missed beats means offline": a page refreshed while the collector is
\* up, and not just started, says "offline" only if so many reports failed that
\* the next one is due beyond HEARTBEAT_STALE_MS.  With stats_interval at its
\* default that takes two; with one near the constant it takes none.
OfflineMeansMissed ==
  [][refresh /\ ~refresh' /\ loop.stats # Off /\ ~shown' =>
       \/ (Failures("stats") + 1) * Gap("stats") + Latency >= Stale
       \/ clock - since <= Failures("stats") * Gap("stats") + Latency]_vars

\* An open page stops saying "Collector online" a refresh after the last report
\* has gone stale, one that arrived after the collector's death included.
DeadShownOffline ==
  ~up /\ ~refresh /\ clock >= since + Latency + Stale + RefreshEvery => ~shown
=============================================================================
