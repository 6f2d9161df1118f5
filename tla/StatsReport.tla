----------------------------- MODULE StatsReport -----------------------------
(***************************************************************************)
(* The telemetry accounting of one rule engine: consume goroutines add to  *)
(* the six interval counters (observeTraces / Logs / Metrics), the stats   *)
(* goroutine drains them one Swap at a time, POSTs the result and folds it *)
(* back when the POST fails (reportStatsOnce, postStats), and the control  *)
(* plane inserts one FleetMetric row per report it accepts.  The network   *)
(* may lose the request, lose the answer, or deliver the request after the *)
(* collector has given up on it.                                           *)
(***************************************************************************)
EXTENDS Integers, Sequences

CONSTANTS
  Thread,       \* consume goroutines
  SignalOrder,  \* the order the signals are drained in: traces, logs, metrics
  MaxBatch,     \* bound: records in one batch
  MaxObserved,  \* bound: records received per signal
  MaxFailures,  \* bound: reports that go wrong
  Int4Max       \* INT4_MAX of the stats route

ASSUME SignalOrderAssumption ==
  /\ SignalOrder \in Seq(STRING)
  /\ \A i, j \in 1..Len(SignalOrder) : SignalOrder[i] = SignalOrder[j] => i = j

ASSUME BoundsAssumption ==
  /\ MaxBatch \in Nat
  /\ MaxObserved \in Nat
  /\ MaxFailures \in Nat
  /\ Int4Max \in Nat

Signal  == {SignalOrder[i] : i \in 1..Len(SignalOrder)}
Half    == {"received", "dropped"}
Counter == Signal \X Half

\* The Swaps of reportStatsOnce, and the Adds that undo them, in source order.
Drains     == 1..(2 * Len(SignalOrder))
DrainOrder ==
  [i \in Drains |-> << SignalOrder[(i + 1) \div 2],
                       IF i % 2 = 1 THEN "received" ELSE "dropped" >>]

Zero == [c \in Counter |-> 0]
Plus(f, g) == [c \in Counter |-> f[c] + g[c]]

\* Mutant: a conversion to int32 that wraps instead of clamping.
MutantAsCountWraps(n) == IF n > Int4Max THEN n - 2 * (Int4Max + 1) ELSE n

\* asCount: what one field of a report is stored as, and what that leaves out.
AsCount(n)    == IF n > Int4Max THEN Int4Max ELSE n
Stored(stats) == [c \in Counter |-> AsCount(stats[c])]
Excess(stats) == [c \in Counter |-> stats[c] - AsCount(stats[c])]

VARIABLES
  counter,    \* the interval atomics of the engine
  consumer,   \* what each consume goroutine still has to add
  reporter,   \* where the stats goroutine is
  next,       \* the next Swap (or Add) of reportStatsOnce
  payload,    \* the drained counts the goroutine answers for
  wire,       \* the fate of the POST it waits for
  cancelled,  \* its context was cancelled by the last stop
  orphans,    \* requests still travelling after the client gave up on them
  failures,   \* reports that went wrong so far
  rows,       \* the sums over the FleetMetric rows
  observed,   \* history: everything the consumers ever added
  clamped,    \* history: what asCount cut off stored reports
  recounted,  \* history: stored by a report its sender had written off
  lost        \* history: what process exits took with them

engine  == <<counter, consumer, reporter, next, payload, cancelled>>
history == <<observed, clamped, recounted, lost>>
vars    == <<engine, wire, orphans, failures, rows, history>>

NoBatch == [signal |-> "none", dropped |-> 0]
Batch   == [signal : Signal, dropped : 0..MaxBatch]
Reporter == {"off", "idle", "drain", "post", "fold"}
Wire     == {"none", "sent", "stored", "refused", "gone"}

\* The counts the stats goroutine holds that no row accounts for.
Owed == IF wire = "stored" THEN Zero ELSE payload

Init ==
  /\ counter = Zero /\ payload = Zero /\ rows = Zero
  /\ observed = Zero /\ clamped = Zero /\ recounted = Zero /\ lost = Zero
  /\ consumer = [t \in Thread |-> NoBatch]
  /\ reporter = "off" /\ next = 1 /\ wire = "none" /\ cancelled = FALSE
  /\ orphans = {} /\ failures = 0

-----------------------------------------------------------------------------
(* The consume hot paths. *)

\* First Add of observeTraces / observeLogs / observeMetrics.
AddReceived(t, s, received, dropped) ==
  LET c == <<s, "received">> IN
  /\ consumer[t] = NoBatch
  /\ observed[c] + received <= MaxObserved
  /\ dropped <= received
  /\ counter'  = [counter  EXCEPT ![c] = @ + received]
  /\ observed' = [observed EXCEPT ![c] = @ + received]
  /\ consumer' = [consumer EXCEPT ![t] = [signal |-> s, dropped |-> dropped]]
  /\ UNCHANGED <<reporter, next, payload, cancelled, wire, orphans, failures,
                 rows, clamped, recounted, lost>>

\* Second Add: a separate atomic, a separate step.
AddDropped(t) ==
  LET c == <<consumer[t].signal, "dropped">> IN
  /\ consumer[t] # NoBatch
  /\ counter'  = [counter  EXCEPT ![c] = @ + consumer[t].dropped]
  /\ observed' = [observed EXCEPT ![c] = @ + consumer[t].dropped]
  /\ consumer' = [consumer EXCEPT ![t] = NoBatch]
  /\ UNCHANGED <<reporter, next, payload, cancelled, wire, orphans, failures,
                 rows, clamped, recounted, lost>>

-----------------------------------------------------------------------------
(* The stats goroutine: runStatsLoop, reportStatsOnce, postStats. *)

\* The first start spawns the loop, which reports at once.
StartLoop ==
  /\ reporter = "off"
  /\ reporter' = "drain" /\ next' = 1 /\ cancelled' = FALSE
  /\ UNCHANGED <<counter, consumer, payload, wire, orphans, failures, rows, history>>

\* The last stop cancels the loop's context ...
CancelLoop ==
  /\ reporter # "off" /\ ~cancelled
  /\ cancelled' = TRUE
  /\ UNCHANGED <<counter, consumer, reporter, next, payload, wire, orphans,
                 failures, rows, history>>

\* ... and the loop leaves when its select sees that.
ExitLoop ==
  /\ reporter = "idle" /\ cancelled
  /\ reporter' = "off"
  /\ UNCHANGED <<counter, consumer, next, payload, cancelled, wire, orphans,
                 failures, rows, history>>

\* A tick; the select may still take it after the cancellation.
Tick ==
  /\ reporter = "idle"
  /\ reporter' = "drain" /\ next' = 1
  /\ UNCHANGED <<counter, consumer, payload, cancelled, wire, orphans, failures,
                 rows, history>>

\* One Swap(0).
Drain ==
  LET c == DrainOrder[next] IN
  /\ reporter = "drain" /\ next \in Drains
  /\ payload' = [payload EXCEPT ![c] = counter[c]]
  /\ counter' = [counter EXCEPT ![c] = 0]
  /\ next' = next + 1
  /\ UNCHANGED <<consumer, reporter, cancelled, wire, orphans, failures, rows, history>>

\* The POST leaves, unless the context is already cancelled.
SendStats ==
  /\ reporter = "drain" /\ next \notin Drains
  /\ reporter' = "post"
  /\ wire' = IF cancelled THEN "gone" ELSE "sent"
  /\ UNCHANGED <<counter, consumer, next, payload, cancelled, orphans, failures,
                 rows, history>>

\* A 2xx arrives: the drained counts are the control plane's now.
PostSucceeds ==
  /\ reporter = "post" /\ wire = "stored"
  /\ reporter' = "idle" /\ wire' = "none" /\ payload' = Zero
  /\ UNCHANGED <<counter, consumer, next, cancelled, orphans, failures, rows, history>>

\* Mutant: a refused report is dropped on the floor.
MutantForgetRefused ==
  /\ reporter = "post" /\ wire \in {"refused", "gone"}
  /\ reporter' = "idle" /\ next' = 1 /\ wire' = "none"
  /\ UNCHANGED <<counter, consumer, payload, cancelled, orphans, failures, rows, history>>

\* A non-2xx arrives, or the connection is known to be broken.
PostRefused ==
  /\ reporter = "post" /\ wire \in {"refused", "gone"}
  /\ reporter' = "fold" /\ next' = 1 /\ wire' = "none"
  /\ UNCHANGED <<counter, consumer, payload, cancelled, orphans, failures, rows, history>>

\* Timeout, cancellation or a broken connection while the request is still
\* travelling, or after the row was inserted: the client cannot tell which.
PostGivenUp ==
  /\ reporter = "post" /\ wire \in {"sent", "stored"}
  /\ failures < MaxFailures
  /\ failures' = failures + 1
  /\ reporter' = "fold" /\ next' = 1 /\ wire' = "none"
  /\ orphans' = IF wire = "sent"
                THEN orphans \cup {[n |-> failures, stats |-> payload]}
                ELSE orphans
  /\ recounted' = IF wire = "stored" THEN Plus(recounted, payload) ELSE recounted
  /\ UNCHANGED <<counter, consumer, payload, cancelled, rows, observed, clamped, lost>>

\* Mutant: Store instead of Add.
MutantFoldOverwrites(c) == [counter EXCEPT ![c] = payload[c]]

\* Mutant: the received count is added to the dropped counter.
MutantFoldOnDropped(c) == [counter EXCEPT ![<<c[1], "dropped">>] = @ + payload[c]]

\* Add of a drained value back onto its counter.
Folded(c) == [counter EXCEPT ![c] = @ + payload[c]]

\* One such Add.
FoldBack ==
  LET c == DrainOrder[next] IN
  /\ reporter = "fold" /\ next \in Drains
  /\ counter' = Folded(c)
  /\ payload' = [payload EXCEPT ![c] = 0]
  /\ next' = next + 1
  /\ UNCHANGED <<consumer, reporter, cancelled, wire, orphans, failures, rows, history>>

FoldedBack ==
  /\ reporter = "fold" /\ next \notin Drains
  /\ reporter' = "idle"
  /\ UNCHANGED <<counter, consumer, next, payload, cancelled, wire, orphans,
                 failures, rows, history>>

\* The collector process dies.  Nothing is persisted.
ProcessExit ==
  /\ failures < MaxFailures
  /\ failures' = failures + 1
  /\ lost' = Plus(lost, Plus(counter, Owed))
  /\ orphans' = IF wire = "sent"
                THEN orphans \cup {[n |-> failures, stats |-> payload]}
                ELSE orphans
  /\ counter' = Zero /\ payload' = Zero
  /\ consumer' = [t \in Thread |-> NoBatch]
  /\ reporter' = "off" /\ next' = 1 /\ cancelled' = FALSE /\ wire' = "none"
  /\ UNCHANGED <<rows, observed, clamped, recounted>>

-----------------------------------------------------------------------------
(* The network and the stats route of the control plane. *)

LoseRequest ==
  /\ wire = "sent" /\ failures < MaxFailures
  /\ wire' = "gone" /\ failures' = failures + 1
  /\ UNCHANGED <<engine, orphans, rows, history>>

\* POST handler: any 4xx / 5xx, no row written.
RefuseReport ==
  /\ wire = "sent" /\ failures < MaxFailures
  /\ wire' = "refused" /\ failures' = failures + 1
  /\ UNCHANGED <<engine, orphans, rows, history>>

\* POST handler: fleetMetric.create, then 204.
StoreReport ==
  /\ wire = "sent"
  /\ wire' = "stored"
  /\ rows' = Plus(rows, Stored(payload))
  /\ clamped' = Plus(clamped, Excess(payload))
  /\ UNCHANGED <<engine, orphans, failures, observed, recounted, lost>>

\* The same handler, reached by a request nobody waits for any more.
StoreLate(o) ==
  /\ orphans' = orphans \ {o}
  /\ rows' = Plus(rows, Stored(o.stats))
  /\ clamped' = Plus(clamped, Excess(o.stats))
  /\ recounted' = Plus(recounted, o.stats)
  /\ UNCHANGED <<engine, wire, failures, observed, lost>>

\* Such a request is lost or refused after all.
DropLate(o) ==
  /\ orphans' = orphans \ {o}
  /\ UNCHANGED <<engine, wire, failures, rows, history>>

-----------------------------------------------------------------------------
Consume ==
  \E t \in Thread :
    \/ \E s \in Signal, r \in 1..MaxBatch, d \in 0..MaxBatch : AddReceived(t, s, r, d)
    \/ AddDropped(t)

Report ==
  \/ Tick \/ Drain \/ SendStats
  \/ PostSucceeds \/ PostRefused
  \/ FoldBack \/ FoldedBack

Network ==
  \/ LoseRequest \/ RefuseReport \/ StoreReport
  \/ \E o \in orphans : StoreLate(o) \/ DropLate(o)

Lifecycle == StartLoop \/ CancelLoop \/ ExitLoop \/ ProcessExit

Next == Consume \/ Report \/ PostGivenUp \/ Network \/ Lifecycle

Spec == Init /\ [][Next]_vars

\* A running goroutine keeps stepping, its ticker keeps firing, a consumer
\* finishes the batch it began, and the control plane answers.
Fairness ==
  /\ WF_vars(Report)
  /\ WF_vars(StoreReport)
  /\ \A t \in Thread : WF_vars(AddDropped(t))

FairSpec == Spec /\ Fairness

-----------------------------------------------------------------------------
(* Properties. *)

\* Type correctness of the counters, the goroutines and the network.
TypeOK ==
  /\ counter \in [Counter -> Nat] /\ payload \in [Counter -> Nat]
  /\ rows \in [Counter -> Nat]    /\ observed \in [Counter -> Nat]
  /\ clamped \in [Counter -> Nat] /\ recounted \in [Counter -> Nat]
  /\ lost \in [Counter -> Nat]
  /\ consumer \in [Thread -> Batch \cup {NoBatch}]
  /\ reporter \in Reporter /\ wire \in Wire /\ cancelled \in BOOLEAN
  /\ next \in 1..(2 * Len(SignalOrder) + 1)
  /\ failures \in 0..MaxFailures
  /\ orphans \subseteq [n : 0..MaxFailures, stats : [Counter -> Nat]]

\* Conservation: no interleaving of Adds, Swaps and fold-backs, no failed,
\* late or unanswered POST makes a count vanish or appear.  What the consumers
\* added is in a row, in a counter, owed by the goroutine, cut off by asCount or
\* gone with a dead process; the only surplus is a report that was stored and
\* whose sender nevertheless folded it back.
Conservation ==
  \A c \in Counter :
    observed[c] + recounted[c] =
      rows[c] + clamped[c] + lost[c] + counter[c] + Owed[c]

\* The dashboard's drop ratio: although the Swaps are not one snapshot, drops
\* that reached the rows are always backed by receipts that reached them or are
\* still to be reported, as long as every report was answered and no process died.
DropsBacked ==
  \A s \in Signal :
    LET in == <<s, "received">>  out == <<s, "dropped">> IN
    recounted[in] = 0 /\ recounted[out] = 0 /\ lost[in] = 0 /\ clamped[out] = 0 =>
      rows[out] + Owed[out] + counter[out]
        <= rows[in] + clamped[in] + Owed[in] + counter[in]

\* "Sums across reports are exact" (comment of reportStatsOnce): between two
\* reports, with no process exit, the rows and the counters add up to exactly
\* what was consumed.
SumsAcrossReportsExact ==
  reporter = "idle" =>
    \A c \in Counter :
      rows[c] + clamped[c] + lost[c] + counter[c] = observed[c]

\* A failed report is carried over and not forgotten: if the engine stays
\* started and failures are finite, in the end every count has reached a row
\* (or was clamped or died with an earlier process).
CarriedOver ==
  <>[](reporter # "off" /\ ~cancelled) =>
    <>[](\A c \in Counter :
           rows[c] + clamped[c] + lost[c] = observed[c] + recounted[c])
=============================================================================
