---------------------------- MODULE LoadGenerator ----------------------------
(***************************************************************************)
(* The sandbox's workload (loadgen): one goroutine that selects among      *)
(* three tickers and the shutdown signal.  A tick turns the elapsed time   *)
(* into whole events per stream, counts them, and exports them - logs,     *)
(* then traces - in calls that block until they are answered, fail or time *)
(* out.  Meanwhile the tickers go on; each holds one tick and drops the    *)
(* rest.  Time is counted in ticks of tickInterval.                        *)
(***************************************************************************)
EXTENDS Integers, FiniteSetsExt

CONSTANTS
  LogStream, TraceStream, \* the noisy tenant and payments; checkouts
  Rate,          \* events per second of each stream
  Second,        \* ticks per second
  MetricsEvery, ReportEvery, ExportTimeout, \* in ticks
  None,          \* an empty channel
  MaxTime        \* bound: ticks

Stream == LogStream \cup TraceStream

ASSUME StreamAssumption ==
  /\ IsFiniteSet(Stream) /\ LogStream \cap TraceStream = {}
  /\ Rate \in [Stream -> Nat]
ASSUME TimeAssumption ==
  /\ {Second, MetricsEvery, ReportEvery, ExportTimeout} \subseteq Nat \ {0}
  /\ MaxTime \in Nat /\ None \notin Nat

VARIABLES
  clock,
  channel,    \* the tick waiting in each ticker's channel, or None
  pc,         \* where the loop is: in select, in an export, or returned
  deadline,   \* when the export under way times out
  cancelled,  \* SIGINT / SIGTERM received
  last,       \* time of the last tick handled
  carry,      \* pacers: fractions of an event, in 1/Second
  batch,      \* events of each stream in the batch under way
  window, total,  \* counts: records per stream, failed export calls
  requests,   \* paymentReqs and cacheMisses
  printed,    \* history: what the report lines so far say
  skipped,    \* history: time the cap cut off
  acked, unacked  \* history: records of this window acknowledged or not, per stream

time    == <<clock, channel>>
call    == <<pc, deadline>>
pacing  == <<last, carry, batch, skipped>>
counted == <<window, total, requests, printed>>
outcome == <<acked, unacked>>
vars    == <<time, call, cancelled, pacing, counted, outcome>>

Ticker == {"tick", "metrics", "report"}
Period == [tick |-> 1, metrics |-> MetricsEvery, report |-> ReportEvery]

Nothing    == [s \in Stream |-> 0]
NewCounts  == [records |-> Nothing, failures |-> 0]
Plus(f, g) == [s \in DOMAIN f |-> f[s] + g[s]]

\* A checkout is a trace of three spans; the other events are one record.
Each(s) == IF s \in TraceStream THEN 3 ELSE 1
Records(events) == [s \in DOMAIN events |-> Each(s) * events[s]]

\* The records of the export under way: ld, td, or none of the streams'.
Exported ==
  LET streams == IF pc = "logs" THEN LogStream ELSE IF pc = "traces" THEN TraceStream ELSE {}
  IN  [s \in Stream |-> IF s \in streams THEN Records(batch)[s] ELSE 0]

\* What the proxy may reject of it.
Rejection ==
  {r \in [Stream -> UNION {0..Exported[s] : s \in Stream}] : \A s \in Stream : r[s] <= Exported[s]}

Init ==
  /\ clock = 0 /\ channel = [k \in Ticker |-> None]
  /\ pc = "select" /\ deadline = 0 /\ cancelled = FALSE
  /\ last = 0 /\ carry = Nothing /\ batch = Nothing /\ skipped = 0
  /\ window = NewCounts /\ total = NewCounts /\ requests = [s \in LogStream |-> 0]
  /\ printed = NewCounts
  /\ acked = Nothing /\ unacked = Nothing

\* Mutant: an export waits for its answer, whatever happens.
MutantNoTimeout == FALSE

\* The context of an export ends: exportTimeout, or the signal.
GivesUp == clock >= deadline \/ cancelled

\* A tick of the clock.  A ticker whose period is over sends the time unless
\* its channel still holds a tick.
Elapse ==
  /\ clock < MaxTime /\ pc # "done" /\ (pc # "select" => ~GivesUp)
  /\ clock' = clock + 1
  /\ channel' = [k \in Ticker |->
       IF channel[k] = None /\ clock' % Period[k] = 0 THEN clock' ELSE channel[k]]
  /\ UNCHANGED <<call, cancelled, pacing, counted, outcome>>

Interrupt ==
  /\ ~cancelled /\ pc # "done"
  /\ cancelled' = TRUE
  /\ UNCHANGED <<time, call, pacing, counted, outcome>>

\* Mutant: a tick stands for tickInterval, however late it is handled.
MutantNominalTick(elapsed) == 1

\* dt of the main loop.
Capped(elapsed) == Min({elapsed, Second})

\* Mutant: the events taken stay in the credit.
MutantKeepCredit(credit) == credit

\* take: what is left for the next tick.
Carried(credit) == [s \in Stream |-> credit[s] % Second]

\* Starts the exports of a batch, without the empty ones.
StartExport(events, from) ==
  /\ pc' = IF from = "logs" /\ \E s \in LogStream : events[s] > 0 THEN "logs"
           ELSE IF \E s \in TraceStream : events[s] > 0 THEN "traces" ELSE "select"
  /\ deadline' = clock + ExportTimeout

\* case now := <-tick.C, up to the first export: pace, build the batch, count.
TakeTick ==
  LET gap    == channel.tick - last
      dt     == Capped(gap)
      credit == [s \in Stream |-> carry[s] + Rate[s] * dt]
      events == [s \in Stream |-> credit[s] \div Second]
  IN
  /\ pc = "select" /\ channel.tick # None
  /\ channel' = [channel EXCEPT !.tick = None]
  /\ last' = channel.tick /\ skipped' = skipped + (IF gap > Second THEN gap - Second ELSE 0)
  /\ carry' = Carried(credit) /\ batch' = events
  /\ window' = [window EXCEPT !.records = Plus(@, Records(events))]
  /\ total'  = [total EXCEPT !.records = Plus(@, Records(events))]
  /\ requests' = [s \in LogStream |-> requests[s] + events[s]]
  /\ StartExport(events, "logs")
  /\ UNCHANGED <<clock, cancelled, printed, outcome>>

\* case now := <-metricsTick.C: exportMetrics, up to its call.
TakeMetrics ==
  /\ pc = "select" /\ channel.metrics # None
  /\ channel' = [channel EXCEPT !.metrics = None]
  /\ pc' = "metrics" /\ deadline' = clock + ExportTimeout
  /\ UNCHANGED <<clock, cancelled, pacing, counted, outcome>>

\* After an export: the batch's next one, or back to select.
Return ==
  IF pc = "logs" THEN StartExport(batch, "traces") ELSE pc' = "select" /\ UNCHANGED deadline

\* The proxy took everything.
Acknowledge ==
  /\ pc \in {"logs", "traces", "metrics"}
  /\ acked' = Plus(acked, Exported)
  /\ Return
  /\ UNCHANGED <<time, cancelled, pacing, counted, unacked>>

Fail ==
  /\ window' = [window EXCEPT !.failures = @ + 1]
  /\ total'  = [total EXCEPT !.failures = @ + 1]

\* Mutant: a partial success is a success.
MutantIgnoreRejected(r) == FALSE

\* RejectedLogRecords() > 0, RejectedSpans() > 0.
Partial(r) == \E s \in Stream : r[s] > 0

\* The proxy answers and rejects some of the records (logs and spans only).
Reject(r) ==
  /\ pc \in {"logs", "traces"}
  /\ acked'   = [s \in Stream |-> acked[s] + (Exported[s] - r[s])]
  /\ unacked' = Plus(unacked, r)
  /\ IF Partial(r) THEN Fail ELSE UNCHANGED <<window, total>>
  /\ Return
  /\ UNCHANGED <<time, cancelled, pacing, requests, printed>>

ExportFails ==
  /\ pc \in {"logs", "traces", "metrics"}
  /\ Fail
  /\ unacked' = Plus(unacked, Exported)
  /\ Return
  /\ UNCHANGED <<time, cancelled, pacing, requests, printed, acked>>

\* Mutant: the window goes on after a report.
MutantKeepWindow == window

\* report: the window that follows.
NextWindow == NewCounts

NewWindow ==
  /\ window' = NextWindow
  /\ acked' = Nothing /\ unacked' = Nothing

\* case <-reportTick.C.
TakeReport ==
  /\ pc = "select" /\ channel.report # None
  /\ channel' = [channel EXCEPT !.report = None]
  /\ printed' = [records  |-> Plus(printed.records, window.records),
                 failures |-> printed.failures + window.failures]
  /\ NewWindow
  /\ UNCHANGED <<clock, call, cancelled, pacing, total, requests>>

\* case <-ctx.Done(): the final report prints the totals.
Finish ==
  /\ pc = "select" /\ cancelled
  /\ pc' = "done" /\ printed' = total
  /\ NewWindow
  /\ UNCHANGED <<time, deadline, cancelled, pacing, total, requests>>

Done == pc = "done" /\ UNCHANGED vars

Next ==
  \/ Elapse \/ Interrupt
  \/ TakeTick \/ TakeMetrics \/ TakeReport \/ Finish
  \/ Acknowledge \/ ExportFails \/ \E r \in Rejection : Reject(r)
  \/ Done

\* A context that ended makes its call return.  select picks at random among
\* the cases that are ready, so a case ready again and again is taken.
Fairness ==
  /\ WF_vars(GivesUp /\ ExportFails)
  /\ SF_vars(Finish)

Spec == Init /\ [][Next]_vars /\ Fairness

-----------------------------------------------------------------------------
(* Properties. *)

Counts == [records : [Stream -> Nat], failures : Nat]

\* Type correctness.
TypeOK ==
  /\ clock \in 0..MaxTime /\ channel \in [Ticker -> 0..MaxTime \cup {None}]
  /\ pc \in {"select", "logs", "traces", "metrics", "done"}
  /\ deadline \in 0..(MaxTime + ExportTimeout) /\ cancelled \in BOOLEAN
  /\ last \in 0..clock /\ skipped \in 0..clock
  /\ carry \in [Stream -> 0..(Second - 1)] /\ batch \in [Stream -> Nat]
  /\ {window, total, printed} \subseteq Counts
  /\ requests \in [LogStream -> Nat]
  /\ acked \in [Stream -> Nat] /\ unacked \in [Stream -> Nat]

\* "a slow export makes the next batch bigger instead of silently lowering the
\* rate", "carrying the remainder": over any run of late, dropped and coalesced
\* ticks each stream has emitted its rate times the time handled, less only the
\* part of a gap between two ticks beyond a second.
RateKept ==
  \A s \in Stream :
    total.records[s] * Second + Each(s) * carry[s] = Each(s) * Rate[s] * (last - skipped)

\* "every record is either acknowledged by the proxy or counted as an export
\* error" (main.go): between two exports, the records of each stream in the
\* window were all answered for, and a window that reports no error lost none - partial
\* successes, timeouts and the exports the signal cut short included.
EveryRecordAccounted ==
  pc = "select" =>
    /\ window.records = Plus(acked, unacked)
    /\ window.failures = 0 => unacked = Nothing

\* The lines printed every report-every and the final one agree: the windows,
\* printed and open, add up to the totals, and the totals to the counters the
\* application metrics carry ("cumulative since start").
ReportsAddUp ==
  /\ Plus(printed.records, window.records) = total.records
  /\ printed.failures + window.failures = total.failures
  /\ \A s \in LogStream : total.records[s] = requests[s]

\* A signal ends the generator with its final report, also when it arrives
\* while an export hangs.
ShutdownFinishes == cancelled ~> pc = "done"
=============================================================================
