------------------------- MODULE LoadGeneratorProofs -------------------------
(***************************************************************************)
(* The workload's rate and its reports, for any streams, rates, periods    *)
(* and timeouts.  Each stream keeps its own account: what is emitted       *)
(* follows from the time handled and the credit carried, and what the      *)
(* window counts is answered for, or in the batch under way.               *)
(***************************************************************************)
EXTENDS LoadGenerator, TLAPS

\* What the batch under way still has to be answered for.
Pending(s) ==
  IF pc = "logs" \/ (pc = "traces" /\ s \in TraceStream) THEN Each(s) * batch[s] ELSE 0

\* No tick lies in the future, nor before the last one handled.
ClockInv ==
  /\ \A k \in Ticker : channel[k] # None => channel[k] <= clock
  /\ channel["tick"] # None => last < channel["tick"]
  /\ skipped <= last

\* The window at any moment: answered for, or pending.
AccountInv ==
  /\ \A s \in Stream : window.records[s] = acked[s] + unacked[s] + Pending(s)
  /\ window.failures = 0 => \A s \in Stream : unacked[s] = 0

IInv == TypeOK /\ ClockInv /\ RateKept /\ AccountInv /\ ReportsAddUp

-----------------------------------------------------------------------------
(* The operators. *)

LEMMA Constants ==
  /\ Second \in Nat /\ Second >= 1 /\ ExportTimeout \in Nat /\ MaxTime \in Nat
  /\ MetricsEvery \in Nat \ {0} /\ ReportEvery \in Nat \ {0} /\ None \notin Nat
  /\ \A s \in Stream : Rate[s] \in Nat
  /\ \A s \in Stream : Each(s) \in {1, 3} /\ Each(s) \in Nat
  /\ \A s \in LogStream : s \in Stream /\ Each(s) = 1 /\ s \notin TraceStream
  /\ \A s \in Stream : s \in LogStream \/ s \in TraceStream
BY TimeAssumption, StreamAssumption DEF Each, Stream

LEMMA CappedType ==
  ASSUME NEW n \in Nat
  PROVE  Capped(n) = IF n <= Second THEN n ELSE Second
<1>0. Second \in Nat
  BY Constants
<1>1. CASE n <= Second
  <2>1. n \in {n, Second} /\ \A y \in {n, Second} : n <= y
    BY <1>0, <1>1
  <2>2. \A x \in {n, Second} : (\A y \in {n, Second} : x <= y) => x = n
    BY <1>0, <1>1
  <2>3. QED
    BY <1>1, <2>1, <2>2 DEF Capped, Min
<1>2. CASE ~(n <= Second)
  <2>1. Second \in {n, Second} /\ \A y \in {n, Second} : Second <= y
    BY <1>0, <1>2
  <2>2. \A x \in {n, Second} : (\A y \in {n, Second} : x <= y) => x = Second
    BY <1>0, <1>2
  <2>3. QED
    BY <1>2, <2>1, <2>2 DEF Capped, Min
<1>3. QED
  BY <1>1, <1>2

LEMMA PlusType ==
  ASSUME NEW f \in [Stream -> Nat], NEW g \in [Stream -> Nat]
  PROVE  /\ Plus(f, g) \in [Stream -> Nat]
         /\ \A s \in Stream : Plus(f, g)[s] = f[s] + g[s]
BY DEF Plus

LEMMA RecordsType ==
  ASSUME NEW events \in [Stream -> Nat]
  PROVE  /\ Records(events) \in [Stream -> Nat]
         /\ \A s \in Stream : Records(events)[s] = Each(s) * events[s]
<1>1. \A s \in Stream : Each(s) * events[s] \in Nat
  BY Constants
<1>2. QED
  BY <1>1 DEF Records

LEMMA NewCountsType ==
  /\ Nothing \in [Stream -> Nat] /\ \A s \in Stream : Nothing[s] = 0
  /\ NewCounts \in Counts /\ NewCounts.records = Nothing /\ NewCounts.failures = 0
BY DEF Nothing, NewCounts, Counts

LEMMA CountsType ==
  ASSUME NEW c \in Counts
  PROVE  c.records \in [Stream -> Nat] /\ c.failures \in Nat
BY DEF Counts

\* The records under way belong to the streams of the export.
LEMMA ExportedType ==
  ASSUME batch \in [Stream -> Nat]
  PROVE  /\ Exported \in [Stream -> Nat]
         /\ \A s \in Stream : Exported[s] =
              IF (pc = "logs" /\ s \in LogStream) \/ (pc = "traces" /\ s \in TraceStream)
              THEN Each(s) * batch[s] ELSE 0
<1>1. Records(batch) \in [Stream -> Nat] /\ \A s \in Stream : Records(batch)[s] = Each(s) * batch[s]
  BY RecordsType
<1>2. QED
  BY <1>1 DEF Exported

\* div and mod split the credit.
LEMMA DivMod ==
  ASSUME NEW c \in Nat, NEW r \in Nat, r >= 1
  PROVE  /\ c \div r \in Nat /\ c % r \in 0..(r - 1)
         /\ (c \div r) * r + (c % r) = c
<1> DEFINE q == c \div r
           m == c % r
<1>1. q \in Int /\ m \in Int /\ 0 <= m /\ m < r /\ c = r * q + m
  OBVIOUS
<1> HIDE DEF q, m
<1>2. q >= 0
  <2>1. ASSUME q <= -1 PROVE FALSE
    <3>1. r * (-1 - q) \in Nat /\ r * q = -r - r * (-1 - q)
      BY <1>1, <2>1
    <3>2. QED
      BY <1>1, <3>1
  <2>2. QED
    BY <1>1, <2>1
<1>3. q * r = r * q
  BY <1>1
<1>4. q \in Nat /\ m \in 0..(r - 1) /\ q * r + m = c
  BY <1>1, <1>2, <1>3
<1>5. QED
  BY <1>4, Zenon DEF q, m

LEMMA CreditSplits ==
  ASSUME NEW c \in Nat
  PROVE  /\ c \div Second \in Nat /\ c % Second \in 0..(Second - 1)
         /\ (c \div Second) * Second + (c % Second) = c
BY Constants, DivMod

-----------------------------------------------------------------------------
(* What a step leaves alone. *)

LEMMA AccountKept ==
  ASSUME AccountInv, UNCHANGED <<pc, batch, window, acked, unacked>>
  PROVE  AccountInv'
BY DEF AccountInv, Pending

LEMMA SumsKept ==
  ASSUME ReportsAddUp, UNCHANGED <<printed, window, total, requests>>
  PROVE  ReportsAddUp'
BY DEF ReportsAddUp

LEMMA RateStays ==
  ASSUME RateKept, UNCHANGED <<carry, last, skipped>>, total'.records = total.records
  PROVE  RateKept'
BY DEF RateKept

-----------------------------------------------------------------------------
(* The clock and the signal. *)

LEMMA ElapseStep ==
  ASSUME IInv, Elapse
  PROVE  IInv'
<1>0. TypeOK /\ ClockInv /\ RateKept /\ AccountInv /\ ReportsAddUp
  BY DEF IInv
<1>1. /\ clock < MaxTime /\ clock' = clock + 1
      /\ channel' = [k \in Ticker |->
           IF channel[k] = None /\ clock' % Period[k] = 0 THEN clock' ELSE channel[k]]
      /\ UNCHANGED <<pc, deadline, cancelled, last, carry, batch, skipped, window, total,
                     requests, printed, acked, unacked>>
  BY DEF Elapse, call, pacing, counted, outcome
<1>2. clock \in Nat /\ clock' \in 0..MaxTime /\ last \in 0..clock /\ skipped \in 0..clock
  BY <1>0, <1>1, Constants DEF TypeOK
<1>3. \A k \in Ticker : channel'[k] = channel[k] \/ channel'[k] = clock'
  BY <1>1
<1>4. channel' \in [Ticker -> 0..MaxTime \cup {None}]
  BY <1>0, <1>1, <1>2 DEF TypeOK
<1>5. TypeOK'
  <2>1. last' \in 0..clock' /\ skipped' \in 0..clock'
    BY <1>1, <1>2
  <2>2. QED
    BY <1>0, <1>1, <1>2, <1>4, <2>1 DEF TypeOK
<1>6. ClockInv'
  <2>1. ASSUME NEW k \in Ticker, channel'[k] # None PROVE channel'[k] <= clock'
    <3>1. CASE channel'[k] = channel[k]
      <4>1. channel[k] <= clock /\ channel[k] \in Nat
        BY <2>1, <3>1, <1>0, Constants DEF ClockInv, TypeOK
      <4>2. QED
        BY <3>1, <4>1, <1>1, <1>2
    <3>2. QED
      BY <3>1, <1>2, <1>3
  <2>2. ASSUME channel'["tick"] # None PROVE last < channel'["tick"]
    BY <2>2, <1>0, <1>1, <1>2, <1>3 DEF ClockInv, Ticker
  <2>3. QED
    BY <2>1, <2>2, <1>0, <1>1 DEF ClockInv
<1>7. RateKept' /\ AccountInv' /\ ReportsAddUp'
  BY <1>0, <1>1, RateStays, AccountKept, SumsKept
<1>8. QED
  BY <1>5, <1>6, <1>7 DEF IInv

\* Steps that touch neither the pacing nor the counts.
LEMMA QuietStep ==
  ASSUME IInv, Interrupt \/ UNCHANGED vars
  PROVE  IInv'
<1>0. TypeOK /\ ClockInv /\ RateKept /\ AccountInv /\ ReportsAddUp
  BY DEF IInv
<1>1. /\ cancelled' \in BOOLEAN
      /\ UNCHANGED <<clock, channel, pc, deadline, last, carry, batch, skipped, window, total,
                     requests, printed, acked, unacked>>
  BY <1>0 DEF Interrupt, time, call, pacing, counted, outcome, vars, TypeOK
<1>2. TypeOK' /\ ClockInv'
  BY <1>0, <1>1 DEF TypeOK, ClockInv
<1>3. QED
  BY <1>0, <1>1, <1>2, RateStays, AccountKept, SumsKept DEF IInv

LEMMA TakeMetricsStep ==
  ASSUME IInv, TakeMetrics
  PROVE  IInv'
<1>0. TypeOK /\ ClockInv /\ RateKept /\ AccountInv /\ ReportsAddUp
  BY DEF IInv
<1>1. /\ pc = "select" /\ channel' = [channel EXCEPT !["metrics"] = None]
      /\ pc' = "metrics" /\ deadline' = clock + ExportTimeout
      /\ UNCHANGED <<clock, cancelled, last, carry, batch, skipped, window, total,
                     requests, printed, acked, unacked>>
  BY DEF TakeMetrics, pacing, counted, outcome
<1>2. /\ channel' \in [Ticker -> 0..MaxTime \cup {None}]
      /\ channel'["tick"] = channel["tick"]
      /\ \A k \in Ticker : channel'[k] = channel[k] \/ channel'[k] = None
  BY <1>0, <1>1 DEF TypeOK, Ticker
<1>3. deadline' \in 0..(MaxTime + ExportTimeout)
  BY <1>0, <1>1, Constants DEF TypeOK
<1>4. TypeOK'
  BY <1>0, <1>1, <1>2, <1>3 DEF TypeOK
<1>5. ClockInv'
  BY <1>0, <1>1, <1>2 DEF ClockInv
<1>6. AccountInv'
  BY <1>0, <1>1 DEF AccountInv, Pending
<1>7. QED
  BY <1>0, <1>1, <1>4, <1>5, <1>6, RateStays, SumsKept DEF IInv

-----------------------------------------------------------------------------
(* Reports. *)

\* A new window opens between two exports: nothing is pending.
LEMMA WindowOpens ==
  ASSUME TypeOK, NewWindow, pc' \notin {"logs", "traces"}
  PROVE  /\ AccountInv' /\ window' = NewCounts /\ window' \in Counts
         /\ acked' \in [Stream -> Nat] /\ unacked' \in [Stream -> Nat]
BY NewCountsType DEF NewWindow, NextWindow, AccountInv, Pending

LEMMA TakeReportStep ==
  ASSUME IInv, TakeReport
  PROVE  IInv'
<1>0. TypeOK /\ ClockInv /\ RateKept /\ AccountInv /\ ReportsAddUp
  BY DEF IInv
<1>1. /\ pc = "select" /\ channel' = [channel EXCEPT !["report"] = None] /\ NewWindow
      /\ printed' = [records  |-> Plus(printed.records, window.records),
                     failures |-> printed.failures + window.failures]
      /\ UNCHANGED <<clock, pc, deadline, cancelled, last, carry, batch, skipped, total, requests>>
  BY DEF TakeReport, call, pacing
<1>2. /\ channel' \in [Ticker -> 0..MaxTime \cup {None}]
      /\ channel'["tick"] = channel["tick"]
      /\ \A k \in Ticker : channel'[k] = channel[k] \/ channel'[k] = None
  BY <1>0, <1>1 DEF TypeOK, Ticker
<1>3. /\ AccountInv' /\ window' = NewCounts /\ window' \in Counts
      /\ acked' \in [Stream -> Nat] /\ unacked' \in [Stream -> Nat]
  BY <1>0, <1>1, WindowOpens
<1>4. /\ window.records \in [Stream -> Nat] /\ printed.records \in [Stream -> Nat]
      /\ window.failures \in Nat /\ printed.failures \in Nat
  BY <1>0, CountsType DEF TypeOK
<1>5. Plus(printed.records, window.records) \in [Stream -> Nat]
  BY <1>4, PlusType
<1>6. /\ printed' \in Counts /\ printed'.records = Plus(printed.records, window.records)
      /\ printed'.failures = printed.failures + window.failures
  BY <1>1, <1>4, <1>5 DEF Counts
<1>7. TypeOK'
  BY <1>0, <1>1, <1>2, <1>3, <1>6 DEF TypeOK
<1>8. ClockInv'
  BY <1>0, <1>1, <1>2 DEF ClockInv
<1>9. ReportsAddUp'
  <2>1. printed'.records = total.records /\ printed'.failures = total.failures
    BY <1>0, <1>6 DEF ReportsAddUp
  <2>2. total.records \in [Stream -> Nat] /\ total.failures \in Nat
    BY <1>0, CountsType DEF TypeOK
  <2>3. Plus(total.records, Nothing) = total.records
    BY <2>2, NewCountsType DEF Plus
  <2>4. QED
    BY <2>1, <2>2, <2>3, <1>0, <1>1, <1>3, NewCountsType DEF ReportsAddUp
<1>10. QED
  BY <1>0, <1>1, <1>3, <1>7, <1>8, <1>9, RateStays DEF IInv

LEMMA FinishStep ==
  ASSUME IInv, Finish
  PROVE  IInv'
<1>0. TypeOK /\ ClockInv /\ RateKept /\ AccountInv /\ ReportsAddUp
  BY DEF IInv
<1>1. /\ pc = "select" /\ pc' = "done" /\ printed' = total /\ NewWindow
      /\ UNCHANGED <<clock, channel, deadline, cancelled, last, carry, batch, skipped,
                     total, requests>>
  BY DEF Finish, time, pacing
<1>2. /\ AccountInv' /\ window' = NewCounts /\ window' \in Counts
      /\ acked' \in [Stream -> Nat] /\ unacked' \in [Stream -> Nat]
  BY <1>0, <1>1, WindowOpens
<1>3. TypeOK'
  BY <1>0, <1>1, <1>2 DEF TypeOK
<1>4. ClockInv'
  BY <1>0, <1>1 DEF ClockInv
<1>5. ReportsAddUp'
  <2>1. total.records \in [Stream -> Nat] /\ total.failures \in Nat
    BY <1>0, CountsType DEF TypeOK
  <2>2. Plus(total.records, Nothing) = total.records
    BY <2>1, NewCountsType DEF Plus
  <2>3. QED
    BY <2>1, <2>2, <1>0, <1>1, <1>2, NewCountsType DEF ReportsAddUp
<1>6. QED
  BY <1>0, <1>1, <1>2, <1>3, <1>4, <1>5, RateStays DEF IInv
-----------------------------------------------------------------------------
(* A tick: pace, build the batch, count. *)

\* Starting the exports of a batch, from the logs or from the traces on, skips
\* only what is empty.
LEMMA StartType ==
  ASSUME TypeOK, NEW events \in [Stream -> Nat], NEW from \in {"logs", "traces"},
         StartExport(events, from), clock' = clock
  PROVE  /\ pc' \in {"select", "logs", "traces"}
         /\ deadline' \in 0..(MaxTime + ExportTimeout)
         /\ from = "traces" => pc' # "logs"
         /\ \A s \in Stream :
              events[s] > 0 /\ (from = "logs" \/ s \in TraceStream)
                => pc' = "logs" \/ (pc' = "traces" /\ s \in TraceStream)
<1>1. deadline' \in 0..(MaxTime + ExportTimeout)
  BY Constants DEF StartExport, TypeOK
<1>2. QED
  BY <1>1, Constants DEF StartExport

\* What is pending once the exports of a batch are started.
LEMMA PendingAfter ==
  ASSUME NEW events \in [Stream -> Nat], NEW from \in {"logs", "traces"}, NEW s \in Stream,
         batch' = events, pc' \in {"select", "logs", "traces"}, from = "traces" => pc' # "logs",
         events[s] > 0 /\ (from = "logs" \/ s \in TraceStream)
           => pc' = "logs" \/ (pc' = "traces" /\ s \in TraceStream)
  PROVE  Pending(s)' = IF from = "logs" \/ s \in TraceStream THEN Each(s) * events[s] ELSE 0
<1>1. events[s] \in Nat /\ Each(s) \in {1, 3}
  BY Constants
<1>2. Each(s)' = Each(s) /\ Each(s) * 0 = 0
  BY <1>1 DEF Each
<1>3. CASE from = "logs" \/ s \in TraceStream
  <2>1. CASE events[s] > 0
    BY <1>2, <1>3, <2>1 DEF Pending, Each
  <2>2. CASE events[s] = 0
    BY <1>2, <1>3, <2>2 DEF Pending, Each
  <2>3. QED
    BY <1>1, <2>1, <2>2
<1>4. CASE ~(from = "logs" \/ s \in TraceStream)
  BY <1>4 DEF Pending
<1>5. QED
  BY <1>3, <1>4

LEMMA TakeTickStep ==
  ASSUME IInv, TakeTick
  PROVE  IInv'
<1>0. TypeOK /\ ClockInv /\ RateKept /\ AccountInv /\ ReportsAddUp
  BY DEF IInv
<1> DEFINE gap    == channel["tick"] - last
           dt     == Capped(gap)
           cut    == IF gap > Second THEN gap - Second ELSE 0
           credit == [s \in Stream |-> carry[s] + Rate[s] * dt]
           events == [s \in Stream |-> credit[s] \div Second]
<1>1. /\ pc = "select" /\ channel["tick"] # None
      /\ channel' = [channel EXCEPT !["tick"] = None]
      /\ last' = channel["tick"] /\ skipped' = skipped + cut
      /\ carry' = [s \in Stream |-> credit[s] % Second] /\ batch' = events
      /\ window' = [window EXCEPT !.records = Plus(window.records, Records(events))]
      /\ total'  = [total EXCEPT !.records = Plus(total.records, Records(events))]
      /\ requests' = [s \in LogStream |-> requests[s] + events[s]]
      /\ StartExport(events, "logs")
      /\ UNCHANGED <<clock, cancelled, printed, acked, unacked>>
  BY DEF TakeTick, Carried, outcome
<1>2. /\ clock \in 0..MaxTime /\ last \in 0..clock /\ skipped \in 0..clock /\ skipped <= last
      /\ channel["tick"] \in Nat /\ channel["tick"] <= clock /\ last < channel["tick"]
  BY <1>0, <1>1, Constants DEF TypeOK, ClockInv, Ticker
<1>3. /\ gap \in Nat /\ dt \in Nat /\ cut \in Nat /\ cut + dt = gap
  BY <1>2, CappedType, Constants
<1>4. /\ last' \in 0..clock /\ skipped' \in 0..clock /\ skipped' <= last'
      /\ last' - skipped' = (last - skipped) + dt /\ last - skipped \in Nat
  BY <1>1, <1>2, <1>3
<1> HIDE DEF gap, dt, cut
<1>5. ASSUME NEW s \in Stream
      PROVE  /\ carry[s] \in Nat /\ Rate[s] \in Nat /\ Rate[s] * dt \in Nat
             /\ credit[s] = carry[s] + Rate[s] * dt /\ credit[s] \in Nat
  BY <1>0, <1>3, Constants DEF TypeOK
<1> HIDE DEF credit
<1>6. ASSUME NEW s \in Stream
      PROVE  /\ events[s] \in Nat /\ carry'[s] \in 0..(Second - 1)
             /\ events[s] * Second + carry'[s] = credit[s]
  <2>1. events[s] = credit[s] \div Second /\ carry'[s] = credit[s] % Second
    BY <1>1
  <2>2. credit[s] \in Nat
    BY <1>5
  <2>3. QED
    <3>1. credit[s] \div Second \in Nat /\ credit[s] % Second \in 0..(Second - 1)
          /\ (credit[s] \div Second) * Second + (credit[s] % Second) = credit[s]
      BY <2>2, CreditSplits, Zenon
    <3>2. QED
      BY <2>1, <3>1, Zenon
<1>7. /\ events \in [Stream -> Nat] /\ carry' \in [Stream -> 0..(Second - 1)]
  BY <1>1, <1>6
<1> HIDE DEF events
<1>8. /\ Records(events) \in [Stream -> Nat]
      /\ \A s \in Stream : Records(events)[s] = Each(s) * events[s]
  BY <1>7, RecordsType
<1>9. /\ window.records \in [Stream -> Nat] /\ total.records \in [Stream -> Nat]
      /\ printed.records \in [Stream -> Nat]
      /\ window \in Counts /\ total \in Counts
  BY <1>0, CountsType DEF TypeOK
<1>10. /\ Plus(window.records, Records(events)) \in [Stream -> Nat]
       /\ Plus(total.records, Records(events)) \in [Stream -> Nat]
       /\ \A s \in Stream :
            /\ Plus(window.records, Records(events))[s] = window.records[s] + Each(s) * events[s]
            /\ Plus(total.records, Records(events))[s] = total.records[s] + Each(s) * events[s]
  BY <1>8, <1>9, PlusType
<1>11. /\ window' \in Counts /\ window'.records = Plus(window.records, Records(events))
       /\ window'.failures = window.failures
       /\ total' \in Counts /\ total'.records = Plus(total.records, Records(events))
       /\ total'.failures = total.failures
  BY <1>1, <1>9, <1>10 DEF Counts
<1>12. /\ pc' \in {"select", "logs", "traces"} /\ deadline' \in 0..(MaxTime + ExportTimeout)
       /\ \A s \in Stream :
            events[s] > 0 => pc' = "logs" \/ (pc' = "traces" /\ s \in TraceStream)
  BY <1>0, <1>1, <1>7, StartType
<1>13. /\ channel' \in [Ticker -> 0..MaxTime \cup {None}]
       /\ channel'["tick"] = None
       /\ \A k \in Ticker : channel'[k] = channel[k] \/ channel'[k] = None
  BY <1>0, <1>1 DEF TypeOK, Ticker
<1>14. requests' \in [LogStream -> Nat]
  BY <1>0, <1>1, <1>6, Constants DEF TypeOK
<1>15. TypeOK'
  <2>1. last' \in 0..clock' /\ skipped' \in 0..clock' /\ clock' \in 0..MaxTime
    BY <1>1, <1>2, <1>4
  <2>2. batch' \in [Stream -> Nat] /\ {window', total', printed'} \subseteq Counts
    BY <1>0, <1>1, <1>7, <1>11 DEF TypeOK
  <2>3. QED
    BY <2>1, <2>2, <1>0, <1>1, <1>7, <1>12, <1>13, <1>14 DEF TypeOK
<1>16. ClockInv'
  BY <1>0, <1>1, <1>4, <1>13 DEF ClockInv
<1>17. RateKept'
  <2> SUFFICES ASSUME NEW s \in Stream
               PROVE  total'.records[s] * Second + Each(s) * carry'[s]
                        = Each(s) * Rate[s] * (last' - skipped')
    BY DEF RateKept, Each
  <2>1. total.records[s] * Second + Each(s) * carry[s] = Each(s) * Rate[s] * (last - skipped)
    BY <1>0 DEF RateKept
  <2>2. events[s] * Second + carry'[s] = carry[s] + Rate[s] * dt
    BY <1>5, <1>6
  <2>3. /\ events[s] \in Nat /\ carry'[s] \in Nat /\ total.records[s] \in Nat
        /\ Each(s) \in {1, 3} /\ Rate[s] \in Nat /\ carry[s] \in Nat
    BY <1>5, <1>6, <1>7, <1>9, Constants
  <2>4. (total.records[s] + Each(s) * events[s]) * Second + Each(s) * carry'[s]
          = Each(s) * Rate[s] * ((last - skipped) + dt)
    <3> DEFINE e == Each(s)
               r == Rate[s]
               c == carry[s]
               n == events[s]
               v == carry'[s]
               b == last - skipped
               t == total.records[s]
    <3>1. /\ e \in {1, 3} /\ r \in Nat /\ c \in Nat /\ n \in Nat /\ dt \in Nat
          /\ v \in Nat /\ b \in Nat /\ t \in Nat
          /\ n * Second + v = c + r * dt /\ t * Second + e * c = e * r * b
      BY <2>1, <2>2, <2>3, <1>3, <1>4
    <3> HIDE DEF e, r, c, n, v, b, t
    <3>2. (t + e * n) * Second + e * v = e * r * (b + dt)
      <4>1. Second \in Nat
        BY Constants
      <4>2. r * dt \in Nat /\ r * b \in Nat /\ n * Second \in Nat /\ t * Second \in Nat
            /\ r * (b + dt) = r * b + r * dt
        BY <3>1, <4>1
      <4>3. CASE e = 1
        <5>1. (t + n) * Second = t * Second + n * Second
          BY <3>1, <4>1
        <5>2. e * n = n /\ e * v = v /\ e * c = c /\ e * r = r
          BY <3>1, <4>3
        <5>3. QED
          BY <3>1, <4>2, <5>1, <5>2
      <4>4. CASE e = 3
        <5>1. (t + 3 * n) * Second = t * Second + 3 * (n * Second)
          BY <3>1, <4>1
        <5>2. e * n = 3 * n /\ e * v = 3 * v /\ e * c = 3 * c
          BY <3>1, <4>4
        <5>3. e * r * b = 3 * (r * b) /\ e * r * (b + dt) = 3 * (r * (b + dt))
          BY <3>1, <4>4
        <5>4. t * Second + 3 * c = 3 * (r * b) /\ n * Second + v = c + r * dt
          BY <3>1, <5>2, <5>3
        <5>5. (t + 3 * n) * Second + 3 * v = 3 * (r * (b + dt))
          BY <3>1, <4>2, <5>1, <5>4
        <5>6. QED
          BY <4>4, <5>3, <5>5
      <4>5. QED
        BY <3>1, <4>3, <4>4
    <3>3. QED
      BY <3>2 DEF e, r, c, n, v, b, t
  <2>5. QED
    BY <2>4, <1>4, <1>10, <1>11
<1>18. AccountInv'
  <2>1. ASSUME NEW s \in Stream PROVE window'.records[s] = acked'[s] + unacked'[s] + Pending(s)'
    <3>1. Pending(s)' = Each(s) * events[s]
      BY <1>1, <1>7, <1>12, PendingAfter
    <3>2. window.records[s] = acked[s] + unacked[s] /\ acked[s] \in Nat /\ unacked[s] \in Nat
      BY <1>0, <1>1 DEF AccountInv, Pending, TypeOK
    <3>3. Each(s) * events[s] \in Nat
      BY <1>7, Constants
    <3>4. QED
      BY <3>1, <3>2, <3>3, <1>1, <1>10, <1>11
  <2>2. QED
    BY <2>1, <1>0, <1>1, <1>11 DEF AccountInv
<1>19. ReportsAddUp'
  <2>1. Plus(printed.records, Plus(window.records, Records(events)))
          = Plus(total.records, Records(events))
    <3>1. ASSUME NEW s \in Stream
          PROVE  printed.records[s] + (window.records[s] + Records(events)[s])
                   = total.records[s] + Records(events)[s]
      <4>1. total.records[s] = printed.records[s] + window.records[s]
        BY <1>0, <1>9 DEF ReportsAddUp, Plus
      <4>2. QED
        BY <4>1, <1>8, <1>9
    <3>2. \A s \in Stream : Plus(window.records, Records(events))[s]
                              = window.records[s] + Records(events)[s]
      BY <1>8, <1>9, PlusType
    <3>3. QED
      BY <3>1, <3>2, <1>9, <1>10 DEF Plus
  <2>2. ASSUME NEW s \in LogStream PROVE total'.records[s] = requests'[s]
    <3>1. total.records[s] = requests[s] /\ requests'[s] = requests[s] + events[s]
      BY <1>0, <1>1 DEF ReportsAddUp
    <3>2. s \in Stream /\ Each(s) * events[s] = events[s]
      BY <1>7, Constants
    <3>3. QED
      BY <3>1, <3>2, <1>10, <1>11
  <2>3. QED
    BY <2>1, <2>2, <1>0, <1>1, <1>11 DEF ReportsAddUp
<1>20. QED
  BY <1>15, <1>16, <1>17, <1>18, <1>19 DEF IInv
-----------------------------------------------------------------------------
(* The end of an export. *)

\* Whatever became of the export: what it carried is answered for, the rest of
\* the batch still pending.
LEMMA Answered ==
  ASSUME IInv, pc \in {"logs", "traces", "metrics"}, Return,
         UNCHANGED <<clock, channel, batch, last, carry, skipped, cancelled, printed, requests>>,
         window' \in Counts, total' \in Counts,
         window'.records = window.records, total'.records = total.records,
         \/ window'.failures = window.failures /\ total'.failures = total.failures
         \/ window'.failures = window.failures + 1 /\ total'.failures = total.failures + 1,
         acked' \in [Stream -> Nat], unacked' \in [Stream -> Nat],
         \A s \in Stream : acked'[s] + unacked'[s] = acked[s] + unacked[s] + Exported[s],
         window'.failures = 0 => \A s \in Stream : unacked'[s] = 0
  PROVE  IInv'
<1>0. TypeOK /\ ClockInv /\ RateKept /\ AccountInv /\ ReportsAddUp
  BY DEF IInv
<1>1. batch \in [Stream -> Nat] /\ acked \in [Stream -> Nat] /\ unacked \in [Stream -> Nat]
  BY <1>0 DEF TypeOK
<1>2. /\ pc' \in {"select", "logs", "traces"} /\ deadline' \in 0..(MaxTime + ExportTimeout)
      /\ \A s \in Stream : Pending(s) = Exported[s] + Pending(s)'
      /\ \A s \in Stream : Pending(s) \in Nat /\ Pending(s)' \in Nat /\ Exported[s] \in Nat
  <2>1. CASE pc = "logs"
    <3>1. StartExport(batch, "traces")
      BY <2>1 DEF Return
    <3>2. /\ pc' \in {"select", "logs", "traces"} /\ deadline' \in 0..(MaxTime + ExportTimeout)
          /\ pc' # "logs"
          /\ \A s \in Stream : batch[s] > 0 /\ s \in TraceStream => pc' = "traces"
      BY <3>1, <1>0, <1>1, StartType
    <3>3. ASSUME NEW s \in Stream
          PROVE  /\ Pending(s) = Exported[s] + Pending(s)'
                 /\ Pending(s) \in Nat /\ Pending(s)' \in Nat /\ Exported[s] \in Nat
      <4>1. Each(s) * batch[s] \in Nat
        BY <1>1, Constants
      <4>2. Pending(s) = Each(s) * batch[s]
        BY <2>1 DEF Pending
      <4>3. Exported[s] = IF s \in LogStream THEN Each(s) * batch[s] ELSE 0
        BY <2>1, <1>1, ExportedType
      <4>4. Pending(s)' = IF s \in TraceStream THEN Each(s) * batch[s] ELSE 0
        BY <3>2, <1>1, PendingAfter
      <4>5. s \in LogStream <=> s \notin TraceStream
        BY Constants
      <4>6. QED
        BY <4>1, <4>2, <4>3, <4>4, <4>5
    <3>4. QED
      BY <3>2, <3>3
  <2>2. CASE pc # "logs"
    <3>1. pc' = "select" /\ deadline' = deadline
      BY <2>2 DEF Return
    <3>2. ASSUME NEW s \in Stream
          PROVE  /\ Pending(s) = Exported[s] + Pending(s)'
                 /\ Pending(s) \in Nat /\ Pending(s)' \in Nat /\ Exported[s] \in Nat
      <4>1. Each(s) * batch[s] \in Nat
        BY <1>1, Constants
      <4>2. Pending(s)' = 0
        BY <3>1 DEF Pending
      <4>3. Pending(s) = Exported[s] /\ Pending(s) \in Nat
        BY <2>2, <4>1, <1>1, ExportedType DEF Pending
      <4>4. QED
        BY <4>2, <4>3
    <3>3. QED
      BY <3>1, <3>2, <1>0 DEF TypeOK
  <2>3. QED
    BY <2>1, <2>2
<1>3. TypeOK'
  BY <1>0, <1>2 DEF TypeOK
<1>4. ClockInv'
  BY <1>0 DEF ClockInv
<1>5. RateKept'
  BY <1>0, RateStays
<1>6. AccountInv'
  <2>1. ASSUME NEW s \in Stream
        PROVE  window'.records[s] = acked'[s] + unacked'[s] + Pending(s)'
    <3>1. window.records[s] = acked[s] + unacked[s] + Pending(s)
      BY <1>0 DEF AccountInv
    <3>2. /\ acked[s] \in Nat /\ unacked[s] \in Nat /\ acked'[s] \in Nat /\ unacked'[s] \in Nat
      BY <1>1
    <3>3. acked'[s] + unacked'[s] = acked[s] + unacked[s] + Exported[s]
      OBVIOUS
    <3>4. QED
      BY <3>1, <3>2, <3>3, <1>2
  <2>2. QED
    BY <2>1 DEF AccountInv
<1>7. ReportsAddUp'
  <2>1. window.failures \in Nat /\ total.failures \in Nat /\ printed.failures \in Nat
    BY <1>0, CountsType DEF TypeOK
  <2>2. QED
    BY <2>1, <1>0 DEF ReportsAddUp
<1>8. QED
  BY <1>3, <1>4, <1>5, <1>6, <1>7 DEF IInv

\* fail leaves the records alone.
LEMMA FailType ==
  ASSUME TypeOK, Fail
  PROVE  /\ window' \in Counts /\ total' \in Counts
         /\ window'.records = window.records /\ total'.records = total.records
         /\ window'.failures = window.failures + 1 /\ total'.failures = total.failures + 1
         /\ window'.failures # 0
<1>1. window \in Counts /\ total \in Counts
  BY DEF TypeOK
<1>2. /\ window' = [window EXCEPT !.failures = window.failures + 1]
      /\ total' = [total EXCEPT !.failures = total.failures + 1]
  BY DEF Fail
<1>3. window.failures + 1 \in Nat /\ window.failures + 1 # 0 /\ total.failures + 1 \in Nat
  BY <1>1, CountsType
<1>4. QED
  BY <1>1, <1>2, <1>3 DEF Counts

LEMMA AcknowledgeStep ==
  ASSUME IInv, Acknowledge
  PROVE  IInv'
<1>1. /\ pc \in {"logs", "traces", "metrics"} /\ Return
      /\ acked' = Plus(acked, Exported)
      /\ UNCHANGED <<clock, channel, cancelled, last, carry, batch, skipped, window, total,
                     requests, printed, unacked>>
  BY DEF Acknowledge, time, pacing, counted
<1>2. /\ batch \in [Stream -> Nat] /\ acked \in [Stream -> Nat] /\ unacked \in [Stream -> Nat]
      /\ window \in Counts /\ total \in Counts
  BY DEF IInv, TypeOK
<1>3. Exported \in [Stream -> Nat]
  BY <1>2, ExportedType
<1>4. acked' \in [Stream -> Nat] /\ \A s \in Stream : acked'[s] = acked[s] + Exported[s]
  BY <1>1, <1>2, <1>3, PlusType
<1>5. \A s \in Stream : acked'[s] + unacked'[s] = acked[s] + unacked[s] + Exported[s]
  BY <1>1, <1>2, <1>3, <1>4
<1>6. window.failures = 0 => \A s \in Stream : unacked'[s] = 0
  BY <1>1 DEF IInv, AccountInv
<1>7. QED
  BY <1>1, <1>2, <1>4, <1>5, <1>6, Answered

LEMMA ExportFailsStep ==
  ASSUME IInv, ExportFails
  PROVE  IInv'
<1>1. /\ pc \in {"logs", "traces", "metrics"} /\ Return /\ Fail
      /\ unacked' = Plus(unacked, Exported)
      /\ UNCHANGED <<clock, channel, cancelled, last, carry, batch, skipped, requests, printed,
                     acked>>
  BY DEF ExportFails, time, pacing
<1>2. /\ batch \in [Stream -> Nat] /\ acked \in [Stream -> Nat] /\ unacked \in [Stream -> Nat]
  BY DEF IInv, TypeOK
<1>3. Exported \in [Stream -> Nat]
  BY <1>2, ExportedType
<1>4. unacked' \in [Stream -> Nat] /\ \A s \in Stream : unacked'[s] = unacked[s] + Exported[s]
  BY <1>1, <1>2, <1>3, PlusType
<1>5. \A s \in Stream : acked'[s] + unacked'[s] = acked[s] + unacked[s] + Exported[s]
  BY <1>1, <1>2, <1>3, <1>4
<1>6. /\ window' \in Counts /\ total' \in Counts
      /\ window'.records = window.records /\ total'.records = total.records
      /\ window'.failures = window.failures + 1 /\ total'.failures = total.failures + 1
      /\ window'.failures # 0
  BY <1>1, FailType DEF IInv
<1>7. QED
  BY <1>1, <1>2, <1>4, <1>5, <1>6, Answered

LEMMA RejectStep ==
  ASSUME IInv, NEW r \in Rejection, Reject(r)
  PROVE  IInv'
<1>1. /\ pc \in {"logs", "traces", "metrics"} /\ Return
      /\ acked' = [s \in Stream |-> acked[s] + (Exported[s] - r[s])]
      /\ unacked' = Plus(unacked, r)
      /\ IF Partial(r) THEN Fail ELSE UNCHANGED <<window, total>>
      /\ UNCHANGED <<clock, channel, cancelled, last, carry, batch, skipped, requests, printed>>
  BY DEF Reject, time, pacing
<1>2. /\ batch \in [Stream -> Nat] /\ acked \in [Stream -> Nat] /\ unacked \in [Stream -> Nat]
      /\ window \in Counts /\ total \in Counts
  BY DEF IInv, TypeOK
<1>3. Exported \in [Stream -> Nat]
  BY <1>2, ExportedType
<1>4. r \in [Stream -> Nat] /\ \A s \in Stream : r[s] <= Exported[s]
  <2>1. UNION {0..Exported[s] : s \in Stream} \subseteq Nat
    BY <1>3
  <2>2. QED
    BY <2>1 DEF Rejection
<1>5. unacked' \in [Stream -> Nat] /\ \A s \in Stream : unacked'[s] = unacked[s] + r[s]
  BY <1>1, <1>2, <1>4, PlusType
<1>6. \A s \in Stream : acked[s] + (Exported[s] - r[s]) \in Nat
  BY <1>2, <1>3, <1>4
<1>7. acked' \in [Stream -> Nat] /\ \A s \in Stream : acked'[s] = acked[s] + (Exported[s] - r[s])
  BY <1>1, <1>6
<1>8. \A s \in Stream : acked'[s] + unacked'[s] = acked[s] + unacked[s] + Exported[s]
  BY <1>2, <1>3, <1>4, <1>5, <1>7
<1>9. CASE Partial(r)
  <2>1. /\ window' \in Counts /\ total' \in Counts
        /\ window'.records = window.records /\ total'.records = total.records
        /\ window'.failures = window.failures + 1 /\ total'.failures = total.failures + 1
        /\ window'.failures # 0
    BY <1>1, <1>9, FailType DEF IInv
  <2>2. QED
    BY <2>1, <1>1, <1>5, <1>7, <1>8, Answered
<1>10. CASE ~Partial(r)
  <2>1. window' = window /\ total' = total
    BY <1>1, <1>10
  <2>2. ASSUME window.failures = 0, NEW s \in Stream PROVE unacked'[s] = 0
    <3>1. unacked[s] = 0 /\ r[s] = 0
      BY <2>2, <1>4, <1>10 DEF IInv, AccountInv, Partial
    <3>2. QED
      BY <3>1, <1>5
  <2>3. QED
    BY <2>1, <2>2, <1>1, <1>2, <1>5, <1>7, <1>8, Answered
<1>11. QED
  BY <1>9, <1>10

-----------------------------------------------------------------------------
(* The inductive invariant. *)

LEMMA InitIInv == Init => IInv
<1> SUFFICES ASSUME Init PROVE IInv
  OBVIOUS
<1>1. /\ clock = 0 /\ channel = [k \in Ticker |-> None]
      /\ pc = "select" /\ deadline = 0 /\ cancelled = FALSE
      /\ last = 0 /\ carry = Nothing /\ batch = Nothing /\ skipped = 0
      /\ window = NewCounts /\ total = NewCounts /\ requests = [s \in LogStream |-> 0]
      /\ printed = NewCounts /\ acked = Nothing /\ unacked = Nothing
  BY DEF Init
<1>2. /\ Nothing \in [Stream -> Nat] /\ (\A s \in Stream : Nothing[s] = 0)
      /\ NewCounts \in Counts /\ NewCounts.records = Nothing /\ NewCounts.failures = 0
  BY NewCountsType
<1>3. Nothing \in [Stream -> 0..(Second - 1)] /\ 0 \in 0..MaxTime /\ 0 \in 0..0
      /\ 0 \in 0..(MaxTime + ExportTimeout)
  BY Constants DEF Nothing
<1>4. channel \in [Ticker -> 0..MaxTime \cup {None}] /\ \A k \in Ticker : channel[k] = None
  BY <1>1
<1>5. TypeOK
  BY <1>1, <1>2, <1>3, <1>4 DEF TypeOK
<1>6. ClockInv
  BY <1>1, <1>4 DEF ClockInv, Ticker
<1>7. RateKept
  <2>1. \A s \in Stream : Each(s) * 0 = 0 /\ Each(s) * Rate[s] * (0 - 0) = 0 /\ 0 * Second = 0
    BY Constants
  <2>2. QED
    BY <2>1, <1>1, <1>2 DEF RateKept
<1>8. AccountInv
  BY <1>1, <1>2 DEF AccountInv, Pending
<1>9. ReportsAddUp
  <2>1. Plus(Nothing, Nothing) = Nothing
    BY <1>2 DEF Plus
  <2>2. \A s \in LogStream : Nothing[s] = 0 /\ requests[s] = 0
    BY <1>1, <1>2, Constants
  <2>3. QED
    BY <2>1, <2>2, <1>1, <1>2 DEF ReportsAddUp
<1>10. QED
  BY <1>5, <1>6, <1>7, <1>8, <1>9 DEF IInv

LEMMA NextIInv ==
  ASSUME IInv, [Next]_vars
  PROVE  IInv'
<1>1. CASE Elapse
  BY <1>1, ElapseStep
<1>2. CASE Interrupt \/ Done \/ UNCHANGED vars
  BY <1>2, QuietStep DEF Done
<1>3. CASE TakeTick \/ TakeMetrics \/ TakeReport \/ Finish
  BY <1>3, TakeTickStep, TakeMetricsStep, TakeReportStep, FinishStep
<1>4. CASE Acknowledge \/ ExportFails \/ \E r \in Rejection : Reject(r)
  BY <1>4, AcknowledgeStep, ExportFailsStep, RejectStep
<1>5. QED
  BY <1>1, <1>2, <1>3, <1>4 DEF Next

LEMMA Invariance == Spec => []IInv
<1>1. IInv /\ [Next]_vars => IInv'
  BY NextIInv
<1>2. QED
  BY InitIInv, <1>1, PTL DEF Spec

-----------------------------------------------------------------------------
(* Theorems. *)

\* The generator stays well typed: no credit of a second or more is carried.
THEOREM TypeCorrect == Spec => []TypeOK
<1>1. IInv => TypeOK
  BY DEF IInv
<1>2. QED
  BY Invariance, <1>1, PTL

\* For every rate and whatever the exports do to the ticks: what was emitted is
\* the rate times the time handled, less only what the cap cut off.
THEOREM RatesAreKept == Spec => []RateKept
<1>1. IInv => RateKept
  BY DEF IInv
<1>2. QED
  BY Invariance, <1>1, PTL

\* Between two exports every record of the window was acknowledged or counted
\* as not acknowledged, and a window without an error lost none.
THEOREM RecordsAreAccounted == Spec => []EveryRecordAccounted
<1>1. ASSUME IInv, pc = "select"
      PROVE  /\ window.records = Plus(acked, unacked)
             /\ window.failures = 0 => unacked = Nothing
  <2>1. /\ window.records \in [Stream -> Nat] /\ acked \in [Stream -> Nat]
        /\ unacked \in [Stream -> Nat]
    BY <1>1, CountsType DEF IInv, TypeOK
  <2>2. \A s \in Stream : window.records[s] = acked[s] + unacked[s]
    <3>1. \A s \in Stream : window.records[s] = acked[s] + unacked[s] + 0
      BY <1>1 DEF IInv, AccountInv, Pending
    <3>2. QED
      BY <2>1, <3>1
  <2>3. window.failures = 0 => \A s \in Stream : unacked[s] = 0
    BY <1>1 DEF IInv, AccountInv
  <2>4. QED
    BY <2>1, <2>2, <2>3 DEF Plus, Nothing
<1>2. IInv => EveryRecordAccounted
  BY <1>1 DEF EveryRecordAccounted
<1>3. QED
  BY Invariance, <1>2, PTL

\* Printed and open windows add up to the totals, and the totals to the
\* counters the application metrics carry.
THEOREM ReportsAgree == Spec => []ReportsAddUp
<1>1. IInv => ReportsAddUp
  BY DEF IInv
<1>2. QED
  BY Invariance, <1>1, PTL
=============================================================================
