----------------------------- MODULE TimingProofs -----------------------------
(***************************************************************************)
(* The promises about time for every interval, timeout and number of       *)
(* failures.  The argument follows one loop from call to call: whatever    *)
(* becomes of a call, the next begins at most a Gap after it, so the time  *)
(* of the call under way, or of the next one, is bounded by the failures   *)
(* counted.                                                                *)
(***************************************************************************)
EXTENDS Timing, TLAPS

Calling(l) == loop[l].step = "call"

\* When the call under way began, or the next one begins.
Begins(l) ==
  IF Calling(l) THEN loop[l].begun ELSE IF tick[l] THEN clock ELSE due[l]

\* Nothing recorded lies in the future, and a collector that is down has failed
\* no call.
PastInv ==
  /\ since <= clock /\ editedAt <= clock
  /\ lastRow # None => lastRow <= clock
  /\ ~up => failed = Every(0)

\* A ticker fires within an interval; a call that outlasts it finds the tick.
TickerInv ==
  /\ DOMAIN loop = Loop
  /\ \A l \in Loop :
       loop[l] # Off =>
         /\ clock < due[l] /\ due[l] <= clock + interval[l]
         /\ Calling(l) =>
              /\ since <= loop[l].begun /\ loop[l].begun <= clock
              /\ tick[l] \/ due[l] <= loop[l].begun + interval[l]

\* The polls: an edit is polled one Gap later for every poll that failed; a
\* poll that was served without it had begun before.
SyncInv ==
  loop.sync # Off =>
    /\ IF Calling("sync") THEN polledAt = loop.sync.begun
       ELSE Begins("sync") <= polledAt + Gap("sync")
    /\ Calling("sync") /\ loop.sync.served \notin {None, edits} =>
         loop.sync.begun <= editedAt /\ failed.sync = 0
    /\ enforced # edits =>
         Begins("sync") <=
           Longer(editedAt, since) + failed.sync * Gap("sync")
             + (IF editedAt < since THEN 0 ELSE Longer(interval.sync, Latency))

\* The reports: one begins at most a Gap after the last row, and a Gap later for
\* every report that failed.
StatsInv ==
  loop.stats # Off =>
    /\ Calling("stats") /\ loop.stats.served # None =>
         lastRow # None /\ loop.stats.begun <= lastRow
    /\ \/ Begins("stats") <= since + failed.stats * Gap("stats")
       \/ /\ lastRow # None
          /\ Begins("stats") <= lastRow + (failed.stats + 1) * Gap("stats")

\* The page shows what was true at the last refresh.
PageInv ==
  /\ refresh => clock % RefreshEvery = 0
  /\ shown /\ ~refresh =>
       lastRow # None /\ clock - (clock % RefreshEvery) - lastRow < Stale
  /\ ~up => /\ lastRow # None => lastRow <= since + Latency
            /\ orphan # None => orphan <= since + Latency

IInv == TypeOK /\ PastInv /\ TickerInv /\ SyncInv /\ StatsInv /\ PageInv

-----------------------------------------------------------------------------
(* Arithmetic, and what the type of a loop says. *)

LEMMA LongerType ==
  ASSUME NEW a \in Int, NEW b \in Int
  PROVE  Longer(a, b) = IF a >= b THEN a ELSE b
<1>1. CASE a >= b
  <2>1. a \in {a, b} /\ \A y \in {a, b} : a >= y
    BY <1>1
  <2>2. \A x \in {a, b} : (\A y \in {a, b} : x >= y) => x = a
    BY <1>1
  <2>3. QED
    BY <1>1, <2>1, <2>2 DEF Longer, Max
<1>2. CASE ~(a >= b)
  <2>1. b \in {a, b} /\ \A y \in {a, b} : b >= y
    BY <1>2
  <2>2. \A x \in {a, b} : (\A y \in {a, b} : x >= y) => x = b
    BY <1>2
  <2>3. QED
    BY <1>2, <2>1, <2>2 DEF Longer, Max
<1>3. QED
  BY <1>1, <1>2

LEMMA OneMore ==
  ASSUME NEW n \in Nat, NEW g \in Nat
  PROVE  n * g \in Nat /\ (n + 1) * g = n * g + g
OBVIOUS

LEMMA Constants ==
  /\ MinInterval \in Nat /\ RequestTimeout \in Nat /\ Stale \in Nat /\ RefreshEvery \in Nat
  /\ MinInterval >= 1 /\ RequestTimeout >= 1 /\ Stale >= 1 /\ RefreshEvery >= 1
  /\ Latency \in Nat /\ Latency < RequestTimeout
  /\ MaxTime \in Nat /\ MaxEdits \in Nat /\ MaxStarts \in Nat
  /\ None \notin Nat
BY TimingAssumption

\* The intervals of a configuration that Validate accepts.
LEMMA ConfigType ==
  ASSUME NEW config \in Config, Valid(config), NEW l \in Loop, config[l] # None
  PROVE  config[l] \in Nat /\ config[l] >= 1
<1>1. config \in [sync : Nat \cup {None}, stats : Nat \cup {None}]
  BY TimingAssumption
<1>2. config[l] \in Nat
  BY <1>1 DEF Loop
<1>3. config[l] >= MinInterval
  BY DEF Valid
<1>4. QED
  BY <1>2, <1>3, Constants

LEMMA LoopType ==
  ASSUME TypeOK, NEW l \in Loop, loop[l] # Off
  PROVE  /\ up /\ interval \in Config /\ Valid(interval)
         /\ interval[l] \in Nat /\ interval[l] >= 1
         /\ loop[l] = Select \/ Calling(l)
         /\ Calling(l) =>
              /\ loop[l] \in [step : {"call"}, begun : Time, served : 0..edits \cup {None}]
              /\ loop[l].begun \in Nat /\ loop[l].served \in 0..edits \cup {None}
              /\ clock <= loop[l].begun + RequestTimeout
         /\ clock \in Nat /\ due[l] \in Nat /\ tick[l] \in BOOLEAN /\ failed[l] \in Nat
         /\ Gap(l) \in Nat /\ Gap(l) >= interval[l] /\ Gap(l) >= RequestTimeout
<1>1. interval[l] # None
  BY DEF TypeOK
<1>2. up /\ interval \in Config /\ Valid(interval)
  BY <1>1 DEF TypeOK, Every
<1>3. interval[l] \in Nat /\ interval[l] >= 1
  BY <1>1, <1>2, ConfigType
<1>4. \/ loop[l] = Select
      \/ /\ loop[l] \in [step : {"call"}, begun : Time, served : 0..edits \cup {None}]
         /\ clock <= loop[l].begun + RequestTimeout
  BY <1>1 DEF TypeOK
<1>5. /\ loop[l] = Select \/ Calling(l)
      /\ Calling(l) =>
           /\ loop[l] \in [step : {"call"}, begun : Time, served : 0..edits \cup {None}]
           /\ loop[l].begun \in Nat /\ loop[l].served \in 0..edits \cup {None}
           /\ clock <= loop[l].begun + RequestTimeout
  BY <1>4, Constants DEF Calling, Select, Time
<1>6. clock \in Nat /\ due[l] \in Nat /\ tick[l] \in BOOLEAN /\ failed[l] \in Nat
  BY Constants DEF TypeOK, Time
<1>7. Gap(l) \in Nat /\ Gap(l) >= interval[l] /\ Gap(l) >= RequestTimeout
  BY <1>3, Constants, LongerType DEF Gap
<1>8. QED
  BY <1>2, <1>3, <1>5, <1>6, <1>7

\* The variables that are always numbers.
LEMMA Numbers ==
  ASSUME TypeOK, PastInv
  PROVE  /\ clock \in Nat /\ since \in Nat /\ editedAt \in Nat /\ polledAt \in Nat
         /\ edits \in Nat /\ enforced \in Nat
         /\ lastRow # None => lastRow \in Nat
         /\ orphan # None => orphan \in Nat
         /\ Longer(editedAt, since) = IF editedAt >= since THEN editedAt ELSE since
<1>1. /\ clock \in Nat /\ since \in Nat /\ editedAt \in Nat /\ polledAt \in Nat
      /\ edits \in Nat /\ enforced \in Nat
      /\ lastRow # None => lastRow \in Nat
      /\ orphan # None => orphan \in Nat
  BY Constants DEF TypeOK, Time
<1>2. QED
  BY <1>1, LongerType

-----------------------------------------------------------------------------
(* A loop from call to call. *)

\* A loop that is left alone keeps its times.
LEMMA SameTimes ==
  ASSUME NEW l \in Loop, loop'[l] = loop[l], tick'[l] = tick[l], due'[l] = due[l],
         clock' = clock, interval' = interval
  PROVE  /\ Calling(l)' = Calling(l) /\ Begins(l)' = Begins(l)
         /\ Gap(l)' = Gap(l)
BY DEF Calling, Begins, Gap

\* Whatever ends a call, the next one begins at most a Gap after it.
LEMMA CallEnds ==
  ASSUME IInv, NEW l \in Loop, Calling(l), loop'[l] = Select,
         UNCHANGED <<clock, interval, tick, due>>
  PROVE  /\ ~Calling(l)' /\ Begins(l)' \in Nat
         /\ Begins(l)' <= loop[l].begun + Gap(l)
         /\ clock <= loop[l].begun + Latency =>
              Begins(l)' <= loop[l].begun + Longer(interval[l], Latency)
<1>1. loop[l] # Off
  BY DEF Calling, Off
<1>2. /\ interval[l] \in Nat /\ loop[l].begun \in Nat /\ clock <= loop[l].begun + RequestTimeout
      /\ clock \in Nat /\ due[l] \in Nat /\ Gap(l) \in Nat
      /\ Gap(l) >= interval[l] /\ Gap(l) >= RequestTimeout
  BY <1>1, LoopType DEF IInv
<1>3. tick[l] \/ due[l] <= loop[l].begun + interval[l]
  BY <1>1 DEF IInv, TickerInv
<1>4. ~Calling(l)' /\ Begins(l)' = IF tick[l] THEN clock ELSE due[l]
  BY DEF Calling, Begins, Select
<1>5. Longer(interval[l], Latency) = IF interval[l] >= Latency THEN interval[l] ELSE Latency
  BY <1>2, Constants, LongerType
<1>6. QED
  BY <1>2, <1>3, <1>4, <1>5, Constants

\* The time of the call under way, or of the next, is near the clock.
LEMMA BeginsType ==
  ASSUME IInv, NEW l \in Loop, loop[l] # Off
  PROVE  /\ Begins(l) \in Nat /\ Begins(l) <= clock + interval[l]
         /\ Calling(l) => Begins(l) = loop[l].begun
         /\ Calling(l) \/ tick[l] => Begins(l) <= clock
         /\ ~Calling(l) => clock <= Begins(l)
<1>1. /\ interval[l] \in Nat /\ (Calling(l) => loop[l].begun \in Nat)
      /\ clock \in Nat /\ due[l] \in Nat
  BY LoopType DEF IInv
<1>2. /\ clock < due[l] /\ due[l] <= clock + interval[l]
      /\ Calling(l) => loop[l].begun <= clock
  BY DEF IInv, TickerInv
<1>3. QED
  BY <1>1, <1>2 DEF Begins

-----------------------------------------------------------------------------
(* What a step leaves alone. *)

\* TypeOK and TickerInv, loop by loop.
TypedLoop(l) ==
  IF interval[l] = None THEN loop[l] = Off ELSE loop[l] = Select \/
    /\ loop[l] \in [step : {"call"}, begun : Time, served : 0..edits \cup {None}]
    /\ clock <= loop[l].begun + RequestTimeout
TimedLoop(l) ==
  loop[l] # Off =>
    /\ clock < due[l] /\ due[l] <= clock + interval[l]
    /\ Calling(l) =>
         /\ since <= loop[l].begun /\ loop[l].begun <= clock
         /\ tick[l] \/ due[l] <= loop[l].begun + interval[l]

LEMMA SyncKept ==
  ASSUME SyncInv, loop'["sync"] = loop["sync"], tick'["sync"] = tick["sync"],
         due'["sync"] = due["sync"], failed'["sync"] = failed["sync"],
         UNCHANGED <<clock, interval, polledAt, edits, enforced, editedAt, since>>
  PROVE  SyncInv'
<1>1. Calling("sync")' = Calling("sync") /\ Begins("sync")' = Begins("sync")
      /\ Gap("sync")' = Gap("sync")
  BY SameTimes DEF Loop
<1>2. QED
  BY <1>1 DEF SyncInv

LEMMA StatsKept ==
  ASSUME IInv, loop'["stats"] = loop["stats"], tick'["stats"] = tick["stats"],
         due'["stats"] = due["stats"], failed'["stats"] = failed["stats"],
         UNCHANGED <<clock, interval, since>>,
         lastRow' = lastRow \/ lastRow' = clock
  PROVE  StatsInv'
<1>1. Calling("stats")' = Calling("stats") /\ Begins("stats")' = Begins("stats")
      /\ Gap("stats")' = Gap("stats")
  BY SameTimes DEF Loop
<1>2. CASE lastRow' = lastRow
  BY <1>1, <1>2 DEF IInv, StatsInv
<1>3. CASE lastRow' = clock
  <2> SUFFICES ASSUME loop.stats # Off
               PROVE  /\ Calling("stats") => lastRow' # None /\ loop.stats.begun <= lastRow'
                      /\ \/ Begins("stats") <= since + failed.stats * Gap("stats")
                         \/ /\ lastRow' # None
                            /\ Begins("stats") <= lastRow' + (failed.stats + 1) * Gap("stats")
    BY <1>1 DEF StatsInv
  <2>1. /\ clock \in Nat /\ failed.stats \in Nat /\ Gap("stats") \in Nat
        /\ Begins("stats") \in Nat /\ (Calling("stats") => Begins("stats") = loop.stats.begun)
        /\ (Calling("stats") => Begins("stats") <= clock)
        /\ (lastRow # None => lastRow \in Nat /\ lastRow <= clock)
    BY LoopType, BeginsType, Numbers DEF IInv, Loop, PastInv
  <2>2. (failed.stats + 1) * Gap("stats") \in Nat
    BY <2>1, OneMore
  <2>3. lastRow' # None
    BY <1>3, <2>1, Constants
  <2>4. lastRow # None /\ Begins("stats") <= lastRow + (failed.stats + 1) * Gap("stats")
          => Begins("stats") <= lastRow' + (failed.stats + 1) * Gap("stats")
    BY <1>3, <2>1, <2>2
  <2>5. QED
    BY <1>3, <2>1, <2>3, <2>4 DEF IInv, StatsInv
<1>4. QED
  BY <1>2, <1>3

\* The page and the past, while the clock and the page stand still.
LEMMA PageKept ==
  ASSUME IInv, UNCHANGED <<clock, up, since, shown, refresh>>,
         lastRow' = lastRow \/ (lastRow' = clock /\ (~up => clock <= since + Latency)),
         orphan' = orphan \/ orphan' = None
  PROVE  PageInv'
<1>1. clock \in Nat /\ (lastRow # None => lastRow \in Nat /\ lastRow <= clock)
  BY Numbers DEF IInv, PastInv
<1>2. clock # None /\ Stale \in Nat /\ clock - (clock % RefreshEvery) \in Int
  BY <1>1, Constants
<1>3. QED
  BY <1>1, <1>2 DEF IInv, PageInv

-----------------------------------------------------------------------------
(* The steps of a loop. *)

LEMMA BeginStep ==
  ASSUME IInv, NEW l \in Loop, Begin(l)
  PROVE  IInv'
<1>0. TypeOK /\ PastInv /\ TickerInv /\ SyncInv /\ StatsInv /\ PageInv
  BY DEF IInv
<1>1. /\ loop[l] = Select /\ tick[l] /\ loop[l] # Off /\ ~Calling(l)
      /\ tick' = [tick EXCEPT ![l] = FALSE] /\ loop' = [loop EXCEPT ![l] = Call]
      /\ polledAt' = (IF l = "sync" THEN clock ELSE polledAt)
      /\ UNCHANGED <<clock, up, interval, starts, since, due, edits, enforced, editedAt,
                     failed, lastRow, orphan, shown, refresh>>
  BY DEF Begin, collector, rulesets, beats, page, Select, Off, Calling
<1>2. /\ loop'[l] = Call /\ tick'[l] = FALSE /\ DOMAIN loop' = Loop
      /\ \A m \in Loop \ {l} : loop'[m] = loop[m] /\ tick'[m] = tick[m]
      /\ tick' \in [Loop -> BOOLEAN]
  BY <1>0, <1>1 DEF TypeOK, TickerInv
<1>3. /\ clock \in Nat /\ clock \in Time /\ interval[l] \in Nat /\ interval[l] # None
      /\ Gap(l) \in Nat /\ failed[l] \in Nat /\ since \in Nat /\ since <= clock
  BY <1>0, <1>1, LoopType, Numbers, Constants DEF TypeOK, PastInv
<1>4. /\ Call \in [step : {"call"}, begun : Time, served : 0..edits \cup {None}]
      /\ Call.begun = clock /\ Call.served = None /\ Call.step = "call" /\ Call # Off
  BY <1>3 DEF Call, Off
<1>5. Begins(l) = clock /\ Calling(l)' /\ Begins(l)' = clock /\ Gap(l)' = Gap(l)
  BY <1>1, <1>2, <1>4 DEF Begins, Calling, Gap
<1>6. TypeOK'
  <2>1. \A m \in Loop : TypedLoop(m)'
    <3> SUFFICES ASSUME NEW m \in Loop PROVE TypedLoop(m)'
      OBVIOUS
    <3>1. CASE m = l
      BY <3>1, <1>1, <1>2, <1>3, <1>4, Constants DEF TypedLoop, Time
    <3>2. CASE m # l
      BY <3>2, <1>0, <1>1, <1>2 DEF TypedLoop, TypeOK
    <3>3. QED
      BY <3>1, <3>2
  <2>2. {since', editedAt', polledAt'} \subseteq Time
    BY <1>0, <1>1, <1>3 DEF TypeOK
  <2>3. QED
    BY <1>0, <1>1, <1>2, <2>1, <2>2 DEF TypeOK, TypedLoop
<1>7. PastInv'
  BY <1>0, <1>1 DEF PastInv
<1>8. TickerInv'
  <2>1. \A m \in Loop : TimedLoop(m)'
    <3> SUFFICES ASSUME NEW m \in Loop PROVE TimedLoop(m)'
      OBVIOUS
    <3>1. CASE m = l
      BY <3>1, <1>0, <1>1, <1>2, <1>3, <1>4 DEF TimedLoop, TickerInv
    <3>2. CASE m # l
      BY <3>2, <1>0, <1>1, <1>2 DEF TimedLoop, TickerInv, Calling
    <3>3. QED
      BY <3>1, <3>2
  <2>2. QED
    BY <1>2, <2>1 DEF TickerInv, TimedLoop
<1>9. SyncInv'
  <2>1. CASE l = "sync"
    BY <2>1, <1>0, <1>1, <1>2, <1>3, <1>4, <1>5 DEF SyncInv
  <2>2. CASE l # "sync"
    BY <2>2, <1>0, <1>1, <1>2, SyncKept DEF Loop
  <2>3. QED
    BY <2>1, <2>2
<1>10. StatsInv'
  <2>1. CASE l = "stats"
    BY <2>1, <1>0, <1>1, <1>2, <1>3, <1>4, <1>5 DEF StatsInv
  <2>2. CASE l # "stats"
    BY <2>2, <1>1, <1>2, StatsKept DEF Loop
  <2>3. QED
    BY <2>1, <2>2
<1>11. PageInv'
  BY <1>1, PageKept
<1>12. QED
  BY <1>6, <1>7, <1>8, <1>9, <1>10, <1>11 DEF IInv

LEMMA ServeStep ==
  ASSUME IInv, NEW l \in Loop, Serve(l)
  PROVE  IInv'
<1> DEFINE answer == IF l = "sync" THEN edits ELSE 0
<1>0. TypeOK /\ PastInv /\ TickerInv /\ SyncInv /\ StatsInv /\ PageInv
  BY DEF IInv
<1>1. /\ Calling(l) /\ loop[l] # Off /\ loop[l].served = None
      /\ loop' = [loop EXCEPT ![l].served = answer]
      /\ lastRow' = (IF l = "stats" THEN clock ELSE lastRow)
      /\ UNCHANGED <<clock, up, interval, starts, since, due, tick, edits, enforced, editedAt,
                     polledAt, failed, orphan, shown, refresh>>
  BY DEF Serve, Answerable, Calling, collector, rulesets, calls, page, Off
<1>2. /\ up /\ loop[l] \in [step : {"call"}, begun : Time, served : 0..edits \cup {None}]
      /\ clock \in Nat /\ edits \in Nat /\ interval[l] \in Nat
      /\ loop[l].begun \in Nat /\ loop[l].begun <= clock
      /\ clock <= loop[l].begun + RequestTimeout /\ interval[l] # None
  BY <1>0, <1>1, LoopType, Numbers, Constants DEF TickerInv
<1>3. answer \in 0..edits /\ answer \in Nat /\ answer # None
  BY <1>2, Constants
<1>4. /\ loop'[l] = [loop[l] EXCEPT !.served = answer] /\ DOMAIN loop' = Loop
      /\ \A m \in Loop \ {l} : loop'[m] = loop[m]
  BY <1>0, <1>1 DEF TickerInv
<1> HIDE DEF answer
<1>5. /\ loop'[l] \in [step : {"call"}, begun : Time, served : 0..edits \cup {None}]
      /\ loop'[l].step = "call" /\ loop'[l].begun = loop[l].begun /\ loop'[l].served = answer
      /\ loop'[l] # Off
  BY <1>2, <1>3, <1>4 DEF Off
<1>6. Calling(l)' /\ Begins(l)' = Begins(l) /\ Gap(l)' = Gap(l) /\ Begins(l) = loop[l].begun
  BY <1>1, <1>5 DEF Calling, Begins, Gap
<1>7. TypeOK'
  <2>1. \A m \in Loop : TypedLoop(m)'
    <3> SUFFICES ASSUME NEW m \in Loop PROVE TypedLoop(m)'
      OBVIOUS
    <3>1. CASE m = l
      BY <3>1, <1>1, <1>2, <1>5 DEF TypedLoop, Time
    <3>2. CASE m # l
      BY <3>2, <1>0, <1>1, <1>4 DEF TypedLoop, TypeOK
    <3>3. QED
      BY <3>1, <3>2
  <2>2. lastRow' \in Time \cup {None}
    BY <1>0, <1>1 DEF TypeOK
  <2>3. QED
    BY <1>0, <1>1, <2>1, <2>2 DEF TypeOK, TypedLoop
<1>8. PastInv'
  BY <1>0, <1>1, <1>2 DEF PastInv
<1>9. TickerInv'
  <2>1. \A m \in Loop : TimedLoop(m)'
    <3> SUFFICES ASSUME NEW m \in Loop PROVE TimedLoop(m)'
      OBVIOUS
    <3>1. CASE m = l
      BY <3>1, <1>0, <1>1, <1>5, <1>6 DEF TimedLoop, TickerInv
    <3>2. CASE m # l
      BY <3>2, <1>0, <1>1, <1>4 DEF TimedLoop, TickerInv, Calling
    <3>3. QED
      BY <3>1, <3>2
  <2>2. QED
    BY <1>4, <2>1 DEF TickerInv, TimedLoop
<1>10. SyncInv'
  <2>1. CASE l = "sync"
    <3>1. loop'["sync"].served = edits
      BY <2>1, <1>5 DEF answer
    <3>2. QED
      BY <2>1, <3>1, <1>0, <1>1, <1>5, <1>6 DEF SyncInv
  <2>2. CASE l # "sync"
    BY <2>2, <1>0, <1>1, <1>4, SyncKept DEF Loop
  <2>3. QED
    BY <2>1, <2>2
<1>11. StatsInv'
  <2>1. CASE l = "stats"
    <3>1. /\ lastRow' = clock /\ clock # None /\ failed.stats \in Nat /\ Gap("stats") \in Nat
          /\ (lastRow # None => lastRow \in Nat /\ lastRow <= clock)
      BY <2>1, <1>0, <1>1, <1>2, LoopType, Numbers, Constants DEF PastInv
    <3>2. (failed.stats + 1) * Gap("stats") \in Nat
      BY <3>1, OneMore
    <3>3. QED
      BY <2>1, <3>1, <3>2, <1>0, <1>1, <1>2, <1>5, <1>6 DEF StatsInv
  <2>2. CASE l # "stats"
    BY <2>2, <1>1, <1>4, StatsKept DEF Loop
  <2>3. QED
    BY <2>1, <2>2
<1>12. PageInv'
  BY <1>1, <1>2, PageKept
<1>13. QED
  BY <1>7, <1>8, <1>9, <1>10, <1>11, <1>12 DEF IInv

\* A loop that goes back to select keeps the types and its ticker.
LEMMA BackToSelect ==
  ASSUME IInv, NEW l \in Loop, Calling(l), loop' = [loop EXCEPT ![l] = Select],
         UNCHANGED <<clock, up, interval, starts, since, due, tick, edits, editedAt,
                     polledAt, lastRow, orphan, shown, refresh>>,
         enforced' \in 0..edits, failed' \in [Loop -> Nat]
  PROVE  /\ TypeOK' /\ PastInv' /\ TickerInv' /\ PageInv'
         /\ loop'[l] = Select /\ \A m \in Loop \ {l} : loop'[m] = loop[m]
<1>0. TypeOK /\ PastInv /\ TickerInv
  BY DEF IInv
<1>1. loop[l] # Off /\ Select # Off /\ Select.step # "call"
  BY DEF Calling, Off, Select
<1>2. loop'[l] = Select /\ DOMAIN loop' = Loop /\ \A m \in Loop \ {l} : loop'[m] = loop[m]
  BY <1>0 DEF TickerInv
<1>3. up /\ interval[l] # None
  BY <1>0, <1>1, LoopType, Constants
<1>4. TypeOK'
  <2>1. \A m \in Loop : TypedLoop(m)'
    BY <1>0, <1>2, <1>3 DEF TypedLoop, TypeOK
  <2>2. QED
    BY <1>0, <2>1 DEF TypeOK, TypedLoop
<1>5. PastInv'
  BY <1>0, <1>3 DEF PastInv
<1>6. TickerInv'
  <2>1. \A m \in Loop : TimedLoop(m)'
    BY <1>0, <1>1, <1>2 DEF TimedLoop, TickerInv, Calling
  <2>2. QED
    BY <1>2, <2>1 DEF TickerInv, TimedLoop
<1>7. PageInv'
  BY PageKept
<1>8. QED
  BY <1>2, <1>4, <1>5, <1>6, <1>7

LEMMA AnswerStep ==
  ASSUME IInv, NEW l \in Loop, Answer(l)
  PROVE  IInv'
<1>0. TypeOK /\ PastInv /\ TickerInv /\ SyncInv /\ StatsInv /\ PageInv
  BY DEF IInv
<1>1. /\ Calling(l) /\ loop[l] # Off /\ loop[l].served # None
      /\ clock <= loop[l].begun + Latency
      /\ loop' = [loop EXCEPT ![l] = Select]
      /\ enforced' = (IF l = "sync" THEN loop[l].served ELSE enforced)
      /\ failed' = [failed EXCEPT ![l] = 0]
      /\ UNCHANGED <<clock, up, interval, starts, since, due, tick, edits, editedAt,
                     polledAt, lastRow, orphan, shown, refresh>>
  BY DEF Answer, Answerable, Calling, collector, beats, page, Off
<1>2. /\ loop[l].served \in 0..edits /\ loop[l].begun \in Nat /\ interval[l] \in Nat
      /\ Gap(l) \in Nat /\ failed[l] \in Nat /\ Gap(l) >= interval[l] /\ Gap(l) >= RequestTimeout
  BY <1>0, <1>1, LoopType
<1>3. /\ enforced' \in 0..edits /\ failed' \in [Loop -> Nat] /\ failed'[l] = 0
      /\ \A m \in Loop \ {l} : failed'[m] = failed[m]
  BY <1>0, <1>1, <1>2 DEF TypeOK
<1>4. /\ TypeOK' /\ PastInv' /\ TickerInv' /\ PageInv'
      /\ loop'[l] = Select /\ \A m \in Loop \ {l} : loop'[m] = loop[m]
  BY <1>1, <1>3, BackToSelect
<1>5. /\ ~Calling(l)' /\ Begins(l)' \in Nat
      /\ Begins(l)' <= loop[l].begun + Gap(l)
      /\ Begins(l)' <= loop[l].begun + Longer(interval[l], Latency)
      /\ Gap(l)' = Gap(l)
  BY <1>1, <1>4, CallEnds DEF Gap
<1>6. SyncInv'
  <2>1. CASE l = "sync"
    <3>1. polledAt = loop[l].begun
      BY <2>1, <1>0, <1>1 DEF SyncInv
    <3>2. ASSUME enforced' # edits
          PROVE  Begins(l)' <= Longer(editedAt, since) + 0 * Gap(l)
                   + (IF editedAt < since THEN 0 ELSE Longer(interval[l], Latency))
      <4>1. loop[l].served # edits
        BY <2>1, <3>2, <1>1
      <4>2. loop[l].begun <= editedAt /\ since <= loop[l].begun
        BY <2>1, <4>1, <1>0, <1>1 DEF SyncInv, TickerInv
      <4>3. /\ editedAt \in Nat /\ since \in Nat
            /\ Longer(editedAt, since) = IF editedAt >= since THEN editedAt ELSE since
            /\ Longer(interval[l], Latency)
                 = IF interval[l] >= Latency THEN interval[l] ELSE Latency
        BY <1>0, <1>2, Numbers, LongerType, Constants
      <4>4. QED
        BY <4>2, <4>3, <1>2, <1>5, Constants
    <3>3. QED
      BY <2>1, <3>1, <3>2, <1>1, <1>3, <1>5 DEF SyncInv
  <2>2. CASE l # "sync"
    BY <2>2, <1>0, <1>1, <1>3, <1>4, SyncKept DEF Loop
  <2>3. QED
    BY <2>1, <2>2
<1>7. StatsInv'
  <2>1. CASE l = "stats"
    <3>1. lastRow # None /\ loop[l].begun <= lastRow /\ lastRow \in Nat
      BY <2>1, <1>0, <1>1, Numbers DEF StatsInv
    <3>2. Begins(l)' <= lastRow + (0 + 1) * Gap(l)
      BY <3>1, <1>2, <1>5
    <3>3. QED
      BY <2>1, <3>1, <3>2, <1>1, <1>3, <1>5 DEF StatsInv
  <2>2. CASE l # "stats"
    BY <2>2, <1>1, <1>3, <1>4, StatsKept DEF Loop
  <2>3. QED
    BY <2>1, <2>2
<1>8. QED
  BY <1>4, <1>6, <1>7 DEF IInv

LEMMA FailStep ==
  ASSUME IInv, NEW l \in Loop, Fail(l)
  PROVE  IInv'
<1>0. TypeOK /\ PastInv /\ TickerInv /\ SyncInv /\ StatsInv /\ PageInv
  BY DEF IInv
<1>1. /\ Calling(l) /\ loop[l] # Off
      /\ loop' = [loop EXCEPT ![l] = Select]
      /\ failed' = [failed EXCEPT ![l] = failed[l] + 1]
      /\ UNCHANGED <<clock, up, interval, starts, since, due, tick, edits, enforced, editedAt,
                     polledAt, lastRow, orphan, shown, refresh>>
  BY DEF Fail, Calling, collector, rulesets, beats, page, Off
<1>2. /\ loop[l].begun \in Nat /\ interval[l] \in Nat
      /\ Gap(l) \in Nat /\ failed[l] \in Nat /\ Gap(l) >= interval[l] /\ Gap(l) >= RequestTimeout
      /\ Begins(l) = loop[l].begun
  BY <1>0, <1>1, LoopType, BeginsType
<1>3. /\ enforced' \in 0..edits /\ failed' \in [Loop -> Nat] /\ failed'[l] = failed[l] + 1
      /\ \A m \in Loop \ {l} : failed'[m] = failed[m]
  BY <1>0, <1>1, <1>2 DEF TypeOK
<1>4. /\ TypeOK' /\ PastInv' /\ TickerInv' /\ PageInv'
      /\ loop'[l] = Select /\ \A m \in Loop \ {l} : loop'[m] = loop[m]
  BY <1>1, <1>3, BackToSelect
<1>5. /\ ~Calling(l)' /\ Begins(l)' \in Nat
      /\ Begins(l)' <= loop[l].begun + Gap(l) /\ Gap(l)' = Gap(l)
  BY <1>1, <1>4, CallEnds DEF Gap
<1>6. /\ failed[l] * Gap(l) \in Nat /\ (failed[l] + 1) * Gap(l) = failed[l] * Gap(l) + Gap(l)
      /\ (failed[l] + 1 + 1) * Gap(l) = failed[l] * Gap(l) + Gap(l) + Gap(l)
      /\ (failed[l] + 1) * Gap(l) \in Nat
  <2> DEFINE n == failed[l]
             g == Gap(l)
  <2>1. n \in Nat /\ g \in Nat /\ n + 1 \in Nat
    BY <1>2
  <2> HIDE DEF n, g
  <2>2. n * g \in Nat /\ (n + 1) * g = n * g + g
    BY <2>1, OneMore
  <2>3. (n + 1) * g \in Nat /\ (n + 1 + 1) * g = (n + 1) * g + g
    BY <2>1, OneMore
  <2>4. n * g \in Nat /\ (n + 1) * g = n * g + g /\ (n + 1 + 1) * g = n * g + g + g
        /\ (n + 1) * g \in Nat
    BY <2>2, <2>3
  <2>5. QED
    BY <2>4 DEF n, g
<1>7. SyncInv'
  <2>1. CASE l = "sync"
    <3>1. polledAt = loop[l].begun
      BY <2>1, <1>0, <1>1 DEF SyncInv
    <3> DEFINE base == Longer(editedAt, since)
               wait == IF editedAt < since THEN 0 ELSE Longer(interval[l], Latency)
    <3>2. base \in Nat /\ wait \in Nat
      BY <1>0, <1>2, Numbers, LongerType, Constants
    <3>3. ASSUME enforced # edits
          PROVE  Begins(l)' <= base + (failed[l] + 1) * Gap(l) + wait
      <4>1. loop[l].begun <= base + failed[l] * Gap(l) + wait
        BY <2>1, <3>3, <1>0, <1>1, <1>2 DEF SyncInv
      <4> HIDE DEF base, wait
      <4>2. QED
        BY <4>1, <3>2, <1>2, <1>5, <1>6
    <3>4. QED
      BY <2>1, <3>1, <3>3, <1>1, <1>3, <1>5 DEF SyncInv
  <2>2. CASE l # "sync"
    BY <2>2, <1>0, <1>1, <1>3, <1>4, SyncKept DEF Loop
  <2>3. QED
    BY <2>1, <2>2
<1>8. StatsInv'
  <2>1. CASE l = "stats"
    <3>1. \/ loop[l].begun <= since + failed[l] * Gap(l)
          \/ lastRow # None /\ loop[l].begun <= lastRow + (failed[l] + 1) * Gap(l)
      BY <2>1, <1>0, <1>1, <1>2 DEF StatsInv
    <3>2. since \in Nat /\ (lastRow # None => lastRow \in Nat)
      BY <1>0, Numbers
    <3>3. \/ Begins(l)' <= since + (failed[l] + 1) * Gap(l)
          \/ lastRow # None /\ Begins(l)' <= lastRow + (failed[l] + 1 + 1) * Gap(l)
      BY <3>1, <3>2, <1>2, <1>5, <1>6
    <3>4. QED
      BY <2>1, <3>3, <1>1, <1>3, <1>5 DEF StatsInv
  <2>2. CASE l # "stats"
    BY <2>2, <1>1, <1>3, <1>4, StatsKept DEF Loop
  <2>3. QED
    BY <2>1, <2>2
<1>9. QED
  BY <1>4, <1>7, <1>8 DEF IInv

-----------------------------------------------------------------------------
(* The other steps. *)

LEMMA StoreOrphanStep ==
  ASSUME IInv, StoreOrphan
  PROVE  IInv'
<1>0. TypeOK /\ PastInv /\ TickerInv /\ SyncInv /\ StatsInv /\ PageInv
  BY DEF IInv
<1>1. /\ orphan # None /\ clock <= orphan /\ lastRow' = clock /\ orphan' = None
      /\ UNCHANGED <<clock, up, interval, starts, since, loop, due, tick, edits, enforced,
                     editedAt, polledAt, failed, shown, refresh>>
  BY DEF StoreOrphan, collector, loops, rulesets, calls, page
<1>2. TypeOK'
  BY <1>0, <1>1 DEF TypeOK
<1>3. PastInv'
  BY <1>0, <1>1, Numbers DEF PastInv
<1>4. TickerInv' /\ SyncInv'
  BY <1>0, <1>1, SyncKept DEF TickerInv, Calling
<1>5. StatsInv'
  BY <1>1, StatsKept
<1>6. ~up => clock <= since + Latency
  BY <1>0, <1>1, Numbers, Constants DEF PageInv
<1>7. PageInv'
  BY <1>1, <1>6, PageKept
<1>8. QED
  BY <1>2, <1>3, <1>4, <1>5, <1>7 DEF IInv

LEMMA EditStep ==
  ASSUME IInv, Edit
  PROVE  IInv'
<1>0. TypeOK /\ PastInv /\ TickerInv /\ SyncInv /\ StatsInv /\ PageInv
  BY DEF IInv
<1>1. /\ edits < MaxEdits /\ edits' = edits + 1 /\ editedAt' = clock
      /\ failed' = [failed EXCEPT !["sync"] = 0]
      /\ UNCHANGED <<clock, up, interval, starts, since, loop, due, tick, enforced,
                     polledAt, lastRow, orphan, shown, refresh>>
  BY DEF Edit, collector, loops, beats, page
<1>2. /\ failed' \in [Loop -> Nat] /\ failed'["sync"] = 0 /\ failed'["stats"] = failed["stats"]
      /\ edits \in Nat /\ edits' \in 0..MaxEdits /\ enforced \in 0..edits'
      /\ \A n \in 0..edits : n \in 0..edits'
      /\ clock \in Time /\ clock \in Nat /\ since \in Nat
  BY <1>0, <1>1, Constants DEF TypeOK, Loop, Time
<1>3. TypeOK'
  <2>1. \A m \in Loop : TypedLoop(m)'
    BY <1>0, <1>1, <1>2 DEF TypedLoop, TypeOK
  <2>2. QED
    BY <1>0, <1>1, <1>2, <2>1 DEF TypeOK, TypedLoop
<1>4. PastInv'
  <2>1. ASSUME ~up PROVE failed' = Every(0)
    <3>1. failed = Every(0)
      BY <2>1, <1>0 DEF PastInv
    <3>2. failed'["stats"] = 0
      BY <3>1, <1>2 DEF Every, Loop
    <3>3. QED
      BY <3>2, <1>2 DEF Every, Loop
  <2>2. QED
    BY <2>1, <1>0, <1>1, <1>2 DEF PastInv
<1>5. TickerInv'
  BY <1>0, <1>1 DEF TickerInv, Calling
<1>6. SyncInv'
  <2> SUFFICES ASSUME loop["sync"] # Off PROVE SyncInv'
    BY <1>1 DEF SyncInv
  <2>1. /\ Calling("sync")' = Calling("sync") /\ Begins("sync")' = Begins("sync")
        /\ Gap("sync")' = Gap("sync")
    BY <1>1, SameTimes DEF Loop
  <2>2. /\ Begins("sync") \in Nat /\ Begins("sync") <= clock + interval["sync"]
        /\ interval["sync"] \in Nat /\ Gap("sync") \in Nat
        /\ Calling("sync") => /\ Begins("sync") <= clock /\ loop["sync"].begun <= clock
    BY <1>0, LoopType, BeginsType DEF Loop, TickerInv
  <2>3. /\ Longer(clock, since) = clock /\ ~(clock < since)
        /\ Longer(interval["sync"], Latency) >= interval["sync"]
        /\ Longer(interval["sync"], Latency) \in Nat
    BY <1>0, <1>2, <2>2, LongerType, Constants DEF PastInv
  <2>4. Begins("sync") <= Longer(clock, since) + 0 * Gap("sync")
          + (IF clock < since THEN 0 ELSE Longer(interval["sync"], Latency))
    BY <2>2, <2>3, <1>2
  <2>5. QED
    BY <1>0, <1>1, <1>2, <2>1, <2>2, <2>4 DEF SyncInv
<1>7. StatsInv'
  BY <1>1, <1>2, StatsKept
<1>8. PageInv'
  BY <1>1, PageKept
<1>9. QED
  BY <1>3, <1>4, <1>5, <1>6, <1>7, <1>8 DEF IInv

LEMMA RefreshStep ==
  ASSUME IInv, Refresh
  PROVE  IInv'
<1>0. TypeOK /\ PastInv /\ TickerInv /\ SyncInv /\ StatsInv /\ PageInv
  BY DEF IInv
<1>1. /\ refresh /\ refresh' = FALSE /\ shown' = Online
      /\ UNCHANGED <<clock, up, interval, starts, since, loop, due, tick, edits, enforced,
                     editedAt, polledAt, failed, lastRow, orphan>>
  BY DEF Refresh, collector, loops, rulesets, calls, beats
<1>2. TypeOK'
  BY <1>0, <1>1 DEF TypeOK, Online, Fresh
<1>3. PastInv' /\ TickerInv' /\ SyncInv'
  BY <1>0, <1>1, SyncKept DEF PastInv, TickerInv, Calling
<1>4. StatsInv'
  BY <1>1, StatsKept
<1>5. PageInv'
  <2>1. clock % RefreshEvery = 0 /\ clock \in Nat /\ (lastRow # None => lastRow \in Nat)
    BY <1>0, <1>1, Numbers DEF PageInv
  <2>2. shown' => lastRow # None /\ clock - lastRow < Stale
    BY <1>1 DEF Online, Fresh
  <2>3. shown' => lastRow # None /\ clock - (clock % RefreshEvery) - lastRow < Stale
    BY <2>1, <2>2
  <2>4. ~up => /\ lastRow # None => lastRow <= since + Latency
               /\ orphan # None => orphan <= since + Latency
    BY <1>0 DEF PageInv
  <2>5. QED
    BY <2>3, <2>4, <1>1 DEF PageInv
<1>6. QED
  BY <1>2, <1>3, <1>4, <1>5 DEF IInv
LEMMA DieStep ==
  ASSUME IInv, Die
  PROVE  IInv'
<1>0. TypeOK /\ PastInv /\ TickerInv /\ SyncInv /\ StatsInv /\ PageInv
  BY DEF IInv
<1>1. /\ up' = FALSE /\ interval' = Every(None) /\ since' = clock
      /\ loop' = Every(Off) /\ due' = Every(0) /\ tick' = Every(FALSE)
      /\ enforced' = 0 /\ polledAt' = 0 /\ failed' = Every(0)
      /\ orphan' = IF loop["stats"].step = "call" /\ loop["stats"].served = None
                   THEN loop["stats"].begun + Latency ELSE None
      /\ UNCHANGED <<clock, starts, edits, editedAt, lastRow, shown, refresh>>
  BY DEF Die, page
<1>2. /\ \A l \in Loop : loop'[l] = Off /\ interval'[l] = None /\ ~Calling(l)'
      /\ DOMAIN loop' = Loop /\ due' \in [Loop -> Nat] /\ tick' \in [Loop -> BOOLEAN]
      /\ failed' \in [Loop -> Nat]
  BY <1>1 DEF Every, Calling, Off
<1>3. /\ clock \in Time /\ clock \in Nat /\ 0 \in Time /\ edits \in Nat
      /\ (lastRow # None => lastRow \in Nat /\ lastRow <= clock)
  BY <1>0, Numbers, Constants DEF TypeOK, Time, PastInv
<1>4. orphan' # None => orphan' \in Nat /\ orphan' <= clock + Latency
  <2> SUFFICES ASSUME loop["stats"].step = "call"
               PROVE  loop["stats"].begun + Latency \in Nat
                      /\ loop["stats"].begun + Latency <= clock + Latency
    BY <1>1
  <2>1. Calling("stats") /\ loop["stats"] # Off /\ "stats" \in Loop
    BY DEF Calling, Off, Loop
  <2>2. loop["stats"].begun \in Nat /\ loop["stats"].begun <= clock
    BY <2>1, <1>0, LoopType DEF TickerInv
  <2>3. QED
    BY <2>2, <1>3, Constants
<1>5. TypeOK'
  <2>1. \A l \in Loop : TypedLoop(l)'
    BY <1>2 DEF TypedLoop
  <2>2. enforced' \in 0..edits' /\ orphan' \in Nat \cup {None}
        /\ {since', editedAt', polledAt'} \subseteq Time
    BY <1>0, <1>1, <1>3, <1>4 DEF TypeOK
  <2>3. interval' \in IF up' THEN {config \in Config : Valid(config)} ELSE {Every(None)}
    BY <1>1
  <2>4. QED
    BY <1>0, <1>1, <1>2, <2>1, <2>2, <2>3 DEF TypeOK, TypedLoop
<1>6. PastInv'
  BY <1>0, <1>1, <1>3 DEF PastInv
<1>7. TickerInv' /\ SyncInv' /\ StatsInv'
  BY <1>2 DEF TickerInv, SyncInv, StatsInv, Loop
<1>8. PageInv'
  BY <1>0, <1>1, <1>3, <1>4, Constants DEF PageInv
<1>9. QED
  BY <1>5, <1>6, <1>7, <1>8 DEF IInv

LEMMA StartStep ==
  ASSUME IInv, NEW config \in Config, Start(config)
  PROVE  IInv'
<1>0. TypeOK /\ PastInv /\ TickerInv /\ SyncInv /\ StatsInv /\ PageInv
  BY DEF IInv
<1>1. /\ ~up /\ starts < MaxStarts /\ Valid(config)
      /\ up' = TRUE /\ starts' = starts + 1 /\ since' = clock
      /\ interval' = config
      /\ due'  = [l \in Loop |-> IF config[l] = None THEN 0 ELSE clock + config[l]]
      /\ loop' = [l \in Loop |-> IF config[l] = None THEN Off ELSE Call]
      /\ polledAt' = clock
      /\ UNCHANGED <<clock, tick, edits, enforced, editedAt, failed, lastRow, orphan, shown, refresh>>
  BY DEF Start, rulesets, beats, page, FirstStep
<1>2. /\ clock \in Time /\ clock \in Nat /\ clock <= MaxTime /\ since \in Nat
      /\ editedAt \in Nat /\ starts \in 0..MaxStarts
  BY <1>0, Numbers, Constants DEF TypeOK, Time
<1>3. /\ Call \in [step : {"call"}, begun : Time, served : 0..edits \cup {None}]
      /\ Call.begun = clock /\ Call.served = None /\ Call.step = "call" /\ Call # Off
  BY <1>2 DEF Call, Off
<1>4. ASSUME NEW l \in Loop, config[l] # None
      PROVE  /\ config[l] \in Nat /\ config[l] >= 1
             /\ due'[l] = clock + config[l] /\ loop'[l] = Call /\ failed[l] = 0
             /\ Calling(l)' /\ Begins(l)' = clock /\ Gap(l)' \in Nat
  <2>1. config[l] \in Nat /\ config[l] >= 1
    BY <1>1, <1>4, ConfigType
  <2>2. due'[l] = clock + config[l] /\ loop'[l] = Call
    BY <1>1, <1>4
  <2>3. failed[l] = 0
    BY <1>0, <1>1 DEF PastInv, Every
  <2>4. Calling(l)' /\ Begins(l)' = clock
    BY <2>2, <1>3 DEF Calling, Begins
  <2>5. Gap(l)' \in Nat
    BY <2>1, <1>1, LongerType, Constants DEF Gap
  <2>6. QED
    BY <2>1, <2>2, <2>3, <2>4, <2>5
<1>5. \A l \in Loop : config[l] = None => due'[l] = 0 /\ loop'[l] = Off
  BY <1>1
<1>6. TypeOK'
  <2>1. \A l \in Loop : TypedLoop(l)'
    BY <1>1, <1>2, <1>3, <1>4, <1>5, Constants DEF TypedLoop
  <2>2. due' \in [Loop -> Nat]
    BY <1>1, <1>2, <1>4
  <2>3. starts' \in 0..MaxStarts
    BY <1>1, <1>2, Constants
  <2>4. {since', editedAt', polledAt'} \subseteq Time
    BY <1>0, <1>1, <1>2 DEF TypeOK
  <2>5. QED
    BY <1>0, <1>1, <2>1, <2>2, <2>3, <2>4 DEF TypeOK, TypedLoop
<1>7. PastInv'
  BY <1>0, <1>1, <1>2 DEF PastInv
<1>8. TickerInv'
  <2>1. \A l \in Loop : TimedLoop(l)'
    BY <1>1, <1>2, <1>3, <1>4, <1>5 DEF TimedLoop
  <2>2. QED
    BY <1>1, <2>1 DEF TickerInv, TimedLoop
<1>9. SyncInv'
  <2> SUFFICES ASSUME loop'["sync"] # Off PROVE SyncInv'
    BY DEF SyncInv
  <2>1. "sync" \in Loop /\ config["sync"] # None
    BY <1>5 DEF Loop
  <2>2. Longer(editedAt, clock) \in Nat /\ Longer(editedAt, clock) >= clock
    BY <1>2, LongerType
  <2>3. Longer(config["sync"], Latency) \in Nat
    BY <2>1, <1>4, LongerType, Constants
  <2>4. clock <= Longer(editedAt, clock) + 0 * Gap("sync")'
                   + (IF editedAt < clock THEN 0 ELSE Longer(config["sync"], Latency))
    BY <2>1, <2>2, <2>3, <1>2, <1>4
  <2>5. QED
    BY <2>1, <2>4, <1>1, <1>3, <1>4 DEF SyncInv
<1>10. StatsInv'
  <2> SUFFICES ASSUME loop'["stats"] # Off PROVE StatsInv'
    BY DEF StatsInv
  <2>1. "stats" \in Loop /\ config["stats"] # None
    BY <1>5 DEF Loop
  <2>2. clock <= clock + 0 * Gap("stats")'
    BY <2>1, <1>2, <1>4
  <2>3. QED
    BY <2>1, <2>2, <1>1, <1>3, <1>4 DEF StatsInv
<1>11. PageInv'
  BY <1>0, <1>1 DEF PageInv
<1>12. QED
  BY <1>6, <1>7, <1>8, <1>9, <1>10, <1>11 DEF IInv

\* Between two refreshes the last one stays where it is.
LEMMA LastRefresh ==
  ASSUME NEW t \in Nat, NEW r \in Nat, r >= 1, (t + 1) % r # 0
  PROVE  (t + 1) - ((t + 1) % r) = t - (t % r)
<1> DEFINE q == t \div r
           m == t % r
           k == (t + 1) \div r
           n == (t + 1) % r
<1>1. /\ q \in Int /\ m \in Int /\ 0 <= m /\ m < r /\ t = r * q + m
      /\ k \in Int /\ n \in Int /\ 0 <= n /\ n < r /\ t + 1 = r * k + n /\ n # 0
  OBVIOUS
<1> HIDE DEF q, m, k, n
<1>2. r * (k - q) = r * k - r * q /\ r * (q - k) = r * q - r * k
  BY <1>1
<1>3. ASSUME k > q PROVE FALSE
  <2>1. r * (k - q) >= r
    BY <1>1, <1>3
  <2>2. r * k \in Int /\ r * q \in Int
    BY <1>1
  <2>3. QED
    BY <2>1, <2>2, <1>1, <1>2
<1>4. ASSUME q > k PROVE FALSE
  <2>1. r * (q - k) >= r
    BY <1>1, <1>4
  <2>2. r * k \in Int /\ r * q \in Int
    BY <1>1
  <2>3. QED
    BY <2>1, <2>2, <1>1, <1>2
<1>5. k = q
  BY <1>1, <1>3, <1>4
<1>6. QED
  BY <1>1, <1>5 DEF m, n
LEMMA ElapseStep ==
  ASSUME IInv, Elapse
  PROVE  IInv'
<1>0. TypeOK /\ PastInv /\ TickerInv /\ SyncInv /\ StatsInv /\ PageInv
  BY DEF IInv
<1>1. /\ clock < MaxTime /\ clock' = clock + 1
      /\ tick' = [l \in Loop |-> tick[l] \/ (loop[l] # Off /\ due[l] = clock')]
      /\ due'  = [l \in Loop |-> IF loop[l] # Off /\ due[l] = clock'
                                 THEN due[l] + interval[l] ELSE due[l]]
      /\ refresh' = (clock' % RefreshEvery = 0)
      /\ UNCHANGED <<up, interval, starts, since, loop, edits, enforced, editedAt,
                     polledAt, failed, lastRow, orphan, shown>>
  BY DEF Elapse, collector, rulesets, calls, beats
<1>2. /\ ~refresh
      /\ \A l \in Loop : ~TimedOut(l) /\ ~(loop[l] = Select /\ tick[l])
  BY DEF Elapse, Urgent
<1>3. /\ clock \in Nat /\ clock' \in Time /\ clock' \in Nat
      /\ since \in Nat /\ editedAt \in Nat
      /\ (lastRow # None => lastRow \in Nat)
  BY <1>0, <1>1, Numbers, Constants DEF Time
<1>4. ASSUME NEW l \in Loop, loop[l] # Off
      PROVE  /\ clock' < due'[l] /\ due'[l] <= clock' + interval[l] /\ due'[l] \in Nat
             /\ tick[l] => tick'[l]
             /\ Calling(l) =>
                  /\ clock' <= loop[l].begun + RequestTimeout
                  /\ since <= loop[l].begun /\ loop[l].begun <= clock'
                  /\ tick'[l] \/ due'[l] <= loop[l].begun + interval[l]
             /\ Calling(l)' = Calling(l) /\ Begins(l)' = Begins(l) /\ Gap(l)' = Gap(l)
  <2>1. /\ interval[l] \in Nat /\ interval[l] >= 1 /\ due[l] \in Nat
        /\ loop[l] = Select \/ Calling(l)
        /\ Calling(l) => loop[l].begun \in Nat
        /\ clock < due[l] /\ due[l] <= clock + interval[l]
        /\ Calling(l) => /\ since <= loop[l].begun /\ loop[l].begun <= clock
                         /\ tick[l] \/ due[l] <= loop[l].begun + interval[l]
    BY <1>0, <1>4, LoopType DEF TickerInv
  <2>2. tick'[l] = (tick[l] \/ due[l] = clock')
        /\ due'[l] = IF due[l] = clock' THEN due[l] + interval[l] ELSE due[l]
    BY <1>1, <1>4
  <2>3. Calling(l) => clock < loop[l].begun + RequestTimeout
    BY <1>2, <2>1, <1>3, Constants DEF TimedOut, Calling
  <2>4. clock' < due'[l] /\ due'[l] <= clock' + interval[l] /\ due'[l] \in Nat
    BY <2>1, <2>2, <1>1, <1>3
  <2>5. Calling(l) =>
          /\ clock' <= loop[l].begun + RequestTimeout
          /\ since <= loop[l].begun /\ loop[l].begun <= clock'
          /\ tick'[l] \/ due'[l] <= loop[l].begun + interval[l]
    <3>1. ASSUME Calling(l)
          PROVE  clock' <= loop[l].begun + RequestTimeout
                 /\ since <= loop[l].begun /\ loop[l].begun <= clock'
      BY <3>1, <2>1, <2>3, <1>1, <1>3, Constants
    <3>2. (tick[l] => tick'[l]) /\ (due[l] = clock' => tick'[l])
      BY <2>2
    <3>3. Calling(l) => tick'[l] \/ due'[l] <= loop[l].begun + interval[l]
      BY <3>2, <2>1, <2>2
    <3>4. QED
      BY <3>1, <3>3
  <2>6. Calling(l)' = Calling(l) /\ Gap(l)' = Gap(l)
    BY <1>1 DEF Calling, Gap
  <2>7. Calling(l) => Begins(l)' = Begins(l)
    BY <2>6, <1>1 DEF Begins
  <2>8. ASSUME ~Calling(l) PROVE Begins(l)' = Begins(l)
    <3>1. ~tick[l]
      BY <2>8, <2>1, <1>2
    <3>2. Begins(l) = due[l]
      BY <3>1, <2>8 DEF Begins
    <3>3. Begins(l)' = IF due[l] = clock' THEN clock' ELSE due[l]
      BY <3>1, <2>8, <2>6, <2>2 DEF Begins
    <3>4. QED
      BY <3>2, <3>3
  <2>9. QED
    BY <2>2, <2>4, <2>5, <2>6, <2>7, <2>8
<1>5. TypeOK'
  <2>1. \A l \in Loop : TypedLoop(l)'
    <3> SUFFICES ASSUME NEW l \in Loop PROVE TypedLoop(l)'
      OBVIOUS
    <3>1. TypedLoop(l)
      BY <1>0 DEF TypedLoop, TypeOK
    <3>2. loop[l] # Off /\ Calling(l) => clock' <= loop[l].begun + RequestTimeout
      BY <1>4
    <3>3. CASE loop[l] = Off
      BY <3>3, <3>1, <1>1 DEF TypedLoop, Off, Select
    <3>4. CASE loop[l] # Off
      <4>1. interval[l] # None /\ (loop[l] = Select \/ Calling(l))
            /\ (Calling(l) => loop[l] \in [step : {"call"}, begun : Time, served : 0..edits \cup {None}])
        BY <3>4, <1>0, LoopType DEF TypeOK
      <4>2. QED
        BY <4>1, <3>2, <3>4, <1>1 DEF TypedLoop
    <3>5. QED
      BY <3>3, <3>4
  <2>2. due' \in [Loop -> Nat]
    <3>1. \A l \in Loop : due[l] \in Nat
      BY <1>0 DEF TypeOK
    <3>2. \A l \in Loop : due'[l] \in Nat
      BY <3>1, <1>1, <1>4
    <3>3. QED
      BY <3>2, <1>1
  <2>3. tick' \in [Loop -> BOOLEAN]
    BY <1>0, <1>1 DEF TypeOK
  <2>4. refresh' \in BOOLEAN
    BY <1>1
  <2>5. QED
    BY <1>0, <1>1, <1>3, <2>1, <2>2, <2>3, <2>4 DEF TypeOK, TypedLoop
<1>6. PastInv'
  BY <1>0, <1>1, <1>3 DEF PastInv
<1>7. TickerInv'
  <2>1. \A l \in Loop : TimedLoop(l)'
    BY <1>1, <1>4 DEF TimedLoop
  <2>2. DOMAIN loop' = Loop
    BY <1>0, <1>1 DEF TickerInv
  <2>3. QED
    BY <2>1, <2>2 DEF TickerInv, TimedLoop
<1>8. SyncInv'
  <2> SUFFICES ASSUME loop["sync"] # Off PROVE SyncInv'
    BY <1>1 DEF SyncInv
  <2>1. /\ Calling("sync")' = Calling("sync") /\ Begins("sync")' = Begins("sync")
        /\ Gap("sync")' = Gap("sync")
    BY <1>4 DEF Loop
  <2>2. QED
    BY <2>1, <1>0, <1>1 DEF SyncInv
<1>9. StatsInv'
  <2> SUFFICES ASSUME loop["stats"] # Off PROVE StatsInv'
    BY <1>1 DEF StatsInv
  <2>1. /\ Calling("stats")' = Calling("stats") /\ Begins("stats")' = Begins("stats")
        /\ Gap("stats")' = Gap("stats")
    BY <1>4 DEF Loop
  <2>2. QED
    BY <2>1, <1>0, <1>1 DEF StatsInv
<1>10. PageInv'
  <2>1. ~refresh' => clock' - (clock' % RefreshEvery) = clock - (clock % RefreshEvery)
    BY <1>1, <1>3, LastRefresh, Constants
  <2>2. QED
    BY <2>1, <1>0, <1>1, <1>2 DEF PageInv
<1>11. QED
  BY <1>5, <1>6, <1>7, <1>8, <1>9, <1>10 DEF IInv

-----------------------------------------------------------------------------
(* The inductive invariant. *)

LEMMA InitIInv == Init => IInv
<1> SUFFICES ASSUME Init PROVE IInv
  OBVIOUS
<1>1. /\ clock = 0 /\ up = FALSE /\ starts = 0 /\ since = 0 /\ edits = 0 /\ enforced = 0
      /\ editedAt = 0 /\ polledAt = 0 /\ lastRow = None /\ orphan = None
      /\ shown = FALSE /\ refresh = FALSE /\ failed = Every(0) /\ interval = Every(None)
      /\ DOMAIN loop = Loop
      /\ \A l \in Loop : loop[l] = Off /\ interval[l] = None
      /\ due \in [Loop -> Nat] /\ tick \in [Loop -> BOOLEAN] /\ failed \in [Loop -> Nat]
  BY DEF Init, Every
<1>2. TypeOK
  <2>1. /\ 0 \in Time /\ 0 \in 0..MaxStarts /\ 0 \in 0..MaxEdits /\ 0 \in 0..0
        /\ {since, editedAt, polledAt} \subseteq Time
    BY <1>1, Constants DEF Time
  <2>2. \A l \in Loop : TypedLoop(l)
    BY <1>1 DEF TypedLoop
  <2>3. QED
    BY <1>1, <2>1, <2>2 DEF TypeOK, TypedLoop
<1>3. PastInv /\ TickerInv /\ SyncInv /\ StatsInv
  BY <1>1 DEF PastInv, TickerInv, SyncInv, StatsInv, Loop
<1>4. PageInv
  BY <1>1 DEF PageInv
<1>5. QED
  BY <1>2, <1>3, <1>4 DEF IInv

LEMMA SameIInv ==
  ASSUME IInv, UNCHANGED vars
  PROVE  IInv'
<1>0. TypeOK /\ PastInv /\ TickerInv /\ SyncInv /\ StatsInv /\ PageInv
  BY DEF IInv
<1>1. UNCHANGED <<clock, up, interval, starts, since, loop, due, tick, edits, enforced,
                  editedAt, polledAt, failed, lastRow, orphan, shown, refresh>>
  BY DEF vars, collector, loops, rulesets, calls, beats, page
<1>2. TypeOK'
  <2>1. \A l \in Loop : TypedLoop(l)'
    BY <1>0, <1>1 DEF TypedLoop, TypeOK
  <2>2. QED
    BY <1>0, <1>1, <2>1 DEF TypeOK, TypedLoop
<1>3. PastInv' /\ PageInv'
  BY <1>0, <1>1 DEF PastInv, PageInv
<1>4. TickerInv'
  BY <1>0, <1>1 DEF TickerInv, Calling
<1>5. SyncInv' /\ StatsInv'
  BY <1>0, <1>1, SyncKept, StatsKept
<1>6. QED
  BY <1>2, <1>3, <1>4, <1>5 DEF IInv

LEMMA NextIInv ==
  ASSUME IInv, [Next]_vars
  PROVE  IInv'
<1>1. ASSUME NEW config \in Config, Start(config) PROVE IInv'
  BY <1>1, StartStep
<1>2. CASE Die
  BY <1>2, DieStep
<1>3. CASE Elapse
  BY <1>3, ElapseStep
<1>4. CASE StoreOrphan
  BY <1>4, StoreOrphanStep
<1>5. CASE Edit
  BY <1>5, EditStep
<1>6. CASE Refresh
  BY <1>6, RefreshStep
<1>7. CASE Done \/ UNCHANGED vars
  BY <1>7, SameIInv DEF Done
<1>8. ASSUME NEW l \in Loop, Begin(l) \/ Serve(l) \/ Answer(l) \/ Fail(l) PROVE IInv'
  BY <1>8, BeginStep, ServeStep, AnswerStep, FailStep
<1>9. QED
  BY <1>1, <1>2, <1>3, <1>4, <1>5, <1>6, <1>7, <1>8 DEF Next

LEMMA Invariance == Spec => []IInv
<1>1. IInv /\ [Next]_vars => IInv'
  BY NextIInv
<1>2. QED
  BY InitIInv, <1>1, PTL DEF Spec

-----------------------------------------------------------------------------
(* The promises. *)

\* Type correctness: the variables stay within their types, and no call
\* outlives the request timeout of syncOnce and postStats.
THEOREM TypeCorrect == Spec => []TypeOK
<1>1. IInv => TypeOK
  BY DEF IInv
<1>2. QED
  BY Invariance, <1>1, PTL

\* For every interval and timeout, the sync loop polls again one interval
\* after the last poll began, or one timeout where that is longer.
THEOREM PollsKeepTime == Spec => []PollsOnTime
<1>1. ASSUME IInv, loop["sync"] # Off PROVE clock - polledAt <= Gap("sync")
  <2>1. /\ "sync" \in Loop /\ clock \in Nat /\ polledAt \in Nat /\ Gap("sync") \in Nat
        /\ Gap("sync") >= RequestTimeout
        /\ Calling("sync") => loop["sync"].begun \in Nat
                              /\ clock <= loop["sync"].begun + RequestTimeout
    BY <1>1, LoopType, Numbers DEF IInv, Loop
  <2>2. IF Calling("sync") THEN polledAt = loop["sync"].begun
        ELSE Begins("sync") <= polledAt + Gap("sync")
    BY <1>1 DEF IInv, SyncInv
  <2>3. Begins("sync") \in Nat /\ (~Calling("sync") => clock <= Begins("sync"))
    BY <1>1, BeginsType DEF Loop
  <2>4. CASE Calling("sync")
    BY <2>4, <2>1, <2>2, Constants
  <2>5. CASE ~Calling("sync")
    BY <2>5, <2>1, <2>2, <2>3
  <2>6. QED
    BY <2>4, <2>5
<1>2. IInv => PollsOnTime
  BY <1>1 DEF PollsOnTime
<1>3. QED
  BY Invariance, <1>2, PTL

\* The clock has not passed the end of the failures counted.
LEMMA FailuresCounted ==
  ASSUME IInv, NEW l \in Loop, loop[l] # Off
  PROVE  /\ Failures(l) \in Nat /\ Gap(l) \in Nat
         /\ Failures(l) * Gap(l) \in Nat /\ failed[l] * Gap(l) \in Nat
         /\ (Failures(l) + 1) * Gap(l) = Failures(l) * Gap(l) + Gap(l)
         /\ (failed[l] + 1) * Gap(l) = failed[l] * Gap(l) + Gap(l)
         /\ \/ Failures(l) = failed[l] /\ clock <= Begins(l) + Latency
            \/ /\ Failures(l) * Gap(l) = failed[l] * Gap(l) + Gap(l)
               /\ clock <= Begins(l) + Gap(l)
<1>1. /\ clock \in Nat /\ failed[l] \in Nat /\ Gap(l) \in Nat /\ Gap(l) >= RequestTimeout
      /\ Calling(l) => loop[l].begun \in Nat /\ clock <= loop[l].begun + RequestTimeout
  BY LoopType DEF IInv
<1>2. /\ Begins(l) \in Nat /\ (Calling(l) => Begins(l) = loop[l].begun)
      /\ (~Calling(l) => clock <= Begins(l))
  BY BeginsType
<1>3. Failures(l) = failed[l] + (IF Calling(l) /\ ~Answerable(l) THEN 1 ELSE 0)
  BY DEF Failures, Calling
<1>4. Calling(l) /\ Answerable(l) => clock <= Begins(l) + Latency
  BY <1>2 DEF Answerable
<1>5. Failures(l) \in Nat
  BY <1>1, <1>3
<1>6. /\ Failures(l) * Gap(l) \in Nat /\ (Failures(l) + 1) * Gap(l) = Failures(l) * Gap(l) + Gap(l)
  BY <1>1, <1>5, OneMore
<1>7. failed[l] * Gap(l) \in Nat /\ (failed[l] + 1) * Gap(l) = failed[l] * Gap(l) + Gap(l)
  BY <1>1, OneMore
<1>8. CASE Calling(l) /\ ~Answerable(l)
  <2>1. Failures(l) = failed[l] + 1
    BY <1>8, <1>3
  <2>2. Failures(l) * Gap(l) = failed[l] * Gap(l) + Gap(l)
    BY <2>1, <1>7
  <2>3. clock <= Begins(l) + Gap(l)
    BY <1>8, <1>1, <1>2, Constants
  <2>4. QED
    BY <2>2, <2>3, <1>1, <1>5, <1>6, <1>7
<1>9. CASE ~(Calling(l) /\ ~Answerable(l))
  <2>1. Failures(l) = failed[l]
    BY <1>9, <1>1, <1>3
  <2>2. clock <= Begins(l) + Latency
    BY <1>9, <1>1, <1>2, <1>4, Constants
  <2>3. QED
    BY <2>1, <2>2, <1>1, <1>5, <1>6, <1>7
<1>10. QED
  BY <1>8, <1>9

\* For every interval and timeout and however many polls fail: an edit is
\* enforced an interval and two answers later, one Gap later per failed poll.
THEOREM EditsAreEnforced == Spec => []EnforcedInTime
<1>1. ASSUME IInv, loop["sync"] # Off, enforced # edits
      PROVE  clock <= Longer(editedAt, since) + Failures("sync") * Gap("sync")
                        + (IF editedAt < since THEN Latency
                           ELSE Longer(interval["sync"], Latency) + Latency)
  <2> DEFINE base == Longer(editedAt, since)
             wait == IF editedAt < since THEN 0 ELSE Longer(interval["sync"], Latency)
             few  == failed["sync"] * Gap("sync")
             many == Failures("sync") * Gap("sync")
  <2>1. "sync" \in Loop
    BY DEF Loop
  <2>2. base \in Nat /\ wait \in Nat /\ clock \in Nat
    BY <1>1, <2>1, LoopType, Numbers, LongerType, Constants DEF IInv
  <2>3. Begins("sync") <= base + few + wait
    BY <1>1 DEF IInv, SyncInv
  <2>4. (IF editedAt < since THEN Latency ELSE Longer(interval["sync"], Latency) + Latency)
          = wait + Latency
    BY Constants
  <2>5. /\ few \in Nat /\ many \in Nat /\ Gap("sync") \in Nat
        /\ \/ many = few /\ clock <= Begins("sync") + Latency
           \/ many = few + Gap("sync") /\ clock <= Begins("sync") + Gap("sync")
    BY <1>1, <2>1, FailuresCounted
  <2>6. Begins("sync") \in Nat
    BY <1>1, <2>1, BeginsType
  <2> HIDE DEF base, wait, few, many
  <2>7. clock <= base + many + (wait + Latency)
    BY <2>2, <2>3, <2>5, <2>6, Constants
  <2>8. QED
    BY <2>4, <2>7 DEF base, many
<1>2. IInv => EnforcedInTime
  BY <1>1 DEF EnforcedInTime
<1>3. QED
  BY Invariance, <1>2, PTL

\* The dead collector: a page that was refreshed since says so, at the latest a
\* refresh after its last report has gone stale.
THEOREM DeathIsShown == Spec => []DeadShownOffline
<1>1. ASSUME IInv, ~up, ~refresh, clock >= since + Latency + Stale + RefreshEvery, shown
      PROVE  FALSE
  <2>1. /\ lastRow # None /\ clock - (clock % RefreshEvery) - lastRow < Stale
        /\ lastRow <= since + Latency
    BY <1>1 DEF IInv, PageInv
  <2>2. clock \in Nat /\ since \in Nat /\ lastRow \in Nat
    BY <1>1, <2>1, Numbers DEF IInv
  <2>3. clock % RefreshEvery \in Nat /\ clock % RefreshEvery < RefreshEvery
    BY <2>2, Constants
  <2>4. QED
    BY <1>1, <2>1, <2>2, <2>3, Constants
<1>2. IInv => DeadShownOffline
  BY <1>1 DEF DeadShownOffline
<1>3. QED
  BY Invariance, <1>2, PTL

\* A page refreshed while the collector reports says "offline" only if that
\* many reports failed that the next is due beyond HEARTBEAT_STALE_MS.
THEOREM OfflineIsEarned == Spec => OfflineMeansMissed
<1> DEFINE Earned ==
      refresh /\ ~refresh' /\ loop.stats # Off /\ ~shown' =>
        \/ (Failures("stats") + 1) * Gap("stats") + Latency >= Stale
        \/ clock - since <= Failures("stats") * Gap("stats") + Latency
<1>1. ASSUME IInv, [Next]_vars, refresh, ~refresh', loop["stats"] # Off, ~shown'
      PROVE  \/ (Failures("stats") + 1) * Gap("stats") + Latency >= Stale
             \/ clock - since <= Failures("stats") * Gap("stats") + Latency
  <2>1. Refresh
    <3>1. refresh' # refresh
      BY <1>1
    <3>2. ~Elapse
      BY <1>1 DEF Elapse, Urgent
    <3>3. QED
      BY <1>1, <3>1, <3>2 DEF Next, vars, page, Start, Die, StoreOrphan, Edit, Done,
                              Begin, Serve, Answer, Fail
  <2>2. ~(lastRow # None /\ clock - lastRow < Stale)
    BY <1>1, <2>1 DEF Refresh, Online, Fresh
  <2> DEFINE few  == failed["stats"] * Gap("stats")
             many == Failures("stats") * Gap("stats")
  <2>3. "stats" \in Loop
    BY DEF Loop
  <2>4. /\ few \in Nat /\ many \in Nat /\ Gap("stats") \in Nat
        /\ (Failures("stats") + 1) * Gap("stats") = many + Gap("stats")
        /\ (failed["stats"] + 1) * Gap("stats") = few + Gap("stats")
        /\ \/ many = few /\ clock <= Begins("stats") + Latency
           \/ many = few + Gap("stats") /\ clock <= Begins("stats") + Gap("stats")
    BY <1>1, <2>3, FailuresCounted
  <2>5. \/ Begins("stats") <= since + few
        \/ lastRow # None /\ Begins("stats") <= lastRow + (failed["stats"] + 1) * Gap("stats")
    BY <1>1 DEF IInv, StatsInv
  <2>6. /\ clock \in Nat /\ since \in Nat /\ Begins("stats") \in Nat
        /\ (lastRow # None => lastRow \in Nat)
    BY <1>1, <2>3, Numbers, BeginsType DEF IInv
  <2> HIDE DEF few, many
  <2>7. \/ many + Gap("stats") + Latency >= Stale
        \/ clock - since <= many + Latency
    BY <2>2, <2>4, <2>5, <2>6, Constants
  <2>8. QED
    BY <2>4, <2>7 DEF many
<1>2. IInv /\ [Next]_vars => [Earned]_vars
  BY <1>1
<1> HIDE DEF Earned
<1>3. Spec => [][Earned]_vars
  BY Invariance, <1>2, PTL DEF Spec
<1>4. QED
  BY <1>3 DEF Earned, OfflineMeansMissed
=============================================================================
