-------------------------- MODULE StatsReportProofs --------------------------
(***************************************************************************)
(* Conservation of telemetry counts, for any number of consume goroutines, *)
(* signals, failures and any INT4_MAX.  The inductive invariant adds to    *)
(* Conservation what the stats goroutine still owes at each of its steps.  *)
(***************************************************************************)
EXTENDS StatsReport, FiniteSets, FiniteSetTheorems, TLAPS

\* What the local `stats` may hold: nothing between reports, nothing yet for a
\* counter not drained, nothing any more for one folded back; and the wire is
\* busy only while a POST is awaited.
PayloadInv ==
  /\ reporter \in {"off", "idle"} => \A c \in Counter : payload[c] = 0
  /\ reporter = "drain" => \A i \in Drains : i >= next => payload[DrainOrder[i]] = 0
  /\ reporter = "fold"  => \A i \in Drains : i < next  => payload[DrainOrder[i]] = 0
  /\ wire # "none" => reporter = "post"

IInv == TypeOK /\ PayloadInv /\ Conservation

-----------------------------------------------------------------------------
(* The drain order visits every counter exactly once. *)

LEMMA DrainOrderType == DrainOrder \in [Drains -> Counter]
<1>1. Len(SignalOrder) \in Nat
  BY SignalOrderAssumption
<1>2. ASSUME NEW i \in Drains PROVE (i + 1) \div 2 \in 1..Len(SignalOrder)
  BY <1>1, <1>2 DEF Drains
<1>3. QED
  BY <1>2 DEF DrainOrder, Counter, Signal, Half

LEMMA DrainOrderInjective ==
  ASSUME NEW i \in Drains, NEW j \in Drains, DrainOrder[i] = DrainOrder[j]
  PROVE  i = j
<1>1. Len(SignalOrder) \in Nat
  BY SignalOrderAssumption
<1>2. /\ (i + 1) \div 2 \in 1..Len(SignalOrder)
      /\ (j + 1) \div 2 \in 1..Len(SignalOrder)
  BY <1>1 DEF Drains
<1>3. /\ SignalOrder[(i + 1) \div 2] = SignalOrder[(j + 1) \div 2]
      /\ (i % 2 = 1) <=> (j % 2 = 1)
  BY DEF DrainOrder
<1>4. (i + 1) \div 2 = (j + 1) \div 2
  BY <1>2, <1>3, SignalOrderAssumption
<1>5. QED
  BY <1>1, <1>3, <1>4 DEF Drains

LEMMA DrainOrderCovers ==
  ASSUME NEW c \in Counter
  PROVE  \E i \in Drains : DrainOrder[i] = c
<1>1. Len(SignalOrder) \in Nat
  BY SignalOrderAssumption
<1>2. PICK k \in 1..Len(SignalOrder) :
        c = <<SignalOrder[k], "received">> \/ c = <<SignalOrder[k], "dropped">>
  BY DEF Counter, Signal, Half
<1>3. CASE c = <<SignalOrder[k], "received">>
  <2>1. 2 * k - 1 \in Drains /\ ((2 * k - 1) + 1) \div 2 = k /\ (2 * k - 1) % 2 = 1
    BY <1>1, <1>2 DEF Drains
  <2>2. QED
    BY <2>1, <1>3 DEF DrainOrder
<1>4. CASE c = <<SignalOrder[k], "dropped">>
  <2>1. 2 * k \in Drains /\ (2 * k + 1) \div 2 = k /\ (2 * k) % 2 # 1
    BY <1>1, <1>2 DEF Drains
  <2>2. QED
    BY <2>1, <1>4 DEF DrainOrder
<1>5. QED
  BY <1>2, <1>3, <1>4

\* asCount splits a count into what is stored and what is cut off.
LEMMA AsCountSplits ==
  ASSUME NEW n \in Nat
  PROVE  AsCount(n) \in Nat /\ n - AsCount(n) \in Nat
BY BoundsAssumption DEF AsCount

-----------------------------------------------------------------------------
(* The inductive invariant. *)

LEMMA InitIInv == Init => IInv
<1>1. SUFFICES ASSUME Init PROVE IInv
  OBVIOUS
<1>2. Zero \in [Counter -> Nat]
  BY DEF Zero
<1>3. TypeOK
  <2>1. 1 \in 1..(2 * Len(SignalOrder) + 1) /\ 0 \in 0..MaxFailures
    BY SignalOrderAssumption, BoundsAssumption
  <2>2. QED
    BY <1>1, <1>2, <2>1 DEF Init, TypeOK, Reporter, Wire
<1>4. PayloadInv
  BY <1>1 DEF Init, PayloadInv, Zero
<1>5. Conservation
  BY <1>1 DEF Init, Conservation, Zero, Owed
<1>6. QED
  BY <1>3, <1>4, <1>5 DEF IInv

\* Adding to, or moving out of, one entry of a function of counts.
LEMMA CountUpdate ==
  ASSUME NEW f \in [Counter -> Nat], NEW c \in Counter, NEW n \in Nat
  PROVE  /\ [f EXCEPT ![c] = n] \in [Counter -> Nat]
         /\ \A x \in Counter : [f EXCEPT ![c] = n][x] = IF x = c THEN n ELSE f[x]
OBVIOUS

LEMMA CountsAreNat ==
  ASSUME TypeOK, NEW c \in Counter
  PROVE  /\ observed[c] \in Nat /\ recounted[c] \in Nat /\ rows[c] \in Nat
         /\ clamped[c] \in Nat /\ lost[c] \in Nat /\ counter[c] \in Nat
         /\ payload[c] \in Nat /\ Owed[c] \in Nat
BY DEF TypeOK, Owed, Zero

LEMMA CountsAreNatAfter ==
  ASSUME TypeOK', NEW c \in Counter
  PROVE  /\ observed'[c] \in Nat /\ recounted'[c] \in Nat /\ rows'[c] \in Nat
         /\ clamped'[c] \in Nat /\ lost'[c] \in Nat /\ counter'[c] \in Nat
         /\ payload'[c] \in Nat /\ Owed'[c] \in Nat
BY DEF TypeOK, Owed, Zero

\* Conservation survives a step whose changes balance.
LEMMA Balance ==
  ASSUME TypeOK, TypeOK', Conservation,
         \A c \in Counter :
           (observed'[c] - observed[c]) + (recounted'[c] - recounted[c]) =
             (rows'[c] - rows[c]) + (clamped'[c] - clamped[c]) + (lost'[c] - lost[c])
             + (counter'[c] - counter[c]) + (Owed'[c] - Owed[c])
  PROVE  Conservation'
<1>1. SUFFICES ASSUME NEW c \in Counter
               PROVE  observed'[c] + recounted'[c] =
                      rows'[c] + clamped'[c] + lost'[c] + counter'[c] + Owed'[c]
  BY DEF Conservation
<1>2. observed[c] + recounted[c] = rows[c] + clamped[c] + lost[c] + counter[c] + Owed[c]
  BY DEF Conservation
<1>3. QED
  BY <1>2, CountsAreNat, CountsAreNatAfter

\* A batch counted: counter and history move together.
LEMMA BalanceConsume ==
  ASSUME TypeOK, TypeOK', Conservation,
         UNCHANGED <<rows, clamped, recounted, lost, payload, wire>>,
         \A c \in Counter : observed'[c] - observed[c] = counter'[c] - counter[c]
  PROVE  Conservation'
<1>1. Owed' = Owed
  BY DEF Owed
<1>2. QED
  BY <1>1, CountsAreNat, CountsAreNatAfter, Balance

\* A Swap or a fold-back: counts move between a counter and the goroutine.
LEMMA BalanceMove ==
  ASSUME TypeOK, TypeOK', Conservation,
         UNCHANGED <<rows, history, wire>>, wire = "none",
         \A c \in Counter : payload'[c] - payload[c] = counter[c] - counter'[c]
  PROVE  Conservation'
<1>1. Owed' = payload' /\ Owed = payload
  BY DEF Owed
<1>2. QED
  BY <1>1, CountsAreNat, CountsAreNatAfter, Balance DEF history

\* A step that moves no counts.
LEMMA BalanceStill ==
  ASSUME TypeOK, TypeOK', Conservation,
         UNCHANGED <<counter, rows, history, Owed>>
  PROVE  Conservation'
BY DEF Conservation, history

\* The consumers' Adds move counter and history together.
LEMMA AddReceivedStep ==
  ASSUME IInv, NEW t \in Thread, NEW s \in Signal, NEW r \in 1..MaxBatch,
         NEW d \in 0..MaxBatch, AddReceived(t, s, r, d)
  PROVE  IInv'
<1>1. PICK c \in Counter : c = <<s, "received">>
  BY DEF Counter, Half
<1>2. r \in Nat /\ counter[c] \in Nat /\ observed[c] \in Nat
  BY BoundsAssumption DEF IInv, TypeOK
<1>3. /\ counter'  = [counter  EXCEPT ![c] = counter[c] + r]
      /\ observed' = [observed EXCEPT ![c] = observed[c] + r]
  BY <1>1 DEF AddReceived
<1>4. counter' \in [Counter -> Nat] /\ observed' \in [Counter -> Nat]
  BY <1>2, <1>3, CountUpdate DEF IInv, TypeOK
<1>5. consumer' \in [Thread -> Batch \cup {NoBatch}]
  BY DEF AddReceived, IInv, TypeOK, Batch
<1>6. TypeOK'
  BY <1>4, <1>5 DEF IInv, TypeOK, AddReceived
<1>7. PayloadInv'
  BY DEF IInv, PayloadInv, AddReceived
<1>8. Conservation'
  <2>1. UNCHANGED <<rows, clamped, recounted, lost, payload, wire>>
    BY DEF AddReceived
  <2>2. ASSUME NEW x \in Counter
        PROVE observed'[x] - observed[x] = counter'[x] - counter[x]
    BY <1>2, <1>3, CountUpdate DEF IInv, TypeOK
  <2>3. QED
    BY <1>6, <2>1, <2>2, BalanceConsume DEF IInv
<1>9. QED
  BY <1>6, <1>7, <1>8 DEF IInv

LEMMA AddDroppedStep ==
  ASSUME IInv, NEW t \in Thread, AddDropped(t)
  PROVE  IInv'
<1>1. consumer[t] \in Batch
  BY DEF IInv, TypeOK, AddDropped
<1>2. PICK c \in Counter : c = <<consumer[t].signal, "dropped">>
  BY <1>1 DEF Batch, Counter, Half
<1>3. PICK d \in Nat : d = consumer[t].dropped
  BY <1>1, BoundsAssumption DEF Batch
<1>4. /\ counter'  = [counter  EXCEPT ![c] = counter[c] + d]
      /\ observed' = [observed EXCEPT ![c] = observed[c] + d]
  BY <1>2, <1>3 DEF AddDropped
<1>5. counter[c] + d \in Nat /\ observed[c] + d \in Nat /\ counter[c] \in Nat /\ observed[c] \in Nat
  BY DEF IInv, TypeOK
<1>6. counter' \in [Counter -> Nat] /\ observed' \in [Counter -> Nat]
  BY <1>4, <1>5, CountUpdate DEF IInv, TypeOK
<1>7. TypeOK'
  BY <1>6 DEF IInv, TypeOK, AddDropped
<1>8. PayloadInv'
  BY DEF IInv, PayloadInv, AddDropped
<1>9. Conservation'
  <2>1. UNCHANGED <<rows, clamped, recounted, lost, payload, wire>>
    BY DEF AddDropped
  <2>2. ASSUME NEW x \in Counter
        PROVE observed'[x] - observed[x] = counter'[x] - counter[x]
    <3>1. counter'[x] = IF x = c THEN counter[c] + d ELSE counter[x]
      BY <1>4, <1>5 DEF IInv, TypeOK
    <3>2. observed'[x] = IF x = c THEN observed[c] + d ELSE observed[x]
      BY <1>4, <1>5 DEF IInv, TypeOK
    <3>3. counter[x] \in Nat /\ observed[x] \in Nat
      BY DEF IInv, TypeOK
    <3>4. QED
      BY <3>1, <3>2, <3>3, <1>5, <1>3
  <2>3. QED
    BY <1>7, <2>1, <2>2, BalanceConsume DEF IInv
<1>10. QED
  BY <1>7, <1>8, <1>9 DEF IInv

\* One Swap moves a count into a payload entry that is still empty.
LEMMA DrainStep == ASSUME IInv, Drain PROVE IInv'
<1>1. PICK c \in Counter : c = DrainOrder[next]
  BY DrainOrderType DEF Drain
<1>2. /\ payload[c] = 0 /\ counter[c] \in Nat /\ wire = "none"
      /\ next \in Nat /\ reporter = "drain"
  BY <1>1, SignalOrderAssumption DEF IInv, PayloadInv, Drain, Drains, TypeOK
<1>3. /\ payload' = [payload EXCEPT ![c] = counter[c]]
      /\ counter' = [counter EXCEPT ![c] = 0]
      /\ next' = next + 1
  BY <1>1 DEF Drain
<1>4. payload' \in [Counter -> Nat] /\ counter' \in [Counter -> Nat]
  BY <1>2, <1>3, CountUpdate DEF IInv, TypeOK
<1>5. next' \in 1..(2 * Len(SignalOrder) + 1)
  BY <1>2, <1>3, SignalOrderAssumption DEF Drain, Drains
<1>6. TypeOK'
  BY <1>4, <1>5 DEF IInv, TypeOK, Drain, history
<1>7. PayloadInv'
  <2>1. ASSUME NEW i \in Drains, i >= next'
        PROVE  payload'[DrainOrder[i]] = 0
    <3>1. i # next /\ i >= next /\ next \in Drains
      BY <1>2, <1>3, <2>1 DEF Drains, Drain
    <3>2. DrainOrder[i] # c /\ DrainOrder[i] \in Counter
      BY <1>1, <3>1, DrainOrderInjective, DrainOrderType
    <3>3. payload[DrainOrder[i]] = 0
      BY <1>2, <3>1 DEF IInv, PayloadInv
    <3>4. QED
      BY <1>3, <3>2, <3>3
  <2>2. QED
    BY <1>2, <2>1 DEF IInv, PayloadInv, Drain
<1>8. Conservation'
  <2>1. ASSUME NEW x \in Counter
        PROVE  payload'[x] - payload[x] = counter[x] - counter'[x]
    BY <1>2, <1>3, CountUpdate DEF IInv, TypeOK
  <2>2. UNCHANGED <<rows, history, wire>>
    BY DEF Drain
  <2>3. QED
    BY <1>2, <1>6, <2>1, <2>2, BalanceMove DEF IInv
<1>9. QED
  BY <1>6, <1>7, <1>8 DEF IInv

\* One Add returns a payload entry to its counter and spends it.
LEMMA FoldBackStep == ASSUME IInv, FoldBack PROVE IInv'
<1>1. PICK c \in Counter : c = DrainOrder[next]
  BY DrainOrderType DEF FoldBack, Folded
<1>2. /\ payload[c] \in Nat /\ counter[c] \in Nat /\ wire = "none"
      /\ next \in Nat /\ reporter = "fold"
  BY <1>1, SignalOrderAssumption DEF IInv, PayloadInv, FoldBack, Folded, Drains, TypeOK
<1>3. /\ counter' = [counter EXCEPT ![c] = counter[c] + payload[c]]
      /\ payload' = [payload EXCEPT ![c] = 0]
      /\ next' = next + 1
  BY <1>1 DEF FoldBack, Folded
<1>4. payload' \in [Counter -> Nat] /\ counter' \in [Counter -> Nat]
  BY <1>2, <1>3, CountUpdate DEF IInv, TypeOK
<1>5. next' \in 1..(2 * Len(SignalOrder) + 1)
  BY <1>2, <1>3, SignalOrderAssumption DEF FoldBack, Folded, Drains
<1>6. TypeOK'
  BY <1>4, <1>5 DEF IInv, TypeOK, FoldBack, Folded, history
<1>7. PayloadInv'
  <2>1. ASSUME NEW i \in Drains, i < next'
        PROVE  payload'[DrainOrder[i]] = 0
    <3>1. i = next \/ i < next
      BY <1>2, <1>3, <2>1 DEF Drains
    <3>2. DrainOrder[i] \in Counter
      BY DrainOrderType
    <3>3. CASE i = next
      BY <1>1, <1>3, <3>3 DEF IInv, TypeOK
    <3>4. CASE i < next
      BY <1>2, <1>3, <3>2, <3>4 DEF IInv, TypeOK, PayloadInv
    <3>5. QED
      BY <3>1, <3>3, <3>4
  <2>2. QED
    BY <1>2, <2>1 DEF IInv, PayloadInv, FoldBack, Folded
<1>8. Conservation'
  <2>1. ASSUME NEW x \in Counter
        PROVE  payload'[x] - payload[x] = counter[x] - counter'[x]
    BY <1>2, <1>3, CountUpdate DEF IInv, TypeOK
  <2>2. UNCHANGED <<rows, history, wire>>
    BY DEF FoldBack, Folded
  <2>3. QED
    BY <1>2, <1>6, <2>1, <2>2, BalanceMove DEF IInv
<1>9. QED
  BY <1>6, <1>7, <1>8 DEF IInv

\* After the last fold-back nothing is owed.
LEMMA FoldedBackStep == ASSUME IInv, FoldedBack PROVE IInv'
<1>1. ASSUME NEW c \in Counter PROVE payload[c] = 0
  <2>1. PICK i \in Drains : DrainOrder[i] = c
    BY DrainOrderCovers
  <2>2. i < next
    BY SignalOrderAssumption DEF IInv, TypeOK, FoldedBack, Drains
  <2>3. QED
    BY <2>1, <2>2 DEF IInv, PayloadInv, FoldedBack
<1>2. TypeOK'
  BY DEF IInv, TypeOK, FoldedBack, history, Reporter
<1>3. PayloadInv'
  BY <1>1 DEF IInv, PayloadInv, FoldedBack
<1>4. Conservation'
  <2>1. UNCHANGED <<counter, rows, history, Owed>>
    BY DEF FoldedBack, Owed
  <2>2. QED
    BY <1>2, <2>1, BalanceStill DEF IInv
<1>5. QED
  BY <1>2, <1>3, <1>4 DEF IInv

\* The steps of the loop and of its context move no counts.
LEMMA LoopStep ==
  ASSUME IInv, StartLoop \/ CancelLoop \/ ExitLoop \/ Tick
  PROVE  IInv'
<1>1. 1 \in 1..(2 * Len(SignalOrder) + 1)
  BY SignalOrderAssumption
<1>2. TypeOK'
  BY <1>1 DEF IInv, TypeOK, StartLoop, CancelLoop, ExitLoop, Tick, history, Reporter
<1>3. PayloadInv'
  BY DrainOrderType DEF IInv, TypeOK, PayloadInv, StartLoop, CancelLoop, ExitLoop, Tick
<1>4. UNCHANGED <<counter, rows, history, Owed>>
  BY DEF StartLoop, CancelLoop, ExitLoop, Tick, Owed
<1>5. QED
  BY <1>2, <1>3, <1>4, BalanceStill DEF IInv

\* Sending and being answered: a stored report leaves no debt, a refused one
\* leaves all of it.
LEMMA PostStep ==
  ASSUME IInv, SendStats \/ PostSucceeds \/ PostRefused
  PROVE  IInv'
<1>1. Zero \in [Counter -> Nat] /\ 1 \in 1..(2 * Len(SignalOrder) + 1)
  BY SignalOrderAssumption DEF Zero
<1>2. TypeOK'
  BY <1>1 DEF IInv, TypeOK, SendStats, PostSucceeds, PostRefused, history, Reporter, Wire
<1>3. PayloadInv'
  <2>1. CASE SendStats
    BY <2>1 DEF IInv, PayloadInv, SendStats
  <2>2. CASE PostSucceeds
    BY <2>2 DEF IInv, PayloadInv, PostSucceeds, Zero
  <2>3. CASE PostRefused
    BY <2>3 DEF IInv, PayloadInv, PostRefused, Drains
  <2>4. QED
    BY <2>1, <2>2, <2>3
<1>4. UNCHANGED <<counter, rows, history, Owed>>
  BY DEF IInv, PayloadInv, SendStats, PostSucceeds, PostRefused, Owed
<1>5. QED
  BY <1>2, <1>3, <1>4, BalanceStill DEF IInv

LEMMA PlusType ==
  ASSUME NEW f \in [Counter -> Nat], NEW g \in [Counter -> Nat]
  PROVE  /\ Plus(f, g) \in [Counter -> Nat]
         /\ \A c \in Counter : Plus(f, g)[c] = f[c] + g[c]
BY DEF Plus

LEMMA StoredType ==
  ASSUME NEW f \in [Counter -> Nat]
  PROVE  /\ Stored(f) \in [Counter -> Nat]
         /\ Excess(f) \in [Counter -> Nat]
         /\ \A c \in Counter : Stored(f)[c] + Excess(f)[c] = f[c]
BY BoundsAssumption DEF Stored, Excess, AsCount

\* Giving up a POST: the goroutine owes the counts again; if a row holds them
\* too, they are recounted.
LEMMA GivenUpStep == ASSUME IInv, PostGivenUp PROVE IInv'
<1>1. payload \in [Counter -> Nat] /\ recounted \in [Counter -> Nat]
  BY DEF IInv, TypeOK
<1>2. TypeOK'
  <2>1. orphans' \subseteq [n : 0..MaxFailures, stats : [Counter -> Nat]]
    BY <1>1 DEF IInv, TypeOK, PostGivenUp
  <2>2. recounted' \in [Counter -> Nat]
    BY <1>1, PlusType DEF PostGivenUp
  <2>3. failures' \in 0..MaxFailures /\ next' \in 1..(2 * Len(SignalOrder) + 1)
    BY BoundsAssumption, SignalOrderAssumption DEF IInv, TypeOK, PostGivenUp
  <2>4. QED
    BY <2>1, <2>2, <2>3 DEF IInv, TypeOK, PostGivenUp, Reporter, Wire
<1>3. PayloadInv'
  BY DEF IInv, PayloadInv, PostGivenUp, Drains
<1>4. Conservation'
  <2>1. UNCHANGED <<counter, rows, observed, clamped, lost, payload>> /\ Owed' = payload
    BY DEF PostGivenUp, Owed
  <2>2. CASE wire = "stored"
    <3>1. ASSUME NEW c \in Counter
          PROVE  recounted'[c] = recounted[c] + payload[c] /\ Owed[c] = 0
      BY <1>1, <2>2, PlusType DEF PostGivenUp, Owed, Zero
    <3>2. QED
      BY <1>2, <2>1, <3>1, CountsAreNat, CountsAreNatAfter, Balance DEF IInv
  <2>3. CASE wire # "stored"
    <3>1. UNCHANGED <<counter, rows, history, Owed>>
      BY <2>1, <2>3 DEF PostGivenUp, Owed, history
    <3>2. QED
      BY <1>2, <3>1, BalanceStill DEF IInv
  <2>4. QED
    BY <2>2, <2>3
<1>5. QED
  BY <1>2, <1>3, <1>4 DEF IInv

\* A process exit writes off the counters and what the goroutine owes.
LEMMA ExitStep == ASSUME IInv, ProcessExit PROVE IInv'
<1>1. /\ Zero \in [Counter -> Nat] /\ Owed \in [Counter -> Nat]
      /\ counter \in [Counter -> Nat] /\ lost \in [Counter -> Nat]
      /\ payload \in [Counter -> Nat]
  BY DEF IInv, TypeOK, Zero, Owed
<1>2. /\ Plus(counter, Owed) \in [Counter -> Nat]
      /\ lost' \in [Counter -> Nat]
      /\ \A c \in Counter : lost'[c] = lost[c] + (counter[c] + Owed[c])
  BY <1>1, PlusType DEF ProcessExit
<1>3. TypeOK'
  <2>1. orphans' \subseteq [n : 0..MaxFailures, stats : [Counter -> Nat]]
    BY <1>1 DEF IInv, TypeOK, ProcessExit
  <2>2. failures' \in 0..MaxFailures /\ next' \in 1..(2 * Len(SignalOrder) + 1)
    BY BoundsAssumption, SignalOrderAssumption DEF IInv, TypeOK, ProcessExit
  <2>3. consumer' \in [Thread -> Batch \cup {NoBatch}]
    BY DEF ProcessExit
  <2>4. QED
    BY <1>1, <1>2, <2>1, <2>2, <2>3 DEF IInv, TypeOK, ProcessExit, Reporter, Wire
<1>4. PayloadInv'
  BY DEF IInv, PayloadInv, ProcessExit, Zero
<1>5. Conservation'
  <2>1. ASSUME NEW c \in Counter
        PROVE  /\ counter'[c] = 0 /\ Owed'[c] = 0
               /\ lost'[c] = lost[c] + (counter[c] + Owed[c])
    BY <1>2 DEF ProcessExit, Owed, Zero
  <2>2. UNCHANGED <<rows, observed, clamped, recounted>>
    BY DEF ProcessExit
  <2>3. ASSUME NEW c \in Counter
        PROVE  (observed'[c] - observed[c]) + (recounted'[c] - recounted[c]) =
                 (rows'[c] - rows[c]) + (clamped'[c] - clamped[c]) + (lost'[c] - lost[c])
                 + (counter'[c] - counter[c]) + (Owed'[c] - Owed[c])
    BY <2>1, <2>2, CountsAreNat DEF IInv
  <2>4. QED
    BY <1>3, <2>3, Balance DEF IInv
<1>6. QED
  BY <1>3, <1>4, <1>5 DEF IInv

\* The control plane stores min(count, INT4_MAX) of a report still awaited.
LEMMA StoreStep == ASSUME IInv, StoreReport PROVE IInv'
<1>1. payload \in [Counter -> Nat] /\ rows \in [Counter -> Nat] /\ clamped \in [Counter -> Nat]
  BY DEF IInv, TypeOK
<1>2. /\ rows' \in [Counter -> Nat] /\ clamped' \in [Counter -> Nat]
      /\ \A c \in Counter : rows'[c] = rows[c] + Stored(payload)[c]
      /\ \A c \in Counter : clamped'[c] = clamped[c] + Excess(payload)[c]
  BY <1>1, PlusType, StoredType DEF StoreReport
<1>3. TypeOK'
  BY <1>2 DEF IInv, TypeOK, StoreReport, engine, Wire
<1>4. PayloadInv'
  BY DEF IInv, PayloadInv, StoreReport, engine
<1>5. Conservation'
  <2>1. UNCHANGED <<counter, observed, recounted, lost>>
    BY DEF StoreReport, engine
  <2>2. ASSUME NEW c \in Counter PROVE Owed[c] = payload[c] /\ Owed'[c] = 0
    BY DEF StoreReport, Owed, Zero
  <2>3. ASSUME NEW c \in Counter
        PROVE  /\ Stored(payload)[c] \in Nat /\ Excess(payload)[c] \in Nat
               /\ Stored(payload)[c] + Excess(payload)[c] = payload[c]
    BY <1>1, StoredType
  <2>4. ASSUME NEW c \in Counter
        PROVE  (observed'[c] - observed[c]) + (recounted'[c] - recounted[c]) =
                 (rows'[c] - rows[c]) + (clamped'[c] - clamped[c]) + (lost'[c] - lost[c])
                 + (counter'[c] - counter[c]) + (Owed'[c] - Owed[c])
    <3>1. rows'[c] - rows[c] = Stored(payload)[c] /\ clamped'[c] - clamped[c] = Excess(payload)[c]
      BY <1>1, <1>2, <2>3
    <3>2. /\ observed'[c] - observed[c] = 0 /\ recounted'[c] - recounted[c] = 0
          /\ lost'[c] - lost[c] = 0 /\ counter'[c] - counter[c] = 0
      BY <2>1, CountsAreNat DEF IInv
    <3>3. Owed'[c] - Owed[c] = -payload[c] /\ payload[c] \in Nat
      BY <2>2, <1>1
    <3>4. QED
      BY <3>1, <3>2, <3>3, <2>3
  <2>5. QED
    BY <1>3, <2>4, Balance DEF IInv
<1>6. QED
  BY <1>3, <1>4, <1>5 DEF IInv

\* Stored after all, though its sender wrote it off: rows and the recounted
\* history grow alike.
LEMMA StoreLateStep ==
  ASSUME IInv, NEW o \in orphans, StoreLate(o)
  PROVE  IInv'
<1>1. /\ o.stats \in [Counter -> Nat] /\ rows \in [Counter -> Nat]
      /\ clamped \in [Counter -> Nat] /\ recounted \in [Counter -> Nat]
  BY DEF IInv, TypeOK
<1>2. /\ rows' \in [Counter -> Nat] /\ clamped' \in [Counter -> Nat]
      /\ recounted' \in [Counter -> Nat]
      /\ \A c \in Counter : rows'[c] = rows[c] + Stored(o.stats)[c]
      /\ \A c \in Counter : clamped'[c] = clamped[c] + Excess(o.stats)[c]
      /\ \A c \in Counter : recounted'[c] = recounted[c] + o.stats[c]
  BY <1>1, PlusType, StoredType DEF StoreLate
<1>3. TypeOK'
  BY <1>2 DEF IInv, TypeOK, StoreLate, engine
<1>4. PayloadInv'
  BY DEF IInv, PayloadInv, StoreLate, engine
<1>5. Conservation'
  <2>1. UNCHANGED <<counter, observed, lost, Owed>>
    BY DEF StoreLate, engine, Owed
  <2>2. ASSUME NEW c \in Counter
        PROVE  /\ Stored(o.stats)[c] \in Nat /\ Excess(o.stats)[c] \in Nat
               /\ Stored(o.stats)[c] + Excess(o.stats)[c] = o.stats[c]
    BY <1>1, StoredType
  <2>3. ASSUME NEW c \in Counter
        PROVE  (observed'[c] - observed[c]) + (recounted'[c] - recounted[c]) =
                 (rows'[c] - rows[c]) + (clamped'[c] - clamped[c]) + (lost'[c] - lost[c])
                 + (counter'[c] - counter[c]) + (Owed'[c] - Owed[c])
    BY <1>2, <2>1, <2>2, CountsAreNat DEF IInv
  <2>4. QED
    BY <1>3, <2>3, Balance DEF IInv
<1>6. QED
  BY <1>3, <1>4, <1>5 DEF IInv

\* Requests lost or refused leave every count where it was.
LEMMA LoseStep ==
  ASSUME IInv,
         LoseRequest \/ RefuseReport \/ \E o \in orphans : DropLate(o)
  PROVE  IInv'
<1>1. TypeOK'
  BY BoundsAssumption
  DEF IInv, TypeOK, LoseRequest, RefuseReport, DropLate, engine, history, Wire
<1>2. PayloadInv'
  BY DEF IInv, PayloadInv, LoseRequest, RefuseReport, DropLate, engine
<1>3. UNCHANGED <<counter, rows, history, Owed>>
  BY DEF LoseRequest, RefuseReport, DropLate, engine, Owed
<1>4. QED
  BY <1>1, <1>2, <1>3, BalanceStill DEF IInv

LEMMA NextIInv == IInv /\ [Next]_vars => IInv'
<1>1. SUFFICES ASSUME IInv, [Next]_vars PROVE IInv'
  OBVIOUS
<1>2. CASE Consume
  BY <1>1, <1>2, AddReceivedStep, AddDroppedStep DEF Consume
<1>3. CASE Report
  BY <1>1, <1>3, LoopStep, DrainStep, PostStep, FoldBackStep, FoldedBackStep DEF Report
<1>4. CASE PostGivenUp
  BY <1>1, <1>4, GivenUpStep
<1>5. CASE Network
  BY <1>1, <1>5, LoseStep, StoreStep, StoreLateStep DEF Network
<1>6. CASE Lifecycle
  BY <1>1, <1>6, LoopStep, ExitStep DEF Lifecycle
<1>7. CASE UNCHANGED vars
  BY <1>1, <1>7
  DEF IInv, TypeOK, PayloadInv, Conservation, Owed, vars, engine, history
<1>8. QED
  BY <1>1, <1>2, <1>3, <1>4, <1>5, <1>6, <1>7 DEF Next

-----------------------------------------------------------------------------
(* Drops are never ahead of receipts: what the goroutines still have to add  *)
(* is backed by receipts they have added already.                            *)

\* The dropped records of a signal that are still to be added, told apart by
\* their goroutine and a number.
Announced(t, n) == {t} \X (1..n)
Ahead(s) ==
  {p \in Thread \X (1..MaxBatch) :
     consumer[p[1]].signal = s /\ p[2] <= consumer[p[1]].dropped}

Backed ==
  \A s \in Signal :
    /\ IsFiniteSet(Ahead(s))
    /\ observed[<<s, "dropped">>] + Cardinality(Ahead(s)) <= observed[<<s, "received">>]

LEMMA AnnouncedSize ==
  ASSUME NEW t, NEW n \in Nat
  PROVE  IsFiniteSet(Announced(t, n)) /\ Cardinality(Announced(t, n)) = n
<1>1. IsFiniteSet({t}) /\ Cardinality({t}) = 1
  BY FS_Singleton
<1>2. IsFiniteSet(1..n) /\ Cardinality(1..n) = n
  BY FS_Interval
<1>3. IsFiniteSet(Announced(t, n)) /\ Cardinality(Announced(t, n)) = Cardinality({t}) * Cardinality(1..n)
  BY <1>1, <1>2, FS_Product DEF Announced
<1>4. Cardinality({t}) * Cardinality(1..n) = 1 * n
  BY <1>1, <1>2
<1>5. QED
  BY <1>3, <1>4

\* A batch begun announces its drops, a batch finished redeems them.
LEMMA BatchBegins ==
  ASSUME NEW A, NEW t, NEW n \in Nat, IsFiniteSet(A), A \cap Announced(t, n) = {}
  PROVE  /\ IsFiniteSet(A \cup Announced(t, n))
         /\ Cardinality(A \cup Announced(t, n)) = Cardinality(A) + n
<1>1. IsFiniteSet(Announced(t, n)) /\ Cardinality(Announced(t, n)) = n
  BY AnnouncedSize
<1>2. Cardinality({}) = 0 /\ Cardinality(A) \in Nat
  BY FS_EmptySet, FS_CardinalityType
<1>3. /\ IsFiniteSet(A \cup Announced(t, n))
      /\ Cardinality(A \cup Announced(t, n))
           = Cardinality(A) + Cardinality(Announced(t, n)) - Cardinality(A \cap Announced(t, n))
  BY <1>1, FS_Union
<1>4. Cardinality(A \cap Announced(t, n)) = 0
  BY <1>2
<1>5. \A a, c, d, e : a \in Nat /\ c = n /\ d = 0 /\ e = a + c - d => e = a + n
  OBVIOUS
<1>6. QED
  BY <1>1, <1>2, <1>3, <1>4, <1>5

LEMMA BatchEnds ==
  ASSUME NEW A, NEW t, NEW n \in Nat, IsFiniteSet(A), Announced(t, n) \subseteq A
  PROVE  /\ IsFiniteSet(A \ Announced(t, n))
         /\ Cardinality(A \ Announced(t, n)) = Cardinality(A) - n
<1>1. Cardinality(Announced(t, n)) = n /\ Cardinality(A) \in Nat
  BY AnnouncedSize, FS_CardinalityType
<1>2. /\ IsFiniteSet(A \ Announced(t, n))
      /\ Cardinality(A \ Announced(t, n)) = Cardinality(A) - Cardinality(A \cap Announced(t, n))
  BY FS_Difference
<1>3. A \cap Announced(t, n) = Announced(t, n)
  OBVIOUS
<1>4. QED
  BY <1>1, <1>2, <1>3

LEMMA SizeIsNat ==
  ASSUME Backed, TypeOK, NEW s \in Signal
  PROVE  /\ Cardinality(Ahead(s)) \in Nat
         /\ <<s, "received">> \in Counter /\ <<s, "dropped">> \in Counter
         /\ observed[<<s, "received">>] \in Nat /\ observed[<<s, "dropped">>] \in Nat
<1>1. <<s, "received">> \in Counter /\ <<s, "dropped">> \in Counter
  BY DEF Counter, Half
<1>2. QED
  BY <1>1, FS_CardinalityType DEF Backed, TypeOK

LEMMA BackedReceived ==
  ASSUME IInv, Backed, NEW t \in Thread, NEW s \in Signal, NEW r \in 1..MaxBatch,
         NEW d \in 0..MaxBatch, AddReceived(t, s, r, d)
  PROVE  Backed'
<1>1. /\ consumer[t] = NoBatch /\ d <= r /\ r \in Nat /\ d \in Nat /\ d <= MaxBatch /\ MaxBatch \in Nat
      /\ observed' = [observed EXCEPT ![<<s, "received">>] = observed[<<s, "received">>] + r]
      /\ consumer' = [consumer EXCEPT ![t] = [signal |-> s, dropped |-> d]]
  BY BoundsAssumption DEF AddReceived
<1>2. /\ consumer'[t].signal = s /\ consumer'[t].dropped = d /\ consumer[t].dropped = 0
      /\ \A u \in Thread \ {t} : consumer'[u] = consumer[u]
  BY <1>1 DEF IInv, TypeOK, NoBatch
<1>3. ASSUME NEW x \in Signal
      PROVE  /\ IsFiniteSet(Ahead(x)')
             /\ observed'[<<x, "dropped">>] + Cardinality(Ahead(x)') <= observed'[<<x, "received">>]
  <2>1. /\ Cardinality(Ahead(x)) \in Nat /\ IsFiniteSet(Ahead(x))
        /\ observed[<<x, "received">>] \in Nat /\ observed[<<x, "dropped">>] \in Nat
        /\ <<x, "received">> \in Counter /\ <<x, "dropped">> \in Counter
        /\ observed[<<x, "dropped">>] + Cardinality(Ahead(x)) <= observed[<<x, "received">>]
    BY SizeIsNat DEF IInv, Backed
  <2>2. /\ observed'[<<x, "dropped">>] = observed[<<x, "dropped">>]
        /\ observed'[<<x, "received">>] = observed[<<x, "received">>] + (IF x = s THEN r ELSE 0)
    <3>1. <<x, "dropped">> # <<s, "received">> /\ (<<x, "received">> = <<s, "received">> <=> x = s)
      OBVIOUS
    <3>2. observed \in [Counter -> Nat]
      BY DEF IInv, TypeOK
    <3>3. observed'[<<x, "dropped">>] = observed[<<x, "dropped">>]
      BY <2>1, <3>1, <3>2, <1>1
    <3>4. observed'[<<x, "received">>] = observed[<<x, "received">>] + (IF x = s THEN r ELSE 0)
      BY <2>1, <3>1, <3>2, <1>1
    <3>5. QED
      BY <3>3, <3>4
  <2>3. CASE x = s
    <3>1. Ahead(x)' = Ahead(x) \cup Announced(t, d)
      <4>1. ASSUME NEW u \in Thread, NEW i \in 1..MaxBatch
            PROVE  <<u, i>> \in Ahead(x)' <=> <<u, i>> \in Ahead(x) \cup Announced(t, d)
        BY <2>3, <1>1, <1>2 DEF Ahead, Announced
      <4>2. /\ Ahead(x) \subseteq Thread \X (1..MaxBatch)
            /\ Ahead(x)' \subseteq Thread \X (1..MaxBatch)
            /\ Announced(t, d) \subseteq Thread \X (1..MaxBatch)
        BY <1>1 DEF Ahead, Announced
      <4>3. QED
        BY <4>1, <4>2
    <3>2. Ahead(x) \cap Announced(t, d) = {}
      BY <1>1, <1>2 DEF Ahead, Announced
    <3>3. IsFiniteSet(Ahead(x)') /\ Cardinality(Ahead(x)') = Cardinality(Ahead(x)) + d
      BY <2>1, <3>1, <3>2, <1>1, BatchBegins
    <3>4. QED
      BY <2>1, <2>2, <2>3, <3>3, <1>1
  <2>4. CASE x # s
    <3>1. Ahead(x)' = Ahead(x)
      <4>1. ASSUME NEW u \in Thread, NEW i \in 1..MaxBatch
            PROVE  <<u, i>> \in Ahead(x)' <=> <<u, i>> \in Ahead(x)
        BY <2>4, <1>1, <1>2 DEF Ahead
      <4>2. /\ Ahead(x) \subseteq Thread \X (1..MaxBatch)
            /\ Ahead(x)' \subseteq Thread \X (1..MaxBatch)
        BY DEF Ahead
      <4>3. QED
        BY <4>1, <4>2
    <3>2. QED
      BY <2>1, <2>2, <2>4, <3>1
  <2>5. QED
    BY <2>3, <2>4
<1>4. QED
  BY <1>3 DEF Backed

LEMMA BackedDropped ==
  ASSUME IInv, Backed, NEW t \in Thread, AddDropped(t)
  PROVE  Backed'
<1>0. consumer[t] \in Batch
  BY DEF IInv, TypeOK, AddDropped
<1> DEFINE s == consumer[t].signal
           d == consumer[t].dropped
<1>1. /\ s \in Signal /\ d \in Nat /\ d <= MaxBatch /\ MaxBatch \in Nat
      /\ observed' = [observed EXCEPT ![<<s, "dropped">>] = observed[<<s, "dropped">>] + d]
      /\ consumer' = [consumer EXCEPT ![t] = NoBatch]
  BY <1>0, BoundsAssumption DEF AddDropped, Batch
<1>2. /\ consumer'[t].dropped = 0
      /\ \A u \in Thread \ {t} : consumer'[u] = consumer[u]
  BY <1>1 DEF IInv, TypeOK, NoBatch
<1>3. ASSUME NEW x \in Signal
      PROVE  /\ IsFiniteSet(Ahead(x)')
             /\ observed'[<<x, "dropped">>] + Cardinality(Ahead(x)') <= observed'[<<x, "received">>]
  <2>1. /\ Cardinality(Ahead(x)) \in Nat /\ IsFiniteSet(Ahead(x))
        /\ observed[<<x, "received">>] \in Nat /\ observed[<<x, "dropped">>] \in Nat
        /\ <<x, "received">> \in Counter /\ <<x, "dropped">> \in Counter
        /\ observed[<<x, "dropped">>] + Cardinality(Ahead(x)) <= observed[<<x, "received">>]
    BY SizeIsNat DEF IInv, Backed
  <2>2. /\ observed'[<<x, "received">>] = observed[<<x, "received">>]
        /\ observed'[<<x, "dropped">>] = observed[<<x, "dropped">>] + (IF x = s THEN d ELSE 0)
    <3>1. <<x, "received">> # <<s, "dropped">> /\ (<<x, "dropped">> = <<s, "dropped">> <=> x = s)
      OBVIOUS
    <3>2. observed \in [Counter -> Nat]
      BY DEF IInv, TypeOK
    <3>3. observed'[<<x, "received">>] = observed[<<x, "received">>]
      BY <2>1, <3>1, <3>2, <1>1
    <3>4. observed'[<<x, "dropped">>] = observed[<<x, "dropped">>] + (IF x = s THEN d ELSE 0)
      BY <2>1, <3>1, <3>2, <1>1
    <3>5. QED
      BY <3>3, <3>4
  <2>3. CASE x = s
    <3>1. Ahead(x)' = Ahead(x) \ Announced(t, d)
      <4>1. ASSUME NEW u \in Thread, NEW i \in 1..MaxBatch
            PROVE  <<u, i>> \in Ahead(x)' <=> <<u, i>> \in Ahead(x) \ Announced(t, d)
        <5>1. CASE u = t
          BY <5>1, <2>3, <1>1, <1>2 DEF Ahead, Announced
        <5>2. CASE u # t
          BY <5>2, <1>2 DEF Ahead, Announced
        <5>3. QED
          BY <5>1, <5>2
      <4>2. /\ Ahead(x) \subseteq Thread \X (1..MaxBatch)
            /\ Ahead(x)' \subseteq Thread \X (1..MaxBatch)
        BY DEF Ahead
      <4>3. QED
        BY <4>1, <4>2
    <3>2. Announced(t, d) \subseteq Ahead(x)
      BY <2>3, <1>1 DEF Ahead, Announced
    <3>3. IsFiniteSet(Ahead(x)') /\ Cardinality(Ahead(x)') = Cardinality(Ahead(x)) - d
      <4>1. /\ IsFiniteSet(Ahead(x) \ Announced(t, d))
            /\ Cardinality(Ahead(x) \ Announced(t, d)) = Cardinality(Ahead(x)) - d
        BY <2>1, <3>2, <1>1, BatchEnds
      <4>2. QED
        BY <3>1, <4>1
    <3>4. QED
      BY <2>1, <2>2, <2>3, <3>3, <1>1
  <2>4. CASE x # s
    <3>1. Ahead(x)' = Ahead(x)
      <4>1. ASSUME NEW u \in Thread, NEW i \in 1..MaxBatch
            PROVE  <<u, i>> \in Ahead(x)' <=> <<u, i>> \in Ahead(x)
        BY <2>4, <1>1, <1>2 DEF Ahead
      <4>2. /\ Ahead(x) \subseteq Thread \X (1..MaxBatch)
            /\ Ahead(x)' \subseteq Thread \X (1..MaxBatch)
        BY DEF Ahead
      <4>3. QED
        BY <4>1, <4>2
    <3>2. QED
      BY <2>1, <2>2, <2>4, <3>1
  <2>5. QED
    BY <2>3, <2>4
<1>4. QED
  BY <1>3 DEF Backed

\* A process exit takes the announcements with it; before the first batch there
\* are none.
LEMMA BackedIdle ==
  ASSUME consumer = [t \in Thread |-> NoBatch]
  PROVE  \A s \in Signal : IsFiniteSet(Ahead(s)) /\ Cardinality(Ahead(s)) = 0
<1>1. \A s : Ahead(s) = {}
  BY DEF Ahead, NoBatch
<1>2. QED
  BY <1>1, FS_EmptySet

LEMMA BackedInit == Init => Backed
<1> SUFFICES ASSUME Init PROVE Backed
  OBVIOUS
<1>1. \A s \in Signal : IsFiniteSet(Ahead(s)) /\ Cardinality(Ahead(s)) = 0
  BY BackedIdle DEF Init
<1>2. \A s \in Signal : observed[<<s, "dropped">>] = 0 /\ observed[<<s, "received">>] = 0
  BY DEF Init, Zero, Counter, Half
<1>3. ASSUME NEW s \in Signal
      PROVE  observed[<<s, "dropped">>] + Cardinality(Ahead(s)) <= observed[<<s, "received">>]
  BY <1>1, <1>2
<1>4. QED
  BY <1>1, <1>3 DEF Backed

LEMMA BackedExit ==
  ASSUME IInv, Backed, consumer' = [t \in Thread |-> NoBatch], observed' = observed
  PROVE  Backed'
<1>1. \A s \in Signal : IsFiniteSet(Ahead(s)') /\ Cardinality(Ahead(s)') = 0
  <2>1. \A s : Ahead(s)' = {}
    BY DEF Ahead, NoBatch
  <2>2. QED
    BY <2>1, FS_EmptySet
<1>2. ASSUME NEW s \in Signal
      PROVE  observed[<<s, "dropped">>] + 0 <= observed[<<s, "received">>]
  BY SizeIsNat DEF IInv, Backed
<1>3. ASSUME NEW s \in Signal
      PROVE  observed'[<<s, "dropped">>] + Cardinality(Ahead(s)') <= observed'[<<s, "received">>]
  BY <1>1, <1>2
<1>4. QED
  BY <1>1, <1>3 DEF Backed

LEMMA NextBacked ==
  ASSUME IInv, Backed, [Next]_vars
  PROVE  Backed'
<1>1. CASE Consume
  BY <1>1, BackedReceived, BackedDropped DEF Consume
<1>2. CASE ProcessExit
  BY <1>2, BackedExit DEF ProcessExit
<1>3. ASSUME UNCHANGED <<consumer, observed>> PROVE Backed'
  BY <1>3 DEF Backed, Ahead
<1>4. CASE Report \/ PostGivenUp \/ Network \/ StartLoop \/ CancelLoop \/ ExitLoop \/ UNCHANGED vars
  <2>1. UNCHANGED <<consumer, observed>>
    BY <1>4
    DEF Report, Tick, Drain, SendStats, PostSucceeds, PostRefused, FoldBack, FoldedBack,
        PostGivenUp, Network, LoseRequest, RefuseReport, StoreReport, StoreLate, DropLate,
        StartLoop, CancelLoop, ExitLoop, vars, engine, history
  <2>2. QED
    BY <1>3, <2>1
<1>5. QED
  BY <1>1, <1>2, <1>4 DEF Next, Lifecycle

-----------------------------------------------------------------------------
(* Theorems. *)

\* Every reachable state is well typed.
THEOREM TypeCorrect == Spec => []TypeOK
<1>1. IInv => TypeOK
  BY DEF IInv
<1>2. QED
  BY <1>1, InitIInv, NextIInv, PTL DEF Spec

\* No interleaving of consumers, reporter, network and restarts loses or
\* invents a count: reportStatsOnce and the stats route conserve them.
THEOREM CountsConserved == Spec => []Conservation
<1>1. IInv => Conservation
  BY DEF IInv
<1>2. QED
  BY <1>1, InitIInv, NextIInv, PTL DEF Spec

\* The dashboard never sees more drops than receipts that were, or are still to
\* be, reported, as long as every report was answered and no process died.
THEOREM DropsAreBacked == Spec => []DropsBacked
<1>1. ASSUME IInv, Backed, NEW s \in Signal,
             recounted[<<s, "received">>] = 0, recounted[<<s, "dropped">>] = 0,
             lost[<<s, "received">>] = 0, clamped[<<s, "dropped">>] = 0
      PROVE  rows[<<s, "dropped">>] + Owed[<<s, "dropped">>] + counter[<<s, "dropped">>]
               <= rows[<<s, "received">>] + clamped[<<s, "received">>]
                    + Owed[<<s, "received">>] + counter[<<s, "received">>]
  <2> DEFINE in  == <<s, "received">>
             out == <<s, "dropped">>
  <2>1. /\ in \in Counter /\ out \in Counter
        /\ Cardinality(Ahead(s)) \in Nat
        /\ observed[out] + Cardinality(Ahead(s)) <= observed[in]
    BY <1>1, SizeIsNat DEF IInv, Backed
  <2>2. /\ recounted[in] = 0 /\ recounted[out] = 0 /\ lost[in] = 0 /\ clamped[out] = 0
    BY <1>1
  <2> HIDE DEF in, out
  <2>3. /\ observed[in] + recounted[in] = rows[in] + clamped[in] + lost[in] + counter[in] + Owed[in]
        /\ observed[out] + recounted[out] = rows[out] + clamped[out] + lost[out] + counter[out] + Owed[out]
    BY <1>1, <2>1 DEF IInv, Conservation
  <2>4. \A c \in Counter :
          /\ observed[c] \in Nat /\ rows[c] \in Nat /\ clamped[c] \in Nat
          /\ lost[c] \in Nat /\ counter[c] \in Nat /\ Owed[c] \in Nat
    BY <1>1, CountsAreNat DEF IInv
  <2>5. rows[out] + Owed[out] + counter[out] <= rows[in] + clamped[in] + Owed[in] + counter[in]
    BY <2>1, <2>2, <2>3, <2>4
  <2>6. QED
    BY <2>5 DEF in, out
<1>2. IInv /\ Backed => DropsBacked
  BY <1>1 DEF DropsBacked
<1>3. IInv /\ Backed /\ [Next]_vars => IInv' /\ Backed'
  BY NextIInv, NextBacked
<1>4. QED
  BY <1>2, <1>3, InitIInv, BackedInit, PTL DEF Spec
=============================================================================
