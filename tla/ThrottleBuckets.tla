--------------------------- MODULE ThrottleBuckets ---------------------------
(***************************************************************************)
(* The token buckets of one THROTTLE rule (limiterGroup): a two-generation *)
(* map from group key to rate.Limiter.  Consume goroutines look their key  *)
(* up under the read lock, fall back to getOrCreate under the write lock,  *)
(* and take a token after every lock is released, so any number of them    *)
(* may race on one key, and the map may rotate under them.  Each published *)
(* ruleset brings a new limiterGroup; a goroutine goes on using the group  *)
(* of the ruleset its batch started with.                                  *)
(***************************************************************************)
EXTENDS Integers, Sequences, FiniteSets

CONSTANTS
  Thread,     \* consume goroutines
  Key,        \* values of the group-by attribute
  Short(_),   \* a key cut to maxThrottleKeyBytes
  MaxKeys,    \* maxThrottleKeysPerGeneration
  Burst,      \* throttleRate: the burst of every bucket
  None,       \* no limiter
  MaxCalls,   \* bound: calls of allow
  MaxElapsed, \* bound: refill periods
  MaxGroups   \* bound: rulesets published with the rule in them

ASSUME KeyAssumption ==
  /\ IsFiniteSet(Key)
  /\ \A k \in Key : Short(k) \in Key /\ Short(Short(k)) = Short(k)

ASSUME BoundsAssumption ==
  /\ MaxKeys \in Nat \ {0} /\ Burst \in Nat \ {0} /\ MaxGroups \in Nat \ {0}
  /\ MaxCalls \in Nat /\ MaxElapsed \in Nat
  /\ None \notin Nat

VARIABLES
  groups,     \* every limiterGroup made, the published ruleset's last
  tokens,     \* tokens left in each limiter ever created
  ruleset,    \* the group of each goroutine's ruleset snapshot
  at,         \* where each goroutine is inside allow
  calls,      \* calls so far
  elapsed,    \* refill periods so far
  owner,      \* history: the group and key each limiter was created for
  evicted,    \* history: times a group dropped a key from both generations
  since,      \* history: per group and key, other keys used since its last use
  admitted    \* history: events let through per group and key

history == <<owner, evicted, since, admitted>>
vars    == <<groups, tokens, ruleset, at, calls, elapsed, history>>

Limiter == 1..Len(tokens)
Held(group) == DOMAIN group.cur \cup DOMAIN group.prev

Idle == [step |-> "idle"]
At ==
  {Idle}
    \cup [step : {"miss"}, key : Key]
    \cup [step : {"take"}, key : Key, limiter : Nat]

\* m[key] with Go's zero value for an absent key; m with key bound to l.
Get(m, key)    == IF key \in DOMAIN m THEN m[key] ELSE None
Put(m, key, l) == [k \in DOMAIN m \cup {key} |-> IF k = key THEN l ELSE m[k]]
Empty == [k \in {} |-> None]

NewGroup == [cur |-> Empty, prev |-> Empty]
Zero     == [k \in Key |-> 0]
Unused   == [k \in Key |-> {}]

Init ==
  /\ groups = <<NewGroup>> /\ tokens = << >>
  /\ ruleset = [t \in Thread |-> 1] /\ at = [t \in Thread |-> Idle]
  /\ calls = 0 /\ elapsed = 0
  /\ owner = << >> /\ evicted = <<Zero>> /\ since = <<Unused>> /\ admitted = <<Zero>>

\* syncOnce publishes a changed ruleset: compileRules makes every group anew.
Republish ==
  /\ Len(groups) < MaxGroups
  /\ groups'  = Append(groups, NewGroup)
  /\ evicted' = Append(evicted, Zero) /\ admitted' = Append(admitted, Zero)
  /\ since'   = Append(since, Unused)
  /\ UNCHANGED <<tokens, ruleset, at, calls, elapsed, owner>>

\* The goroutine's next batch takes the published ruleset.
NextBatch(t) ==
  /\ at[t] = Idle /\ ruleset[t] # Len(groups)
  /\ ruleset' = [ruleset EXCEPT ![t] = Len(groups)]
  /\ UNCHANGED <<groups, tokens, at, calls, elapsed, history>>

\* The key is in use now: every other key has been idle while it was used.
Use(g, key) ==
  since' = [since EXCEPT ![g] = [k \in Key |-> IF k = key THEN {} ELSE @[k] \cup {key}]]

\* allow: cut the key, one map read under the read lock.
Lookup(t, raw) ==
  LET key == Short(raw)
      l   == Get(groups[ruleset[t]].cur, key)
  IN
  /\ at[t] = Idle /\ calls < MaxCalls
  /\ calls' = calls + 1
  /\ IF l = None
     THEN /\ at' = [at EXCEPT ![t] = [step |-> "miss", key |-> key]]
          /\ UNCHANGED since
     ELSE /\ at' = [at EXCEPT ![t] = [step |-> "take", key |-> key, limiter |-> l]]
          /\ Use(ruleset[t], key)
  /\ UNCHANGED <<groups, tokens, ruleset, elapsed, owner, evicted, admitted>>

\* Mutant: no second look at the map once the write lock is held.
MutantNoRecheck(group, key) == FALSE

\* getOrCreate, first check: another goroutine created the key meanwhile.
CreatedMeanwhile(group, key) == key \in DOMAIN group.cur

FindCreated(t) ==
  LET key == at[t].key  group == groups[ruleset[t]] IN
  /\ at[t].step = "miss" /\ CreatedMeanwhile(group, key)
  /\ at' = [at EXCEPT ![t] = [step |-> "take", key |-> key, limiter |-> group.cur[key]]]
  /\ Use(ruleset[t], key)
  /\ UNCHANGED <<groups, tokens, ruleset, calls, elapsed, owner, evicted, admitted>>

\* Mutant: a key of the previous generation gets a new limiter.
MutantNoPromotion(group, key) == FALSE
Promotes(group, key) == key \in DOMAIN group.prev

\* Mutant: one key too many.
MutantFullLate(group) == Cardinality(DOMAIN group.cur) > MaxKeys
Full(group) == Cardinality(DOMAIN group.cur) >= MaxKeys

\* Mutant: rotation forgets the current generation too.
MutantForgetBoth(group) == IF Full(group) THEN NewGroup ELSE group

\* The generations with room for one more key.
Rotated(group) == IF Full(group) THEN [cur |-> Empty, prev |-> group.cur] ELSE group

\* Mutant: a bucket that holds one token too many.
MutantBurstPlusOne == Burst + 1
FirstTokens == Burst

\* The rest of getOrCreate: promote the key's limiter or make a full one,
\* rotate the generations if the current one is full, insert.
Insert(t) ==
  LET g     == ruleset[t]
      group == groups[g]
      key   == at[t].key
      l     == IF Promotes(group, key) THEN group.prev[key] ELSE Len(tokens) + 1
      after == [Rotated(group) EXCEPT !.cur = Put(@, key, l)]
  IN
  /\ at[t].step = "miss" /\ ~CreatedMeanwhile(group, key)
  /\ IF Promotes(group, key)
     THEN UNCHANGED <<tokens, owner>>
     ELSE tokens' = Append(tokens, FirstTokens) /\ owner' = Append(owner, <<g, key>>)
  /\ groups' = [groups EXCEPT ![g] = after]
  /\ at' = [at EXCEPT ![t] = [step |-> "take", key |-> key, limiter |-> l]]
  /\ evicted' = [evicted EXCEPT ![g] = [k \in Key |->
       IF k \in Held(group) \ Held(after) THEN @[k] + 1 ELSE @[k]]]
  /\ Use(g, key)
  /\ UNCHANGED <<ruleset, calls, elapsed, admitted>>

\* rate.Limiter.Allow, after the locks: take a token if there is one.
Take(t) ==
  LET l == at[t].limiter  key == at[t].key IN
  /\ at[t].step = "take"
  /\ IF tokens[l] > 0
     THEN /\ tokens' = [tokens EXCEPT ![l] = @ - 1]
          /\ admitted' = [admitted EXCEPT ![ruleset[t]][key] = @ + 1]
     ELSE UNCHANGED <<tokens, admitted>>
  /\ at' = [at EXCEPT ![t] = Idle]
  /\ UNCHANGED <<groups, ruleset, calls, elapsed, owner, evicted, since>>

\* 1 / throttleRate seconds pass: a token for every bucket that is not full.
Elapse ==
  /\ elapsed < MaxElapsed
  /\ elapsed' = elapsed + 1
  /\ tokens' = [l \in Limiter |-> IF tokens[l] < Burst THEN tokens[l] + 1 ELSE Burst]
  /\ UNCHANGED <<groups, ruleset, at, calls, history>>

Next ==
  \/ \E t \in Thread :
       \/ \E raw \in Key : Lookup(t, raw)
       \/ FindCreated(t) \/ Insert(t) \/ Take(t) \/ NextBatch(t)
  \/ Republish \/ Elapse

Spec == Init /\ [][Next]_vars

-----------------------------------------------------------------------------
(* Properties. *)

Group == DOMAIN groups

\* The limiters a group ever made for a key.
Owned(g, k)   == {l \in DOMAIN owner : owner[l] = <<g, k>>}
Created(g, k) == Cardinality(Owned(g, k))

\* Type correctness: the generations map keys to limiters that exist, and no
\* limiter holds more than its burst.
TypeOK ==
  /\ \A g \in Group, m \in {"cur", "prev"} :
       \E S \in SUBSET Key : groups[g][m] \in [S -> Limiter]
  /\ Len(groups) \in 1..MaxGroups
  /\ tokens \in Seq(0..Burst)
  /\ ruleset \in [Thread -> Group] /\ at \in [Thread -> At]
  /\ calls \in 0..MaxCalls /\ elapsed \in 0..MaxElapsed
  /\ owner \in Seq(Group \X Key) /\ Len(owner) = Len(tokens)
  /\ evicted \in [Group -> [Key -> Nat]] /\ since \in [Group -> [Key -> SUBSET Key]]
  /\ admitted \in [Group -> [Key -> Nat]]

\* "bounds one generation of a group's key map; total retention is at most
\* twice this" (maxThrottleKeysPerGeneration), whatever keys arrive.
RetentionBounded ==
  \A g \in Group, m \in {"cur", "prev"} : Cardinality(DOMAIN groups[g][m]) <= MaxKeys

\* "both must end up with the SAME limiter or the group would briefly grant
\* double the rate" (getOrCreate): a key gets a second limiter only after an
\* eviction or with a new ruleset, which never shares one with the old, and
\* while both generations know it they hold one.
OneLimiterPerKey ==
  /\ \A g \in Group, k \in Key :
       Created(g, k) = evicted[g][k] + (IF k \in Held(groups[g]) THEN 1 ELSE 0)
  /\ \A g \in Group : \A k \in DOMAIN groups[g].cur \cap DOMAIN groups[g].prev :
       groups[g].cur[k] = groups[g].prev[k]

\* "sustained overload clamps to eventsPerSec" (newLimiterGroup): over any run a
\* ruleset lets a key through at most burst plus refill, once more for every
\* eviction.  "A momentary re-burst after an operator edits any rule" is then
\* once more for every ruleset published - also while batches of the old and of
\* the new one are under way together.
RateClamped ==
  \A g \in Group, k \in Key : admitted[g][k] <= (Burst + elapsed) * (evicted[g][k] + 1)

\* "that only happens under group-key churn" (limiterGroup): a key that lost its
\* bucket had been idle while more than a generation of other keys were used.
EvictedOnlyUnderChurn ==
  \A g \in Group, k \in Key :
    Created(g, k) > 0 /\ k \notin Held(groups[g]) => Cardinality(since[g][k]) > MaxKeys
=============================================================================
