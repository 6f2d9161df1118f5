------------------------ MODULE ThrottleBucketsProofs ------------------------
(***************************************************************************)
(* The buckets of a THROTTLE rule for any number of goroutines, keys and   *)
(* rulesets.  A key is used only while the current generation holds it, so *)
(* the keys of the current generation are exactly what an older key has    *)
(* been idle for: when a rotation drops it, a full generation and one key  *)
(* more have been used since.                                              *)
(***************************************************************************)
EXTENDS ThrottleBuckets, FiniteSetTheorems, SequenceTheorems, TLAPS

\* A generation: keys and their limiters.
Map == UNION {[S -> Nat] : S \in SUBSET Key}

\* Every limiter a map holds, or a goroutine took out of one, exists.
MapInv ==
  /\ groups \in Seq([cur : Map, prev : Map])
  /\ \A g \in Group : \A k \in DOMAIN groups[g].cur : groups[g].cur[k] \in Limiter
  /\ \A g \in Group : \A k \in DOMAIN groups[g].prev : groups[g].prev[k] \in Limiter
  /\ \A t \in Thread : at[t].step = "take" => at[t].limiter \in Limiter

\* A key that only the previous generation holds has been idle while every key
\* of the current one was used.
IdleInv ==
  \A g \in Group, k \in Key :
    k \in DOMAIN groups[g].prev \ DOMAIN groups[g].cur
      => DOMAIN groups[g].cur \subseteq since[g][k]

IInv ==
  /\ TypeOK /\ MapInv /\ IdleInv
  /\ RetentionBounded /\ OneLimiterPerKey /\ EvictedOnlyUnderChurn

-----------------------------------------------------------------------------
(* Maps, groups and uses. *)

LEMMA MapType ==
  ASSUME NEW m \in Map
  PROVE  /\ DOMAIN m \in SUBSET Key /\ m \in [DOMAIN m -> Nat]
         /\ \A k \in Key : Get(m, k) # None <=> k \in DOMAIN m
         /\ \A k \in DOMAIN m : Get(m, k) = m[k]
<1>1. PICK S \in SUBSET Key : m \in [S -> Nat]
  BY DEF Map
<1>2. DOMAIN m = S
  BY <1>1
<1>3. \A k \in DOMAIN m : m[k] \in Nat /\ m[k] # None
  BY <1>1, <1>2, BoundsAssumption
<1>4. QED
  BY <1>1, <1>2, <1>3 DEF Get

LEMMA PutType ==
  ASSUME NEW m \in Map, NEW key \in Key, NEW l \in Nat
  PROVE  /\ Put(m, key, l) \in Map
         /\ DOMAIN Put(m, key, l) = DOMAIN m \cup {key}
         /\ Put(m, key, l)[key] = l
         /\ \A k \in DOMAIN m \ {key} : Put(m, key, l)[k] = m[k]
<1>1. DOMAIN m \in SUBSET Key /\ m \in [DOMAIN m -> Nat]
  BY MapType
<1>2. Put(m, key, l) \in [DOMAIN m \cup {key} -> Nat]
  BY <1>1 DEF Put
<1>3. DOMAIN m \cup {key} \in SUBSET Key
  BY <1>1
<1>4. Put(m, key, l) \in Map
  BY <1>2, <1>3 DEF Map
<1>5. QED
  BY <1>4 DEF Put

LEMMA EmptyType == Empty \in Map /\ DOMAIN Empty = {}
<1>1. Empty \in [{} -> Nat]
  BY DEF Empty
<1>2. {} \in SUBSET Key
  OBVIOUS
<1>3. QED
  BY <1>1, <1>2 DEF Map, Empty

LEMMA KeysCount ==
  ASSUME NEW S \in SUBSET Key
  PROVE  /\ IsFiniteSet(S) /\ Cardinality(S) \in Nat
         /\ \A k \in Key \ S : Cardinality(S \cup {k}) = Cardinality(S) + 1
         /\ \A R \in SUBSET S : Cardinality(R) \in Nat /\ Cardinality(R) <= Cardinality(S)
<1>1. IsFiniteSet(S)
  BY KeyAssumption, FS_Subset
<1>2. Cardinality(S) \in Nat
  BY <1>1, FS_CardinalityType
<1>3. \A k \in Key \ S : Cardinality(S \cup {k}) = Cardinality(S) + 1
  BY <1>1, FS_AddElement
<1>4. ASSUME NEW R \in SUBSET S
      PROVE  Cardinality(R) \in Nat /\ Cardinality(R) <= Cardinality(S)
  BY <1>1, FS_Subset, FS_CardinalityType
<1>5. QED
  BY <1>1, <1>2, <1>3, <1>4

LEMMA RowIsSeq ==
  ASSUME NEW S, NEW n \in Nat, NEW f \in [1..n -> S]
  PROVE  f \in Seq(S) /\ Len(f) = n
<1>1. f \in Seq(S)
  BY SeqDef
<1>2. Len(f) \in Nat /\ 1..Len(f) = 1..n
  BY <1>1, LenProperties
<1>3. QED
  BY <1>2

\* The groups, and the history kept per group, are sequences of one length.
LEMMA GroupType ==
  ASSUME TypeOK, MapInv
  PROVE  /\ Group = 1..Len(groups) /\ Len(groups) \in Nat /\ Len(groups) >= 1
         /\ \A g \in Group : /\ groups[g] \in [cur : Map, prev : Map]
                             /\ Held(groups[g]) \in SUBSET Key
         /\ \A t \in Thread : ruleset[t] \in Group
<1>1. Group = 1..Len(groups) /\ Len(groups) \in Nat
  BY LenProperties DEF MapInv, Group
<1>2. \A g \in Group : groups[g] \in [cur : Map, prev : Map]
  BY <1>1, ElementOfSeq DEF MapInv
<1>3. \A g \in Group : Held(groups[g]) \in SUBSET Key
  BY <1>2, MapType DEF Held
<1>4. Len(groups) >= 1 /\ \A t \in Thread : ruleset[t] \in Group
  BY BoundsAssumption DEF TypeOK
<1>5. QED
  BY <1>1, <1>2, <1>3, <1>4

\* The limiters made for a key.
LEMMA CreatedType ==
  ASSUME TypeOK, NEW g, NEW k
  PROVE  /\ IsFiniteSet(Owned(g, k)) /\ Created(g, k) \in Nat
         /\ g \notin Group => Created(g, k) = 0
<1>1. owner \in Seq(Group \X Key)
  BY DEF TypeOK
<1>2. Len(owner) \in Nat /\ DOMAIN owner = 1..Len(owner)
  BY <1>1, LenProperties
<1>3. IsFiniteSet(1..Len(owner))
  BY <1>2, FS_Interval
<1>4. Owned(g, k) \subseteq 1..Len(owner)
  BY <1>2 DEF Owned
<1>5. IsFiniteSet(Owned(g, k))
  BY <1>3, <1>4, FS_Subset
<1>6. Created(g, k) \in Nat
  BY <1>5, FS_CardinalityType DEF Created
<1>7. ASSUME g \notin Group PROVE Created(g, k) = 0
  <2>1. \A l \in 1..Len(owner) : owner[l] \in Group \X Key
    BY <1>1, <1>2, ElementOfSeq
  <2>2. Owned(g, k) = {}
    BY <1>2, <1>7, <2>1 DEF Owned
  <2>3. QED
    BY <2>2, FS_EmptySet DEF Created
<1>8. QED
  BY <1>5, <1>6, <1>7

LEMMA CreatedStays ==
  ASSUME UNCHANGED owner
  PROVE  \A g, k : Owned(g, k)' = Owned(g, k) /\ Created(g, k)' = Created(g, k)
BY DEF Owned, Created

LEMMA CreatedGrows ==
  ASSUME TypeOK, NEW g \in Group, NEW key \in Key, owner' = Append(owner, <<g, key>>)
  PROVE  /\ owner' \in Seq(Group \X Key) /\ Len(owner') = Len(owner) + 1
         /\ owner'[Len(owner) + 1] = <<g, key>>
         /\ \A l \in DOMAIN owner : owner'[l] = owner[l]
         /\ Owned(g, key)' = Owned(g, key) \cup {Len(owner) + 1}
         /\ Len(owner) + 1 \notin Owned(g, key)
         /\ Created(g, key)' = Created(g, key) + 1
         /\ \A h, k : h # g \/ k # key =>
              Owned(h, k)' = Owned(h, k) /\ Created(h, k)' = Created(h, k)
<1>1. owner \in Seq(Group \X Key) /\ <<g, key>> \in Group \X Key
  BY DEF TypeOK
<1>2. Len(owner) \in Nat /\ DOMAIN owner = 1..Len(owner)
  BY <1>1, LenProperties
<1>3. /\ owner' \in Seq(Group \X Key) /\ Len(owner') = Len(owner) + 1
      /\ owner'[Len(owner) + 1] = <<g, key>>
      /\ \A l \in 1..Len(owner) : owner'[l] = owner[l]
  BY <1>1, AppendProperties
<1>4. DOMAIN owner' = DOMAIN owner \cup {Len(owner) + 1} /\ Len(owner) + 1 \notin DOMAIN owner
  BY <1>2, <1>3, LenProperties
<1>5. /\ Owned(g, key)' = Owned(g, key) \cup {Len(owner) + 1}
      /\ Len(owner) + 1 \notin Owned(g, key)
  BY <1>2, <1>3, <1>4 DEF Owned
<1>6. Created(g, key)' = Created(g, key) + 1
  BY <1>5, CreatedType, FS_AddElement DEF Created
<1>7. ASSUME NEW h, NEW k, h # g \/ k # key
      PROVE  Owned(h, k)' = Owned(h, k) /\ Created(h, k)' = Created(h, k)
  <2>1. <<g, key>> # <<h, k>>
    BY <1>7
  <2>2. Owned(h, k)' = Owned(h, k)
    BY <1>2, <1>3, <1>4, <2>1 DEF Owned
  <2>3. QED
    BY <2>2 DEF Created
<1>8. QED
  BY <1>2, <1>3, <1>5, <1>6, <1>7

\* What a use of a key does to the idle times.
LEMMA UseType ==
  ASSUME TypeOK, NEW g \in Group, NEW key \in Key, Use(g, key), Group' = Group
  PROVE  /\ since' \in [Group -> [Key -> SUBSET Key]]
         /\ \A k \in Key \ {key} : since'[g][k] = since[g][k] \cup {key}
         /\ \A h \in Group, k \in Key \ {key} : since[h][k] \subseteq since'[h][k]
         /\ \A h \in Group \ {g} : since'[h] = since[h]
<1> DEFINE now == [k \in Key |-> IF k = key THEN {} ELSE since[g][k] \cup {key}]
<1>1. since \in [Group -> [Key -> SUBSET Key]]
  BY DEF TypeOK
<1>2. since' = [since EXCEPT ![g] = now]
  BY <1>1 DEF Use
<1>3. now \in [Key -> SUBSET Key]
  BY <1>1
<1> HIDE DEF now
<1>4. since' \in [Group -> [Key -> SUBSET Key]] /\ since'[g] = now
  BY <1>1, <1>2, <1>3
<1>5. \A h \in Group \ {g} : since'[h] = since[h]
  BY <1>1, <1>2
<1>6. \A k \in Key \ {key} : now[k] = since[g][k] \cup {key}
  BY DEF now
<1>7. QED
  BY <1>4, <1>5, <1>6

\* A key the current generation holds is used.
LEMMA UseHeld ==
  ASSUME IInv, NEW g \in Group, NEW key \in DOMAIN groups[g].cur, Use(g, key),
         UNCHANGED <<groups, owner, evicted>>
  PROVE  /\ since' \in [Group -> [Key -> SUBSET Key]]
         /\ IdleInv' /\ EvictedOnlyUnderChurn'
<1>0. TypeOK /\ MapInv /\ IdleInv /\ EvictedOnlyUnderChurn /\ Group' = Group
  BY DEF IInv, Group
<1>c. \A h, k : Created(h, k)' = Created(h, k)
  BY CreatedStays
<1>1. key \in Key
  BY <1>0, GroupType, MapType
<1>2. /\ since' \in [Group -> [Key -> SUBSET Key]]
      /\ \A h \in Group, k \in Key \ {key} : since[h][k] \subseteq since'[h][k]
      /\ \A h \in Group \ {g} : since'[h] = since[h]
  BY <1>0, <1>1, UseType
<1>3. IdleInv'
  BY <1>0, <1>2 DEF IdleInv
<1>4. EvictedOnlyUnderChurn'
  <2> SUFFICES ASSUME NEW h \in Group, NEW k \in Key, Created(h, k) > 0,
                      k \notin Held(groups[h])
               PROVE  Cardinality(since'[h][k]) > MaxKeys
    BY <1>0, <1>c DEF EvictedOnlyUnderChurn, Held
  <2>1. Cardinality(since[h][k]) > MaxKeys
    BY <1>0 DEF EvictedOnlyUnderChurn
  <2>2. since[h][k] \subseteq since'[h][k] /\ since'[h][k] \in SUBSET Key
    <3>1. CASE h = g
      BY <3>1, <1>2 DEF Held
    <3>2. CASE h # g
      BY <3>2, <1>2, <1>0 DEF TypeOK
    <3>3. QED
      BY <3>1, <3>2
  <2>3. QED
    BY <2>1, <2>2, KeysCount, BoundsAssumption
<1>5. QED
  BY <1>2, <1>3, <1>4

-----------------------------------------------------------------------------
(* The inductive invariant. *)

LEMMA InitIInv == Init => IInv
<1>1. SUFFICES ASSUME Init PROVE IInv
  OBVIOUS
<1>2. /\ groups = <<NewGroup>> /\ tokens = << >>
      /\ DOMAIN groups = {1} /\ groups[1] = NewGroup
      /\ owner = << >> /\ evicted[1] = Zero /\ since[1] = Unused /\ admitted[1] = Zero
  BY <1>1 DEF Init
<1>3. NewGroup \in [cur : Map, prev : Map] /\ Held(NewGroup) = {}
  BY EmptyType DEF NewGroup, Held
<1>4. Zero \in [Key -> Nat] /\ Unused \in [Key -> SUBSET Key]
  BY DEF Zero, Unused
<1>5. TypeOK
  <2>1. \A g \in Group, m \in {"cur", "prev"} :
          \E S \in SUBSET Key : groups[g][m] \in [S -> Limiter]
    <3>1. Empty \in [{} -> Limiter] /\ {} \in SUBSET Key
      BY DEF Empty
    <3>2. \A m \in {"cur", "prev"} : NewGroup[m] = Empty
      BY DEF NewGroup
    <3>3. QED
      BY <1>2, <3>1, <3>2 DEF Group
  <2>2. Len(groups) \in 1..MaxGroups /\ tokens \in Seq(0..Burst)
    BY <1>2, BoundsAssumption
  <2>3. ruleset \in [Thread -> Group] /\ at \in [Thread -> At]
    BY <1>1, <1>2 DEF Init, Group, At
  <2>4. /\ evicted \in [Group -> [Key -> Nat]] /\ admitted \in [Group -> [Key -> Nat]]
        /\ since \in [Group -> [Key -> SUBSET Key]]
    BY <1>1, <1>2, <1>4 DEF Init, Group
  <2>5. /\ calls \in 0..MaxCalls /\ elapsed \in 0..MaxElapsed
        /\ owner \in Seq(Group \X Key) /\ Len(owner) = Len(tokens)
    BY <1>1, <1>2, BoundsAssumption DEF Init
  <2>6. QED
    BY <2>1, <2>2, <2>3, <2>4, <2>5 DEF TypeOK
<1>6. MapInv
  BY <1>1, <1>2, <1>3, EmptyType DEF Init, MapInv, Group, NewGroup, Idle
<1>7. IdleInv
  BY <1>2, EmptyType DEF IdleInv, Group, NewGroup
<1>8. RetentionBounded
  <2>1. \A m \in {"cur", "prev"} : NewGroup[m] = Empty
    BY DEF NewGroup
  <2>2. QED
    BY <1>2, <2>1, EmptyType, FS_EmptySet, BoundsAssumption DEF RetentionBounded, Group
<1>c. \A g, k : Created(g, k) = 0
  <2>1. \A g, k : Owned(g, k) = {}
    BY <1>2 DEF Owned
  <2>2. QED
    BY <2>1, FS_EmptySet DEF Created
<1>9. OneLimiterPerKey
  BY <1>2, <1>3, <1>c, EmptyType DEF OneLimiterPerKey, Group, Zero, NewGroup
<1>10. EvictedOnlyUnderChurn
  BY <1>c DEF EvictedOnlyUnderChurn
<1>11. QED
  BY <1>5, <1>6, <1>7, <1>8, <1>9, <1>10 DEF IInv

\* A new ruleset's group starts empty, and no other changes.
LEMMA RepublishStep ==
  ASSUME IInv, Republish
  PROVE  IInv'
<1> DEFINE n == Len(groups) + 1
<1>0. TypeOK /\ MapInv /\ IdleInv /\ RetentionBounded /\ OneLimiterPerKey /\ EvictedOnlyUnderChurn
  BY DEF IInv
<1>1. /\ Group = 1..Len(groups) /\ Len(groups) \in Nat
      /\ NewGroup \in [cur : Map, prev : Map] /\ Held(NewGroup) = {}
      /\ Zero \in [Key -> Nat] /\ Unused \in [Key -> SUBSET Key]
  BY <1>0, GroupType, EmptyType DEF NewGroup, Held, Zero, Unused
<1>2. /\ groups' \in Seq([cur : Map, prev : Map])
      /\ Len(groups') = n /\ groups'[n] = NewGroup
      /\ \A g \in Group : groups'[g] = groups[g]
  BY <1>0, <1>1, AppendProperties DEF Republish, MapInv
<1>3. Group' = Group \cup {n} /\ n \notin Group
  BY <1>1, <1>2, LenProperties DEF Group
<1>4. /\ \A h, k : Created(h, k)' = Created(h, k)
      /\ \A k : Created(n, k) = 0
  BY <1>0, <1>3, CreatedStays, CreatedType DEF Republish
<1>5. /\ evicted' \in [Group' -> [Key -> Nat]] /\ evicted'[n] = Zero
      /\ \A g \in Group : evicted'[g] = evicted[g]
  <2>0. evicted \in [1..Len(groups) -> [Key -> Nat]]
    BY <1>0, <1>1 DEF TypeOK
  <2>1. evicted \in Seq([Key -> Nat]) /\ Len(evicted) = Len(groups)
    BY <2>0, <1>1, RowIsSeq
  <2>2. /\ evicted' \in Seq([Key -> Nat]) /\ Len(evicted') = n /\ evicted'[n] = Zero
        /\ \A g \in Group : evicted'[g] = evicted[g]
    BY <2>1, <1>1, AppendProperties DEF Republish
  <2>3. QED
    BY <2>2, <1>3, <1>1, LenProperties
<1>a. admitted' \in [Group' -> [Key -> Nat]]
  <2>0. admitted \in [1..Len(groups) -> [Key -> Nat]]
    BY <1>0, <1>1 DEF TypeOK
  <2>1. admitted \in Seq([Key -> Nat]) /\ Len(admitted) = Len(groups)
    BY <2>0, <1>1, RowIsSeq
  <2>2. admitted' \in Seq([Key -> Nat]) /\ Len(admitted') = n
    BY <2>1, <1>1, AppendProperties DEF Republish
  <2>3. QED
    BY <2>2, <1>3, <1>1, LenProperties
<1>6. /\ since' \in [Group' -> [Key -> SUBSET Key]]
      /\ \A g \in Group : since'[g] = since[g]
  <2>1. since \in Seq([Key -> SUBSET Key]) /\ Len(since) = Len(groups)
    BY <1>0, <1>1, RowIsSeq DEF TypeOK
  <2>2. /\ since' \in Seq([Key -> SUBSET Key]) /\ Len(since') = n
        /\ \A g \in Group : since'[g] = since[g]
    BY <2>1, <1>1, AppendProperties DEF Republish
  <2>3. QED
    BY <2>2, <1>3, <1>1, LenProperties
<1>7. Limiter' = Limiter /\ UNCHANGED <<tokens, ruleset, at, calls, elapsed, owner>>
  BY DEF Republish, Limiter
<1>8. NewGroup.cur = Empty /\ NewGroup.prev = Empty
      /\ \A m \in {"cur", "prev"} : NewGroup[m] = Empty
  BY DEF NewGroup
<1> HIDE DEF n
<1>9. TypeOK'
  <2>1. \A g \in Group', m \in {"cur", "prev"} :
          \E S \in SUBSET Key : groups'[g][m] \in [S -> Limiter]
    <3> SUFFICES ASSUME NEW g \in Group', NEW m \in {"cur", "prev"}
                 PROVE  \E S \in SUBSET Key : groups'[g][m] \in [S -> Limiter]
      OBVIOUS
    <3>1. CASE g \in Group
      BY <3>1, <1>0, <1>2 DEF TypeOK
    <3>2. CASE g = n
      <4>1. Empty \in [{} -> Limiter] /\ {} \in SUBSET Key
        BY DEF Empty
      <4>2. QED
        BY <3>2, <4>1, <1>2, <1>8
    <3>3. QED
      BY <3>1, <3>2, <1>3
  <2>2. Len(groups') \in 1..MaxGroups
    BY <1>1, <1>2, BoundsAssumption DEF Republish, n
  <2>3. ruleset' \in [Thread -> Group'] /\ at' \in [Thread -> At]
    BY <1>0, <1>3, <1>7 DEF TypeOK
  <2>4. owner' \in Seq(Group' \X Key) /\ Len(owner') = Len(tokens')
    <3>1. Group \X Key \subseteq Group' \X Key
      BY <1>3
    <3>2. owner \in Seq(Group' \X Key)
      BY <1>0, <3>1, SeqMonotonic DEF TypeOK
    <3>3. QED
      BY <1>0, <1>7, <3>2 DEF TypeOK
  <2>5. QED
    BY <1>0, <1>5, <1>6, <1>7, <1>a, <2>1, <2>2, <2>3, <2>4 DEF TypeOK, Limiter, At
<1>10. MapInv'
  BY <1>0, <1>2, <1>3, <1>7, <1>8, EmptyType DEF MapInv
<1>11. IdleInv'
  BY <1>0, <1>2, <1>3, <1>6, <1>8, EmptyType DEF IdleInv
<1>12. RetentionBounded'
  BY <1>0, <1>2, <1>3, <1>8, EmptyType, FS_EmptySet, BoundsAssumption DEF RetentionBounded
<1>13. OneLimiterPerKey'
  <2>1. \A g \in Group', k \in Key :
          Created(g, k)' = evicted'[g][k] + (IF k \in Held(groups'[g]) THEN 1 ELSE 0)
    <3> SUFFICES ASSUME NEW g \in Group', NEW k \in Key
                 PROVE  Created(g, k)' = evicted'[g][k] + (IF k \in Held(groups'[g]) THEN 1 ELSE 0)
      OBVIOUS
    <3>1. CASE g \in Group
      BY <3>1, <1>0, <1>2, <1>4, <1>5 DEF OneLimiterPerKey
    <3>2. CASE g = n
      BY <3>2, <1>1, <1>2, <1>4, <1>5 DEF Zero
    <3>3. QED
      BY <3>1, <3>2, <1>3
  <2>2. \A g \in Group' : \A k \in DOMAIN groups'[g].cur \cap DOMAIN groups'[g].prev :
          groups'[g].cur[k] = groups'[g].prev[k]
    BY <1>0, <1>2, <1>3, <1>8, EmptyType DEF OneLimiterPerKey
  <2>3. QED
    BY <2>1, <2>2 DEF OneLimiterPerKey, Held
<1>14. EvictedOnlyUnderChurn'
  <2> SUFFICES ASSUME NEW g \in Group', NEW k \in Key, Created(g, k)' > 0,
                      k \notin Held(groups'[g])
               PROVE  Cardinality(since'[g][k]) > MaxKeys
    BY DEF EvictedOnlyUnderChurn, Held
  <2>1. g \in Group
    BY <1>3, <1>4
  <2>2. QED
    BY <2>1, <1>0, <1>2, <1>4, <1>6 DEF EvictedOnlyUnderChurn
<1>15. QED
  BY <1>9, <1>10, <1>11, <1>12, <1>13, <1>14 DEF IInv

\* The steps that leave the maps alone.
LEMMA NextBatchStep ==
  ASSUME IInv, NEW t \in Thread, NextBatch(t)
  PROVE  IInv'
<1>0. TypeOK /\ MapInv /\ IdleInv /\ RetentionBounded /\ OneLimiterPerKey /\ EvictedOnlyUnderChurn
  BY DEF IInv
<1>1. UNCHANGED <<groups, tokens, at, calls, elapsed, owner, evicted, since, admitted>>
  BY DEF NextBatch, history
<1>2. Group' = Group /\ Limiter' = Limiter /\ At' = At
  BY <1>1 DEF Group, Limiter, At
<1>3. Len(groups) \in Group
  BY <1>0, GroupType
<1>4. ruleset' \in [Thread -> Group]
  BY <1>0, <1>3 DEF TypeOK, NextBatch
<1>5. TypeOK'
  BY <1>0, <1>1, <1>2, <1>4 DEF TypeOK
<1>6. MapInv' /\ IdleInv'
  BY <1>0, <1>1, <1>2 DEF MapInv, IdleInv
<1>c. \A g, k : Created(g, k)' = Created(g, k)
  BY <1>1, CreatedStays
<1>7. RetentionBounded' /\ OneLimiterPerKey' /\ EvictedOnlyUnderChurn'
  BY <1>0, <1>1, <1>2, <1>c DEF RetentionBounded, OneLimiterPerKey, EvictedOnlyUnderChurn, Held
<1>8. QED
  BY <1>5, <1>6, <1>7 DEF IInv

\* What a goroutine inside allow carries.
LEMMA AtType ==
  ASSUME TypeOK, NEW t \in Thread
  PROVE  /\ at[t].step = "miss" => at[t].key \in Key
         /\ at[t].step = "take" => at[t].key \in Key /\ at[t].limiter \in Nat
<1>1. at[t] \in At
  BY DEF TypeOK
<1>2. QED
  BY <1>1 DEF At, Idle

\* What the maps' keys and the history say does not depend on goroutines.
LEMMA MapsUnchanged ==
  ASSUME IInv, UNCHANGED <<groups, owner, evicted>>
  PROVE  RetentionBounded' /\ OneLimiterPerKey'
<1>1. \A g, k : Created(g, k)' = Created(g, k)
  BY CreatedStays
<1>2. QED
  BY <1>1 DEF IInv, RetentionBounded, OneLimiterPerKey, Held, Group

\* A goroutine that finds its key in the current generation takes the limiter.
LEMMA FoundStep ==
  ASSUME IInv, NEW t \in Thread, NEW key \in DOMAIN groups[ruleset[t]].cur,
         at' = [at EXCEPT ![t] =
           [step |-> "take", key |-> key, limiter |-> groups[ruleset[t]].cur[key]]],
         Use(ruleset[t], key), calls' \in 0..MaxCalls,
         UNCHANGED <<groups, tokens, ruleset, elapsed, owner, evicted, admitted>>
  PROVE  IInv'
<1>0. TypeOK /\ MapInv /\ Group' = Group /\ Limiter' = Limiter
  BY DEF IInv, Group, Limiter
<1>1. /\ ruleset[t] \in Group /\ key \in Key
      /\ groups[ruleset[t]].cur[key] \in Limiter
  BY <1>0, GroupType, MapType DEF MapInv
<1>2. groups[ruleset[t]].cur[key] \in Nat
  BY <1>0, <1>1, GroupType, MapType
<1>3. since' \in [Group -> [Key -> SUBSET Key]] /\ IdleInv' /\ EvictedOnlyUnderChurn'
  BY <1>1, UseHeld
<1>4. at' \in [Thread -> At]
  <2>1. [step |-> "take", key |-> key, limiter |-> groups[ruleset[t]].cur[key]] \in At
    BY <1>1, <1>2 DEF At
  <2>2. QED
    BY <2>1, <1>0 DEF TypeOK
<1>5. TypeOK'
  BY <1>0, <1>3, <1>4 DEF TypeOK, At, Limiter
<1>6. MapInv'
  <2>1. \A u \in Thread : at'[u].step = "take" => at'[u].limiter \in Limiter
    BY <1>0, <1>1 DEF MapInv, TypeOK
  <2>2. QED
    BY <2>1, <1>0 DEF MapInv
<1>7. QED
  BY <1>3, <1>5, <1>6, MapsUnchanged DEF IInv

LEMMA LookupStep ==
  ASSUME IInv, NEW t \in Thread, NEW raw \in Key, Lookup(t, raw)
  PROVE  IInv'
<1> DEFINE key == Short(raw)
           m   == groups[ruleset[t]].cur
<1>0. TypeOK /\ MapInv /\ IdleInv /\ EvictedOnlyUnderChurn
  BY DEF IInv
<1>1. key \in Key /\ ruleset[t] \in Group /\ m \in Map
  BY <1>0, KeyAssumption, GroupType
<1>2. Get(m, key) # None <=> key \in DOMAIN m
  BY <1>1, MapType
<1>3. calls' \in 0..MaxCalls
  BY <1>0, BoundsAssumption DEF Lookup, TypeOK
<1>4. CASE key \in DOMAIN m
  <2>1. Get(m, key) = m[key]
    BY <1>4 DEF Get
  <2>2. QED
    BY <1>2, <1>3, <1>4, <2>1, FoundStep DEF Lookup
<1>5. CASE key \notin DOMAIN m
  <2>1. /\ at' = [at EXCEPT ![t] = [step |-> "miss", key |-> key]]
        /\ UNCHANGED <<groups, tokens, ruleset, elapsed, owner, evicted, since, admitted>>
    BY <1>2, <1>5 DEF Lookup
  <2>2. Group' = Group /\ Limiter' = Limiter
    BY <2>1 DEF Group, Limiter
  <2>3. [step |-> "miss", key |-> key] \in At
    BY <1>1 DEF At
  <2> HIDE DEF key
  <2>4. at' \in [Thread -> At]
    BY <2>1, <2>3, <1>0 DEF TypeOK
  <2>5. TypeOK'
    BY <1>0, <1>3, <2>1, <2>2, <2>4 DEF TypeOK, At
  <2>6. \A u \in Thread : at'[u].step = "take" => at'[u].limiter \in Limiter
    BY <1>0, <2>1 DEF MapInv, TypeOK
  <2>c. \A g, k : Created(g, k)' = Created(g, k)
    BY <2>1, CreatedStays
  <2>7. MapInv' /\ IdleInv' /\ EvictedOnlyUnderChurn'
    BY <1>0, <2>1, <2>2, <2>6, <2>c DEF MapInv, IdleInv, EvictedOnlyUnderChurn, Held
  <2>8. QED
    BY <2>1, <2>5, <2>7, MapsUnchanged DEF IInv
<1>6. QED
  BY <1>4, <1>5

LEMMA FindCreatedStep ==
  ASSUME IInv, NEW t \in Thread, FindCreated(t)
  PROVE  IInv'
<1>1. at[t].key \in DOMAIN groups[ruleset[t]].cur
  BY DEF FindCreated, CreatedMeanwhile
<1>2. calls' \in 0..MaxCalls
  BY DEF FindCreated, IInv, TypeOK
<1>3. QED
  BY <1>1, <1>2, FoundStep DEF FindCreated

\* The steps that only move tokens.
LEMMA TakeStep ==
  ASSUME IInv, NEW t \in Thread, Take(t)
  PROVE  IInv'
<1> DEFINE l == at[t].limiter
<1>0. TypeOK /\ MapInv /\ IdleInv /\ EvictedOnlyUnderChurn
  BY DEF IInv
<1>1. l \in Limiter /\ at[t].key \in Key
  BY <1>0, AtType DEF Take, MapInv
<1>2. UNCHANGED <<groups, ruleset, calls, elapsed, owner, evicted, since>>
  BY DEF Take
<1>3. tokens' \in Seq(0..Burst) /\ Len(tokens') = Len(tokens)
  <2>1. tokens \in Seq(0..Burst) /\ l \in 1..Len(tokens)
    BY <1>0, <1>1 DEF TypeOK, Limiter
  <2>2. tokens[l] \in 0..Burst
    BY <2>1, ElementOfSeq
  <2>3. CASE tokens[l] > 0
    <3>1. tokens[l] - 1 \in 0..Burst
      BY <2>2, <2>3, BoundsAssumption
    <3>2. tokens' = [tokens EXCEPT ![l] = tokens[l] - 1]
      BY <2>3 DEF Take
    <3>3. QED
      BY <2>1, <3>1, <3>2, ExceptSeq
  <2>4. CASE ~(tokens[l] > 0)
    BY <2>1, <2>4 DEF Take
  <2>5. QED
    BY <2>3, <2>4
<1>4. admitted' \in [Group -> [Key -> Nat]]
  <2>0. ruleset[t] \in Group
    BY <1>0, GroupType
  <2>1. admitted \in [Group -> [Key -> Nat]]
    BY <1>0 DEF TypeOK
  <2>2. \/ UNCHANGED admitted
        \/ admitted' = [admitted EXCEPT ![ruleset[t]] =
             [admitted[ruleset[t]] EXCEPT ![at[t].key] = admitted[ruleset[t]][at[t].key] + 1]]
    BY DEF Take
  <2>3. [admitted[ruleset[t]] EXCEPT ![at[t].key] = admitted[ruleset[t]][at[t].key] + 1]
          \in [Key -> Nat]
    BY <1>1, <2>0, <2>1
  <2>4. QED
    BY <2>0, <2>1, <2>2, <2>3
<1>5. Group' = Group /\ Limiter' = Limiter
  BY <1>2, <1>3 DEF Group, Limiter
<1>6. at' = [at EXCEPT ![t] = Idle]
  BY DEF Take
<1>7. at' \in [Thread -> At]
  BY <1>0, <1>6 DEF TypeOK, At
<1>8. TypeOK'
  BY <1>0, <1>2, <1>3, <1>4, <1>5, <1>7 DEF TypeOK, At
<1>9. \A u \in Thread : at'[u].step = "take" => at'[u].limiter \in Limiter
  BY <1>0, <1>6 DEF MapInv, TypeOK, Idle
<1>c. \A g, k : Created(g, k)' = Created(g, k)
  BY <1>2, CreatedStays
<1>10. MapInv' /\ IdleInv' /\ EvictedOnlyUnderChurn'
  BY <1>0, <1>2, <1>5, <1>9, <1>c DEF MapInv, IdleInv, EvictedOnlyUnderChurn, Held
<1>11. QED
  BY <1>2, <1>8, <1>10, MapsUnchanged DEF IInv

LEMMA ElapseStep ==
  ASSUME IInv, Elapse
  PROVE  IInv'
<1>0. TypeOK /\ MapInv /\ IdleInv /\ EvictedOnlyUnderChurn
  BY DEF IInv
<1>1. UNCHANGED <<groups, ruleset, at, calls, owner, evicted, since, admitted>>
  BY DEF Elapse, history
<1>2. tokens' \in Seq(0..Burst) /\ Len(tokens') = Len(tokens)
  <2>1. tokens \in Seq(0..Burst) /\ Len(tokens) \in Nat
    BY <1>0, LenProperties DEF TypeOK
  <2>2. \A l \in Limiter : tokens[l] \in 0..Burst
    BY <2>1, ElementOfSeq DEF Limiter
  <2>3. tokens' \in [1..Len(tokens) -> 0..Burst]
    BY <2>2, BoundsAssumption DEF Elapse, Limiter
  <2>4. QED
    BY <2>1, <2>3, RowIsSeq
<1>3. Group' = Group /\ Limiter' = Limiter
  BY <1>1, <1>2 DEF Group, Limiter
<1>4. elapsed' \in 0..MaxElapsed
  BY <1>0, BoundsAssumption DEF Elapse, TypeOK
<1>5. TypeOK'
  BY <1>0, <1>1, <1>2, <1>3, <1>4 DEF TypeOK, At
<1>c. \A g, k : Created(g, k)' = Created(g, k)
  BY <1>1, CreatedStays
<1>6. MapInv' /\ IdleInv' /\ EvictedOnlyUnderChurn'
  BY <1>0, <1>1, <1>3, <1>c DEF MapInv, IdleInv, EvictedOnlyUnderChurn, Held
<1>7. QED
  BY <1>1, <1>5, <1>6, MapsUnchanged DEF IInv

\* Inserting a key: the shape of the group after it.
Inserted(group, key, l) == [Rotated(group) EXCEPT !.cur = Put(@, key, l)]

LEMMA InsertedType ==
  ASSUME NEW group \in [cur : Map, prev : Map], NEW key \in Key, NEW l \in Nat
  PROVE  LET after == Inserted(group, key, l) IN
         /\ after \in [cur : Map, prev : Map]
         /\ after.cur[key] = l
         /\ Full(group) =>
              DOMAIN after.cur = {key} /\ after.prev = group.cur
         /\ ~Full(group) =>
              /\ DOMAIN after.cur = DOMAIN group.cur \cup {key} /\ after.prev = group.prev
              /\ \A k \in DOMAIN group.cur \ {key} : after.cur[k] = group.cur[k]
<1> DEFINE after == Inserted(group, key, l)
<1>1. CASE Full(group)
  <2>1. Rotated(group) = [cur |-> Empty, prev |-> group.cur]
    BY <1>1 DEF Rotated
  <2>2. after = [cur |-> Put(Empty, key, l), prev |-> group.cur]
    BY <2>1 DEF Inserted
  <2>3. /\ Put(Empty, key, l) \in Map /\ DOMAIN Put(Empty, key, l) = {key}
        /\ Put(Empty, key, l)[key] = l
    <3>1. Empty \in Map /\ DOMAIN Empty \cup {key} = {key}
      BY EmptyType
    <3> HIDE DEF Empty
    <3>2. QED
      BY <3>1, PutType
  <2>4. /\ after.cur = Put(Empty, key, l) /\ after.prev = group.cur
        /\ group.cur \in Map
    BY <2>2
  <2>5. after \in [cur : Map, prev : Map]
    BY <2>2, <2>3, <2>4
  <2>6. QED
    BY <1>1, <2>3, <2>4, <2>5
<1>2. CASE ~Full(group)
  <2>1. Rotated(group) = group
    BY <1>2 DEF Rotated
  <2>2. after = [cur |-> Put(group.cur, key, l), prev |-> group.prev]
    BY <2>1 DEF Inserted
  <2>3. /\ after.cur = Put(group.cur, key, l) /\ after.prev = group.prev
        /\ group.cur \in Map /\ group.prev \in Map
    BY <2>2
  <2>4. /\ Put(group.cur, key, l) \in Map
        /\ DOMAIN Put(group.cur, key, l) = DOMAIN group.cur \cup {key}
        /\ Put(group.cur, key, l)[key] = l
        /\ \A k \in DOMAIN group.cur \ {key} : Put(group.cur, key, l)[k] = group.cur[k]
    BY <2>3, PutType
  <2>5. after \in [cur : Map, prev : Map]
    BY <2>2, <2>3, <2>4
  <2>6. QED
    BY <1>2, <2>3, <2>4, <2>5
<1>3. QED
  BY <1>1, <1>2

LEMMA InsertKeyStep ==
  ASSUME IInv, NEW t \in Thread, Insert(t),
         NEW g, g = ruleset[t], NEW key, key = at[t].key
  PROVE  IInv'
<1> DEFINE group == groups[g]
           l     == IF Promotes(group, key) THEN group.prev[key] ELSE Len(tokens) + 1
           after == [Rotated(group) EXCEPT !.cur = Put(@, key, l)]
<1>0. /\ TypeOK /\ MapInv /\ IdleInv
      /\ RetentionBounded /\ OneLimiterPerKey /\ EvictedOnlyUnderChurn
  BY DEF IInv
<1>1. /\ at[t].step = "miss" /\ key \notin DOMAIN group.cur
      /\ groups' = [groups EXCEPT ![g] = after]
      /\ at' = [at EXCEPT ![t] = [step |-> "take", key |-> key, limiter |-> l]]
      /\ evicted' = [evicted EXCEPT ![g] = [k \in Key |->
           IF k \in Held(group) \ Held(after) THEN evicted[g][k] + 1 ELSE evicted[g][k]]]
      /\ Use(g, key)
      /\ UNCHANGED <<ruleset, calls, elapsed, admitted>>
  BY DEF Insert, CreatedMeanwhile
<1>2. IF key \in DOMAIN group.prev
      THEN UNCHANGED <<tokens, owner>>
      ELSE tokens' = Append(tokens, FirstTokens) /\ owner' = Append(owner, <<g, key>>)
  BY DEF Insert, Promotes
<1>3. /\ Group = 1..Len(groups) /\ Len(groups) \in Nat
      /\ g \in Group /\ key \in Key /\ group \in [cur : Map, prev : Map]
      /\ Held(group) = DOMAIN group.cur \cup DOMAIN group.prev
      /\ DOMAIN group.cur \in SUBSET Key /\ DOMAIN group.prev \in SUBSET Key
  BY <1>0, <1>1, GroupType, AtType, MapType DEF Held
<1>4. /\ tokens' \in Seq(0..Burst) /\ Len(tokens) \in Nat /\ Len(tokens') >= Len(tokens)
      /\ Len(tokens') \in Nat
      /\ key \notin DOMAIN group.prev => Len(tokens') = Len(tokens) + 1
  <2>1. tokens \in Seq(0..Burst) /\ Len(tokens) \in Nat
    BY <1>0, LenProperties DEF TypeOK
  <2>2. FirstTokens \in 0..Burst
    BY BoundsAssumption DEF FirstTokens
  <2>3. CASE key \in DOMAIN group.prev
    BY <1>2, <2>1, <2>3
  <2>4. CASE key \notin DOMAIN group.prev
    <3>1. tokens' = Append(tokens, FirstTokens)
      BY <1>2, <2>4
    <3>2. tokens' \in Seq(0..Burst) /\ Len(tokens') = Len(tokens) + 1
      BY <2>1, <2>2, <3>1, AppendProperties
    <3>3. QED
      BY <2>1, <3>2
  <2>5. QED
    BY <2>3, <2>4
<1>5. l \in Nat /\ l \in Limiter'
  <2>1. CASE key \in DOMAIN group.prev
    <3>1. l = group.prev[key]
      BY <2>1 DEF Promotes
    <3>2. l \in Limiter
      BY <1>0, <1>3, <2>1, <3>1 DEF MapInv
    <3>3. QED
      BY <3>2, <1>4 DEF Limiter
  <2>2. CASE key \notin DOMAIN group.prev
    BY <2>2, <1>4 DEF Promotes, Limiter
  <2>3. QED
    BY <2>1, <2>2
<1>6. \A k \in Limiter : k \in Limiter'
  BY <1>4 DEF Limiter
<1>7. l = group.prev[key] \/ key \notin DOMAIN group.prev
  BY DEF Promotes
<1>8. after = Inserted(group, key, l)
  BY DEF Inserted
<1>9. Held(after) = DOMAIN after.cur \cup DOMAIN after.prev
  BY DEF Held
<1> HIDE DEF l, group, after
<1>10. /\ after \in [cur : Map, prev : Map]
       /\ after.cur[key] = l
       /\ Full(group) => DOMAIN after.cur = {key} /\ after.prev = group.cur
       /\ ~Full(group) =>
            /\ DOMAIN after.cur = DOMAIN group.cur \cup {key} /\ after.prev = group.prev
            /\ \A k \in DOMAIN group.cur \ {key} : after.cur[k] = group.cur[k]
  <2>1. group \in [cur : Map, prev : Map] /\ key \in Key /\ l \in Nat
    BY <1>3, <1>5
  <2>2. QED
    BY <2>1, <1>8, InsertedType
<1>11. /\ groups' \in Seq([cur : Map, prev : Map]) /\ Len(groups') = Len(groups)
       /\ groups'[g] = after
       /\ \A h \in Group \ {g} : groups'[h] = groups[h]
  <2>1. groups \in Seq([cur : Map, prev : Map])
    BY <1>0 DEF MapInv
  <2>2. QED
    BY <2>1, <1>1, <1>3, <1>10, ExceptSeq
<1>12. Group' = Group
  BY <1>3, <1>11, LenProperties DEF Group
<1>13. /\ since' \in [Group -> [Key -> SUBSET Key]]
       /\ \A k \in Key \ {key} : since'[g][k] = since[g][k] \cup {key}
       /\ \A h \in Group, k \in Key \ {key} : since[h][k] \subseteq since'[h][k]
       /\ \A h \in Group \ {g} : since'[h] = since[h]
  BY <1>0, <1>1, <1>3, <1>12, UseType
<1>14. /\ evicted' \in [Group -> [Key -> Nat]]
       /\ \A h \in Group \ {g} : evicted'[h] = evicted[h]
       /\ \A k \in Key : evicted'[g][k] =
            IF k \in Held(group) \ Held(after) THEN evicted[g][k] + 1 ELSE evicted[g][k]
  <2> DEFINE lost == [k \in Key |->
        IF k \in Held(group) \ Held(after) THEN evicted[g][k] + 1 ELSE evicted[g][k]]
  <2>1. evicted \in [Group -> [Key -> Nat]]
    BY <1>0 DEF TypeOK
  <2>2. lost \in [Key -> Nat]
    BY <2>1, <1>3
  <2>3. \A k \in Key : lost[k] =
          IF k \in Held(group) \ Held(after) THEN evicted[g][k] + 1 ELSE evicted[g][k]
    OBVIOUS
  <2>4. evicted' = [evicted EXCEPT ![g] = lost]
    BY <1>1
  <2> HIDE DEF lost
  <2>5. QED
    BY <2>1, <2>2, <2>3, <2>4, <1>3
<1>15. /\ \A h \in Group \ {g}, k \in Key : Created(h, k)' = Created(h, k)
       /\ \A k \in Key : Created(g, k)' =
            IF k = key /\ key \notin DOMAIN group.prev THEN Created(g, k) + 1 ELSE Created(g, k)
       /\ owner' \in Seq(Group \X Key) /\ Len(owner') = Len(tokens')
  <2>1. owner \in Seq(Group \X Key) /\ Len(owner) = Len(tokens)
    BY <1>0 DEF TypeOK
  <2>2. CASE key \in DOMAIN group.prev
    BY <2>1, <2>2, <1>2, CreatedStays
  <2>3. CASE key \notin DOMAIN group.prev
    <3>1. owner' = Append(owner, <<g, key>>)
      BY <2>3, <1>2
    <3>2. /\ owner' \in Seq(Group \X Key) /\ Len(owner') = Len(owner) + 1
          /\ Created(g, key)' = Created(g, key) + 1
          /\ \A h, k : h # g \/ k # key => Created(h, k)' = Created(h, k)
      BY <1>0, <1>3, <3>1, CreatedGrows
    <3>3. QED
      BY <2>1, <2>3, <3>2, <1>4
  <2>4. QED
    BY <2>2, <2>3
<1>16. group = groups[g] /\ \A h \in Group : groups[h] \in [cur : Map, prev : Map]
  BY <1>0, GroupType DEF group
<1>17. MapInv'
  <2>1. ASSUME NEW h \in Group
        PROVE  /\ \A k \in DOMAIN groups'[h].cur : groups'[h].cur[k] \in Limiter'
               /\ \A k \in DOMAIN groups'[h].prev : groups'[h].prev[k] \in Limiter'
    <3>1. /\ \A k \in DOMAIN groups[h].cur : groups[h].cur[k] \in Limiter'
          /\ \A k \in DOMAIN groups[h].prev : groups[h].prev[k] \in Limiter'
      BY <1>0, <1>6 DEF MapInv
    <3>2. CASE h # g
      BY <3>1, <3>2, <1>11
    <3>3. CASE h = g
      <4>1. CASE Full(group)
        BY <4>1, <3>1, <3>3, <1>5, <1>10, <1>11, <1>16
      <4>2. CASE ~Full(group)
        BY <4>2, <3>1, <3>3, <1>5, <1>10, <1>11, <1>16
      <4>3. QED
        BY <4>1, <4>2
    <3>4. QED
      BY <3>2, <3>3
  <2>2. \A u \in Thread : at'[u].step = "take" => at'[u].limiter \in Limiter'
    BY <1>0, <1>1, <1>5, <1>6 DEF MapInv, TypeOK
  <2>3. QED
    BY <1>11, <1>12, <2>1, <2>2 DEF MapInv
<1>18. TypeOK'
  <2>1. \A h \in Group', m \in {"cur", "prev"} :
          \E S \in SUBSET Key : groups'[h][m] \in [S -> Limiter']
    <3> SUFFICES ASSUME NEW h \in Group, NEW m \in {"cur", "prev"}
                 PROVE  groups'[h][m] \in [DOMAIN groups'[h][m] -> Limiter']
                        /\ DOMAIN groups'[h][m] \in SUBSET Key
      BY <1>12
    <3>1. groups'[h] \in [cur : Map, prev : Map]
      BY <1>10, <1>11, <1>16
    <3>2. groups'[h].cur \in Map /\ groups'[h].prev \in Map
      BY <3>1
    <3>3. /\ \A k \in DOMAIN groups'[h].cur : groups'[h].cur[k] \in Limiter'
          /\ \A k \in DOMAIN groups'[h].prev : groups'[h].prev[k] \in Limiter'
      BY <1>17, <1>12 DEF MapInv
    <3>4. /\ groups'[h].cur \in [DOMAIN groups'[h].cur -> Limiter']
          /\ DOMAIN groups'[h].cur \in SUBSET Key
          /\ groups'[h].prev \in [DOMAIN groups'[h].prev -> Limiter']
          /\ DOMAIN groups'[h].prev \in SUBSET Key
      BY <3>2, <3>3, MapType
    <3>5. QED
      BY <3>4
  <2>2. at' \in [Thread -> At]
    <3>1. [step |-> "take", key |-> key, limiter |-> l] \in At
      BY <1>3, <1>5 DEF At
    <3>2. QED
      BY <3>1, <1>0, <1>1 DEF TypeOK
  <2>3. Len(groups') \in 1..MaxGroups /\ ruleset' \in [Thread -> Group]
    BY <1>0, <1>1, <1>11 DEF TypeOK
  <2>4. QED
    BY <1>0, <1>1, <1>4, <1>12, <1>13, <1>14, <1>15, <2>1, <2>2, <2>3 DEF TypeOK, At
<1>19. IdleInv'
  <2> SUFFICES ASSUME NEW h \in Group, NEW k \in Key,
                      k \in DOMAIN groups'[h].prev \ DOMAIN groups'[h].cur
               PROVE  DOMAIN groups'[h].cur \subseteq since'[h][k]
    BY <1>12 DEF IdleInv
  <2>1. CASE h # g
    BY <2>1, <1>0, <1>11, <1>13 DEF IdleInv
  <2>2. CASE h = g
    <3>1. k # key /\ since'[g][k] = since[g][k] \cup {key}
      BY <2>2, <1>10, <1>11, <1>13
    <3>2. CASE Full(group)
      BY <2>2, <3>1, <3>2, <1>10, <1>11
    <3>3. CASE ~Full(group)
      <4>1. DOMAIN group.cur \subseteq since[g][k]
        BY <2>2, <3>3, <1>0, <1>3, <1>10, <1>11, <1>16 DEF IdleInv
      <4>2. QED
        BY <2>2, <3>1, <3>3, <4>1, <1>10, <1>11
    <3>4. QED
      BY <3>2, <3>3
  <2>3. QED
    BY <2>1, <2>2
<1>20. RetentionBounded'
  <2>1. /\ Cardinality(DOMAIN group.cur) <= MaxKeys
        /\ Cardinality(DOMAIN group.prev) <= MaxKeys
    BY <1>0, <1>3, <1>16 DEF RetentionBounded
  <2>2. /\ Cardinality(DOMAIN after.cur) <= MaxKeys
        /\ Cardinality(DOMAIN after.prev) <= MaxKeys
    <3>1. CASE Full(group)
      <4>1. Cardinality({key}) = 1
        BY FS_Singleton
      <4>2. DOMAIN after.cur = {key} /\ after.prev = group.cur
        BY <3>1, <1>10
      <4>3. QED
        BY <2>1, <4>1, <4>2, BoundsAssumption
    <3>2. CASE ~Full(group)
      <4>1. Cardinality(DOMAIN group.cur) < MaxKeys
        BY <3>2, <1>3, KeysCount, BoundsAssumption DEF Full
      <4>2. Cardinality(DOMAIN after.cur) = Cardinality(DOMAIN group.cur) + 1
        BY <3>2, <1>1, <1>3, <1>10, KeysCount DEF group
      <4>3. QED
        BY <3>2, <4>1, <4>2, <2>1, <1>3, <1>10, KeysCount, BoundsAssumption
    <3>3. QED
      BY <3>1, <3>2
  <2>3. \A h \in Group, m \in {"cur", "prev"} : Cardinality(DOMAIN groups'[h][m]) <= MaxKeys
    <3> SUFFICES ASSUME NEW h \in Group, NEW m \in {"cur", "prev"}
                 PROVE  Cardinality(DOMAIN groups'[h][m]) <= MaxKeys
      OBVIOUS
    <3>1. CASE h = g
      BY <3>1, <2>2, <1>11
    <3>2. CASE h # g
      BY <3>2, <1>0, <1>11 DEF RetentionBounded
    <3>3. QED
      BY <3>1, <3>2
  <2>4. QED
    BY <2>3, <1>12 DEF RetentionBounded
<1>21. key \notin DOMAIN group.cur /\ key \in Held(after)
  BY <1>1, <1>10, <1>9 DEF group
<1>22. OneLimiterPerKey'
  <2>1. \A h \in Group, k \in Key :
          Created(h, k)' = evicted'[h][k] + (IF k \in Held(groups'[h]) THEN 1 ELSE 0)
    <3> SUFFICES ASSUME NEW h \in Group, NEW k \in Key
                 PROVE  Created(h, k)' = evicted'[h][k]
                          + (IF k \in Held(groups'[h]) THEN 1 ELSE 0)
      OBVIOUS
    <3>1. Created(h, k) = evicted[h][k] + (IF k \in Held(groups[h]) THEN 1 ELSE 0)
      BY <1>0 DEF OneLimiterPerKey
    <3>2. Created(h, k) \in Nat /\ evicted[h][k] \in Nat
      BY <1>0, CreatedType DEF TypeOK
    <3>3. CASE h # g
      BY <3>1, <3>3, <1>11, <1>14, <1>15
    <3>4. CASE h = g /\ k = key
      BY <3>1, <3>2, <3>4, <1>3, <1>11, <1>14, <1>15, <1>16, <1>21
    <3>5. CASE h = g /\ k # key
      <4>1. k \in Held(after) => k \in Held(group)
        BY <3>5, <1>3, <1>10, <1>9
      <4>2. QED
        BY <3>1, <3>2, <3>5, <4>1, <1>11, <1>14, <1>15, <1>16
    <3>6. QED
      BY <3>3, <3>4, <3>5
  <2>2. \A h \in Group : \A k \in DOMAIN groups'[h].cur \cap DOMAIN groups'[h].prev :
          groups'[h].cur[k] = groups'[h].prev[k]
    <3> SUFFICES ASSUME NEW h \in Group,
                        NEW k \in DOMAIN groups'[h].cur \cap DOMAIN groups'[h].prev
                 PROVE  groups'[h].cur[k] = groups'[h].prev[k]
      OBVIOUS
    <3>1. CASE h # g
      BY <3>1, <1>0, <1>11 DEF OneLimiterPerKey
    <3>2. CASE h = g /\ Full(group)
      BY <3>2, <1>10, <1>11, <1>21
    <3>3. CASE h = g /\ ~Full(group)
      <4>1. k \in DOMAIN group.prev /\ after.prev = group.prev
        BY <3>3, <1>10, <1>11
      <4>2. CASE k = key
        BY <3>3, <4>1, <4>2, <1>7, <1>10, <1>11
      <4>3. CASE k # key
        <5>1. k \in DOMAIN group.cur \cap DOMAIN group.prev
          BY <3>3, <4>1, <4>3, <1>10, <1>11
        <5>2. group.cur[k] = group.prev[k]
          BY <5>1, <1>0, <1>3, <1>16 DEF OneLimiterPerKey
        <5>3. QED
          BY <3>3, <4>1, <4>3, <5>1, <5>2, <1>10, <1>11
      <4>4. QED
        BY <4>2, <4>3
    <3>4. QED
      BY <3>1, <3>2, <3>3
  <2>3. QED
    BY <2>1, <2>2, <1>12 DEF OneLimiterPerKey, Held
<1>23. EvictedOnlyUnderChurn'
  <2> SUFFICES ASSUME NEW h \in Group, NEW k \in Key, Created(h, k)' > 0,
                      k \notin Held(groups'[h])
               PROVE  Cardinality(since'[h][k]) > MaxKeys
    BY <1>12 DEF EvictedOnlyUnderChurn, Held
  <2>1. CASE h # g
    BY <2>1, <1>0, <1>11, <1>13, <1>15 DEF EvictedOnlyUnderChurn
  <2>2. CASE h = g
    <3>1. k # key /\ Created(g, k) > 0 /\ since'[g][k] = since[g][k] \cup {key}
      BY <2>2, <1>11, <1>13, <1>15, <1>21
    <3>2. since[g][k] \in SUBSET Key /\ since'[g][k] \in SUBSET Key
      BY <1>0, <1>3, <1>13 DEF TypeOK
    <3>3. CASE k \notin Held(group)
      <4>1. Cardinality(since[g][k]) > MaxKeys
        BY <3>1, <3>3, <1>0, <1>3, <1>16 DEF EvictedOnlyUnderChurn
      <4>2. QED
        BY <2>2, <3>1, <3>2, <4>1, KeysCount, BoundsAssumption
    <3>4. CASE k \in Held(group)
      <4>1. Full(group) /\ k \in DOMAIN group.prev \ DOMAIN group.cur
        BY <2>2, <3>1, <3>4, <1>3, <1>10, <1>9, <1>11
      <4>2. DOMAIN group.cur \cup {key} \subseteq since'[g][k]
        BY <3>1, <4>1, <1>0, <1>3, <1>16 DEF IdleInv
      <4>3. Cardinality(DOMAIN group.cur \cup {key}) > MaxKeys
        BY <4>1, <1>3, <1>21, KeysCount, BoundsAssumption DEF Full
      <4>4. QED
        BY <2>2, <3>2, <4>2, <4>3, KeysCount, BoundsAssumption
    <3>5. QED
      BY <3>3, <3>4
  <2>3. QED
    BY <2>1, <2>2
<1>24. QED
  BY <1>17, <1>18, <1>19, <1>20, <1>22, <1>23 DEF IInv

LEMMA InsertStep ==
  ASSUME IInv, NEW t \in Thread, Insert(t)
  PROVE  IInv'
BY InsertKeyStep

LEMMA Invariance == Spec => []IInv
<1>1. ASSUME IInv, [Next]_vars PROVE IInv'
  <2>1. CASE UNCHANGED vars
    <3>1. UNCHANGED <<groups, tokens, ruleset, at, calls, elapsed, owner, evicted,
                      since, admitted>>
      BY <2>1 DEF vars, history
    <3>2. TypeOK' /\ MapInv'
      BY <1>1, <3>1 DEF IInv, TypeOK, MapInv, Group, Limiter, At
    <3>c. \A g, k : Created(g, k)' = Created(g, k)
      BY <3>1, CreatedStays
    <3>3. IdleInv' /\ EvictedOnlyUnderChurn'
      BY <1>1, <3>1, <3>c DEF IInv, IdleInv, EvictedOnlyUnderChurn, Group, Held
    <3>4. QED
      BY <1>1, <3>1, <3>2, <3>3, MapsUnchanged DEF IInv
  <2>2. CASE \E t \in Thread, raw \in Key : Lookup(t, raw)
    BY <1>1, <2>2, LookupStep
  <2>3. CASE \E t \in Thread : FindCreated(t) \/ Insert(t) \/ Take(t) \/ NextBatch(t)
    BY <1>1, <2>3, FindCreatedStep, InsertStep, TakeStep, NextBatchStep
  <2>4. CASE Republish \/ Elapse
    BY <1>1, <2>4, RepublishStep, ElapseStep
  <2>5. QED
    BY <1>1, <2>1, <2>2, <2>3, <2>4 DEF Next
<1>2. QED
  BY <1>1, InitIInv, PTL DEF Spec

-----------------------------------------------------------------------------
(* The clamp.  Every token spent came out of a limiter made for the key, and  *)
(* a limiter starts with a burst and gains one token in every period.  The    *)
(* tokens left are pairs, so that the prover can count them.                  *)

\* Limiters are used for the group and key they were made for alone.
OwnerInv ==
  /\ \A g \in Group : \A k \in DOMAIN groups[g].cur : owner[groups[g].cur[k]] = <<g, k>>
  /\ \A g \in Group : \A k \in DOMAIN groups[g].prev : owner[groups[g].prev[k]] = <<g, k>>
  /\ \A t \in Thread : at[t].step = "take" => owner[at[t].limiter] = <<ruleset[t], at[t].key>>

\* The tokens left for a key, in whatever limiters were made for it.
Left(g, k) == {p \in Owned(g, k) \X (1..Burst) : p[2] <= tokens[p[1]]}

ClampInv ==
  \A g \in Group, k \in Key :
    admitted[g][k] + Cardinality(Left(g, k)) <= (Burst + elapsed) * Created(g, k)

Clamp == OwnerInv /\ ClampInv

LEMMA LeftType ==
  ASSUME TypeOK, NEW g, NEW k
  PROVE  /\ IsFiniteSet(Left(g, k)) /\ Cardinality(Left(g, k)) \in Nat
         /\ \A l \in Owned(g, k) : l \in Limiter /\ l \in Nat /\ tokens[l] \in 0..Burst
<1>1. IsFiniteSet(Owned(g, k))
  BY CreatedType
<1>2. IsFiniteSet(1..Burst)
  BY BoundsAssumption, FS_Interval
<1>3. IsFiniteSet(Owned(g, k) \X (1..Burst))
  BY <1>1, <1>2, FS_Product
<1>4. Left(g, k) \subseteq Owned(g, k) \X (1..Burst)
  BY DEF Left
<1>5. IsFiniteSet(Left(g, k))
  BY <1>3, <1>4, FS_Subset
<1>6. Cardinality(Left(g, k)) \in Nat
  BY <1>5, FS_CardinalityType
<1>7. /\ owner \in Seq(Group \X Key) /\ tokens \in Seq(0..Burst)
      /\ Len(owner) = Len(tokens)
  BY DEF TypeOK
<1>8. DOMAIN owner = 1..Len(tokens) /\ Len(tokens) \in Nat
  BY <1>7, LenProperties
<1>9. \A l \in 1..Len(tokens) : tokens[l] \in 0..Burst
  BY <1>7, ElementOfSeq
<1>10. QED
  BY <1>5, <1>6, <1>8, <1>9 DEF Owned, Limiter

LEMMA ClampStays ==
  ASSUME ClampInv, UNCHANGED <<tokens, owner, elapsed, admitted>>, Group' = Group
  PROVE  ClampInv'
<1>1. \A g, k : Owned(g, k)' = Owned(g, k) /\ Created(g, k)' = Created(g, k)
  BY CreatedStays
<1>2. \A g, k : Left(g, k)' = Left(g, k)
  BY <1>1 DEF Left
<1>3. QED
  BY <1>1, <1>2 DEF ClampInv

\* The steps that move no token and make no limiter.
LEMMA ClampFound ==
  ASSUME IInv, Clamp, NEW t \in Thread, NEW key \in DOMAIN groups[ruleset[t]].cur,
         at' = [at EXCEPT ![t] =
           [step |-> "take", key |-> key, limiter |-> groups[ruleset[t]].cur[key]]],
         UNCHANGED <<groups, tokens, ruleset, elapsed, owner, admitted>>
  PROVE  Clamp'
<1>1. Group' = Group /\ TypeOK /\ ruleset[t] \in Group
  BY GroupType DEF Group, IInv
<1>2. owner[groups[ruleset[t]].cur[key]] = <<ruleset[t], key>>
  BY <1>1 DEF Clamp, OwnerInv
<1>3. \A u \in Thread : at'[u].step = "take" => owner[at'[u].limiter] = <<ruleset[u], at'[u].key>>
  <2> SUFFICES ASSUME NEW u \in Thread, at'[u].step = "take"
               PROVE  owner[at'[u].limiter] = <<ruleset[u], at'[u].key>>
    OBVIOUS
  <2>1. at \in [Thread -> At]
    BY <1>1 DEF TypeOK
  <2>2. CASE u = t
    BY <1>2, <2>1, <2>2
  <2>3. CASE u # t
    BY <2>1, <2>3 DEF Clamp, OwnerInv
  <2>4. QED
    BY <2>2, <2>3
<1>4. OwnerInv'
  BY <1>1, <1>3 DEF Clamp, OwnerInv
<1>5. QED
  BY <1>1, <1>4, ClampStays DEF Clamp

LEMMA ClampLookup ==
  ASSUME IInv, Clamp, NEW t \in Thread, NEW raw \in Key, Lookup(t, raw)
  PROVE  Clamp'
<1> DEFINE key == Short(raw)
           m   == groups[ruleset[t]].cur
<1>0. TypeOK /\ MapInv /\ Group' = Group
  BY DEF IInv, Lookup, Group
<1>1. key \in Key /\ m \in Map
  BY <1>0, KeyAssumption, GroupType
<1>2. /\ Get(m, key) # None <=> key \in DOMAIN m
      /\ key \in DOMAIN m => Get(m, key) = m[key]
  BY <1>1, MapType
<1>3. UNCHANGED <<groups, tokens, ruleset, elapsed, owner, admitted>>
  BY DEF Lookup
<1>4. CASE key \in DOMAIN m
  <2>1. at' = [at EXCEPT ![t] = [step |-> "take", key |-> key, limiter |-> m[key]]]
    BY <1>2, <1>4 DEF Lookup
  <2>2. QED
    BY <1>3, <1>4, <2>1, ClampFound
<1>5. CASE key \notin DOMAIN m
  <2>1. at' = [at EXCEPT ![t] = [step |-> "miss", key |-> key]]
    BY <1>2, <1>5 DEF Lookup
  <2> HIDE DEF key, m
  <2>2. \A u \in Thread : at'[u].step = "take" =>
          owner[at'[u].limiter] = <<ruleset[u], at'[u].key>>
    BY <1>0, <2>1 DEF Clamp, OwnerInv, TypeOK
  <2>3. OwnerInv'
    BY <1>0, <1>3, <2>2 DEF Clamp, OwnerInv
  <2>4. QED
    BY <1>0, <1>3, <2>3, ClampStays DEF Clamp
<1>6. QED
  BY <1>4, <1>5

LEMMA ClampFindCreated ==
  ASSUME IInv, Clamp, NEW t \in Thread, FindCreated(t)
  PROVE  Clamp'
<1>1. at[t].key \in DOMAIN groups[ruleset[t]].cur
  BY DEF FindCreated, CreatedMeanwhile
<1>2. QED
  BY <1>1, ClampFound DEF FindCreated

LEMMA ClampNextBatch ==
  ASSUME IInv, Clamp, NEW t \in Thread, NextBatch(t)
  PROVE  Clamp'
<1>1. /\ UNCHANGED <<groups, tokens, at, elapsed, owner, admitted>>
      /\ at[t] = Idle /\ \A u \in Thread \ {t} : ruleset'[u] = ruleset[u]
  BY DEF NextBatch, history, IInv, TypeOK
<1>2. Group' = Group
  BY <1>1 DEF Group
<1>a. ASSUME NEW u \in Thread, at[u].step = "take"
      PROVE  owner[at[u].limiter] = <<ruleset'[u], at[u].key>>
  <2>1. u # t
    BY <1>1, <1>a DEF Idle
  <2>2. QED
    BY <1>1, <1>a, <2>1 DEF Clamp, OwnerInv
<1>3. OwnerInv'
  BY <1>1, <1>2, <1>a DEF Clamp, OwnerInv
<1>4. QED
  BY <1>1, <1>2, <1>3, ClampStays DEF Clamp

\* A new group has made no limiter.
LEMMA ClampRepublish ==
  ASSUME IInv, Clamp, Republish
  PROVE  Clamp'
<1> DEFINE n == Len(groups) + 1
<1>0. TypeOK /\ MapInv /\ Group = 1..Len(groups) /\ Len(groups) \in Nat
  BY GroupType DEF IInv
<1>1. /\ groups' \in Seq([cur : Map, prev : Map]) /\ Len(groups') = n
      /\ groups'[n] = NewGroup /\ \A g \in Group : groups'[g] = groups[g]
  <2>1. NewGroup \in [cur : Map, prev : Map]
    BY EmptyType DEF NewGroup
  <2>2. QED
    BY <1>0, <2>1, AppendProperties DEF Republish, MapInv
<1>2. Group' = Group \cup {n} /\ n \notin Group
  BY <1>0, <1>1, LenProperties DEF Group
<1>3. admitted'[n] = Zero /\ \A g \in Group : admitted'[g] = admitted[g]
  <2>1. admitted \in [1..Len(groups) -> [Key -> Nat]] /\ Zero \in [Key -> Nat]
    BY <1>0 DEF TypeOK, Zero
  <2>2. admitted \in Seq([Key -> Nat]) /\ Len(admitted) = Len(groups)
    BY <2>1, <1>0, RowIsSeq
  <2>3. QED
    BY <2>1, <2>2, <1>0, AppendProperties DEF Republish
<1>4. UNCHANGED <<tokens, ruleset, at, elapsed, owner>>
  BY DEF Republish
<1>5. \A g, k : Owned(g, k)' = Owned(g, k) /\ Created(g, k)' = Created(g, k)
  BY <1>4, CreatedStays
<1>6. \A g, k : Left(g, k)' = Left(g, k)
  BY <1>4, <1>5 DEF Left
<1> HIDE DEF n
<1>7. \A k \in Key : Created(n, k) = 0 /\ Cardinality(Left(n, k)) = 0
  <2> SUFFICES ASSUME NEW k \in Key
               PROVE  Created(n, k) = 0 /\ Cardinality(Left(n, k)) = 0
    OBVIOUS
  <2>1. IsFiniteSet(Owned(n, k)) /\ Created(n, k) = 0
    BY <1>0, <1>2, CreatedType
  <2>2. Owned(n, k) = {}
    BY <2>1, FS_EmptySet DEF Created
  <2>3. Left(n, k) = {}
    BY <2>2 DEF Left
  <2>4. QED
    BY <2>1, <2>3, FS_EmptySet
<1>8. ClampInv'
  <2> SUFFICES ASSUME NEW g \in Group', NEW k \in Key
               PROVE  admitted'[g][k] + Cardinality(Left(g, k)) <= (Burst + elapsed) * Created(g, k)
    BY <1>4, <1>5, <1>6 DEF ClampInv
  <2>1. CASE g \in Group
    BY <2>1, <1>3 DEF Clamp, ClampInv
  <2>2. CASE g = n
    BY <2>2, <1>0, <1>3, <1>7, BoundsAssumption DEF TypeOK, Zero
  <2>3. QED
    BY <2>1, <2>2, <1>2
<1>9. OwnerInv'
  <2>1. DOMAIN NewGroup.cur = {} /\ DOMAIN NewGroup.prev = {}
    BY EmptyType DEF NewGroup
  <2>2. ASSUME NEW g \in Group'
        PROVE  /\ \A k \in DOMAIN groups'[g].cur : owner[groups'[g].cur[k]] = <<g, k>>
               /\ \A k \in DOMAIN groups'[g].prev : owner[groups'[g].prev[k]] = <<g, k>>
    <3>1. CASE g \in Group
      <4>1. /\ \A k \in DOMAIN groups[g].cur : owner[groups[g].cur[k]] = <<g, k>>
            /\ \A k \in DOMAIN groups[g].prev : owner[groups[g].prev[k]] = <<g, k>>
        BY <3>1 DEF Clamp, OwnerInv
      <4>2. groups'[g] = groups[g]
        BY <3>1, <1>1
      <4>3. QED
        BY <4>1, <4>2
    <3>2. CASE g = n
      BY <3>2, <1>1, <2>1
    <3>3. QED
      BY <3>1, <3>2, <1>2
  <2>3. \A t \in Thread : at[t].step = "take" => owner[at[t].limiter] = <<ruleset[t], at[t].key>>
    BY DEF Clamp, OwnerInv
  <2>4. QED
    BY <1>4, <2>2, <2>3 DEF OwnerInv
<1>10. QED
  BY <1>8, <1>9 DEF Clamp

\* A token taken is a token less left for the key it is counted for.
LEMMA ClampTakeKey ==
  ASSUME IInv, Clamp, NEW t \in Thread, Take(t),
         NEW l, l = at[t].limiter, NEW g, g = ruleset[t], NEW key, key = at[t].key,
         tokens[l] > 0
  PROVE  ClampInv'
<1>0. TypeOK /\ MapInv /\ g \in Group /\ key \in Key /\ l \in Limiter /\ Group' = Group
  BY GroupType, AtType DEF IInv, Take, MapInv, Group
<1>1. /\ tokens' = [tokens EXCEPT ![l] = tokens[l] - 1]
      /\ admitted' = [admitted EXCEPT ![g] = [admitted[g] EXCEPT ![key] = admitted[g][key] + 1]]
      /\ UNCHANGED <<owner, elapsed>>
  BY DEF Take
<1>2. /\ tokens \in Seq(0..Burst) /\ Len(tokens) \in Nat /\ DOMAIN tokens = Limiter
      /\ tokens[l] \in 0..Burst /\ tokens[l] \in 1..Burst
  <2>1. tokens \in Seq(0..Burst)
    BY <1>0 DEF TypeOK
  <2>2. tokens[l] \in 0..Burst
    BY <1>0, <2>1, ElementOfSeq DEF Limiter
  <2>3. QED
    BY <2>1, <2>2, LenProperties, BoundsAssumption DEF Limiter
<1>3. tokens'[l] = tokens[l] - 1 /\ \A m \in Limiter \ {l} : tokens'[m] = tokens[m]
  BY <1>0, <1>1, <1>2
<1>4. /\ owner[l] = <<g, key>> /\ l \in Owned(g, key)
      /\ \A h, k : Owned(h, k) \subseteq Limiter
  <2>1. owner[l] = <<g, key>>
    BY DEF Clamp, OwnerInv, Take
  <2>2. DOMAIN owner = Limiter
    BY <1>0, LenProperties DEF TypeOK, Limiter
  <2>3. QED
    BY <1>0, <2>1, <2>2 DEF Owned
<1>5. \A h, k : Owned(h, k)' = Owned(h, k) /\ Created(h, k)' = Created(h, k)
  BY <1>1, CreatedStays
<1>6. Left(g, key)' = Left(g, key) \ {<<l, tokens[l]>>} /\ <<l, tokens[l]>> \in Left(g, key)
  <2>1. <<l, tokens[l]>> \in Left(g, key)
    BY <1>2, <1>4 DEF Left
  <2>2. \A m \in Owned(g, key), i \in 1..Burst :
          i <= tokens'[m] <=> i <= tokens[m] /\ <<m, i>> # <<l, tokens[l]>>
    <3> SUFFICES ASSUME NEW m \in Owned(g, key), NEW i \in 1..Burst
                 PROVE  i <= tokens'[m] <=> i <= tokens[m] /\ <<m, i>> # <<l, tokens[l]>>
      OBVIOUS
    <3>1. CASE m = l
      <4>1. i <= tokens[l] - 1 <=> i <= tokens[l] /\ i # tokens[l]
        BY <1>2, BoundsAssumption
      <4>2. QED
        BY <3>1, <4>1, <1>3
    <3>2. CASE m # l
      BY <3>2, <1>3, <1>4
    <3>3. QED
      BY <3>1, <3>2
  <2>3. QED
    BY <1>5, <2>1, <2>2 DEF Left
<1>7. \A h, k : h # g \/ k # key => Left(h, k)' = Left(h, k)
  <2> SUFFICES ASSUME NEW h, NEW k, h # g \/ k # key
               PROVE  Left(h, k)' = Left(h, k)
    OBVIOUS
  <2>1. l \notin Owned(h, k)
    BY <1>4 DEF Owned
  <2>2. \A m \in Owned(h, k) : tokens'[m] = tokens[m]
    BY <1>3, <1>4, <2>1
  <2>3. QED
    BY <1>5, <2>2 DEF Left
<1>8. Cardinality(Left(g, key)') = Cardinality(Left(g, key)) - 1
  <2>1. IsFiniteSet(Left(g, key))
    BY <1>0, LeftType
  <2>2. Cardinality(Left(g, key) \ {<<l, tokens[l]>>}) = Cardinality(Left(g, key)) - 1
    BY <1>6, <2>1, FS_RemoveElement
  <2>3. QED
    BY <1>6, <2>2
<1>9. ASSUME NEW h \in Group, NEW k \in Key
      PROVE  admitted'[h][k] + Cardinality(Left(h, k)') <= (Burst + elapsed) * Created(h, k)
  <2>1. /\ admitted[h][k] + Cardinality(Left(h, k)) <= (Burst + elapsed) * Created(h, k)
        /\ admitted \in [Group -> [Key -> Nat]]
    BY <1>0 DEF Clamp, ClampInv, TypeOK
  <2>2. CASE h = g /\ k = key
    <3>1. admitted'[h][k] = admitted[h][k] + 1
      BY <1>0, <1>1, <2>1, <2>2
    <3>2. admitted[h][k] \in Nat /\ Cardinality(Left(g, key)) \in Nat
      BY <1>0, <2>1, LeftType
    <3>3. admitted'[h][k] + Cardinality(Left(h, k)') = admitted[h][k] + Cardinality(Left(h, k))
      BY <2>2, <3>1, <3>2, <1>8
    <3>4. QED
      BY <2>1, <3>3
  <2>3. CASE h # g \/ k # key
    <3>1. admitted'[h][k] = admitted[h][k]
      BY <1>0, <1>1, <2>1, <2>3
    <3>2. QED
      BY <2>1, <2>3, <3>1, <1>7
  <2>4. QED
    BY <2>2, <2>3
<1>10. QED
  BY <1>0, <1>1, <1>5, <1>9 DEF ClampInv

LEMMA ClampTake ==
  ASSUME IInv, Clamp, NEW t \in Thread, Take(t)
  PROVE  Clamp'
<1>1. UNCHANGED <<groups, ruleset, elapsed, owner>> /\ at' = [at EXCEPT ![t] = Idle]
  BY DEF Take
<1>2. Group' = Group /\ TypeOK
  BY <1>1 DEF Group, IInv
<1>3. \A u \in Thread : at'[u].step = "take" => owner[at'[u].limiter] = <<ruleset[u], at'[u].key>>
  BY <1>1, <1>2 DEF Clamp, OwnerInv, TypeOK, Idle
<1>4. OwnerInv'
  BY <1>1, <1>2, <1>3 DEF Clamp, OwnerInv
<1>5. ClampInv'
  <2>1. CASE tokens[at[t].limiter] > 0
    BY <2>1, ClampTakeKey
  <2>2. CASE ~(tokens[at[t].limiter] > 0)
    BY <2>2, <1>1, <1>2, ClampStays DEF Take, Clamp
  <2>3. QED
    BY <2>1, <2>2
<1>6. QED
  BY <1>4, <1>5 DEF Clamp

\* A period gives every limiter made for a key one token at most.
LEMMA ClampElapse ==
  ASSUME IInv, Clamp, Elapse
  PROVE  Clamp'
<1>0. /\ TypeOK /\ tokens \in Seq(0..Burst) /\ Len(tokens) \in Nat /\ elapsed \in Nat
      /\ Group' = Group
  <2>1. TypeOK /\ Group' = Group
    BY DEF IInv, Elapse, Group
  <2>2. tokens \in Seq(0..Burst) /\ elapsed \in 0..MaxElapsed
    BY <2>1 DEF TypeOK
  <2>3. Len(tokens) \in Nat
    BY <2>2, LenProperties
  <2>4. QED
    BY <2>1, <2>2, <2>3, BoundsAssumption
<1>1. /\ UNCHANGED <<groups, ruleset, at, owner, admitted>> /\ elapsed' = elapsed + 1
      /\ tokens' = [l \in Limiter |-> IF tokens[l] < Burst THEN tokens[l] + 1 ELSE Burst]
  BY DEF Elapse, history
<1>2. OwnerInv'
  BY <1>0, <1>1 DEF Clamp, OwnerInv
<1>3. \A g, k : Owned(g, k)' = Owned(g, k) /\ Created(g, k)' = Created(g, k)
  BY <1>1, CreatedStays
<1>4. ASSUME NEW g \in Group, NEW k \in Key
      PROVE  admitted[g][k] + Cardinality(Left(g, k)') <= (Burst + elapsed + 1) * Created(g, k)
  <2> DEFINE gained == {<<l, tokens[l] + 1>> : l \in Owned(g, k)}
             own    == Owned(g, k)
             F      == [l \in own |-> <<l, tokens[l] + 1>>]
  <2>1. /\ IsFiniteSet(own) /\ Created(g, k) \in Nat
        /\ IsFiniteSet(Left(g, k)) /\ Cardinality(Left(g, k)) \in Nat
        /\ \A l \in own : l \in Limiter /\ l \in Nat /\ tokens[l] \in 0..Burst
    BY <1>0, CreatedType, LeftType
  <2>2. IsFiniteSet(gained) /\ Cardinality(gained) <= Created(g, k)
    <3>1. F \in Surjection(own, gained)
      BY DEF Surjection
    <3>2. QED
      BY <2>1, <3>1, FS_Surjection DEF Created
  <2>3. Left(g, k)' \subseteq Left(g, k) \cup gained
    <3> SUFFICES ASSUME NEW l \in own, NEW i \in 1..Burst, i <= tokens'[l]
                 PROVE  <<l, i>> \in Left(g, k) \cup gained
      BY <1>3 DEF Left
    <3>1. tokens'[l] = IF tokens[l] < Burst THEN tokens[l] + 1 ELSE Burst
      BY <1>1, <2>1
    <3>2. i <= tokens[l] \/ i = tokens[l] + 1
      BY <2>1, <3>1, BoundsAssumption
    <3>3. QED
      BY <3>2 DEF Left
  <2>4. Cardinality(Left(g, k)') <= Cardinality(Left(g, k)) + Created(g, k)
    <3> HIDE DEF gained, F
    <3> DEFINE both == Left(g, k) \cup gained
    <3>1. /\ IsFiniteSet(both)
          /\ Cardinality(both) = Cardinality(Left(g, k)) + Cardinality(gained)
                                   - Cardinality(Left(g, k) \cap gained)
      BY <2>1, <2>2, FS_Union
    <3>2. IsFiniteSet(Left(g, k) \cap gained)
      BY <2>1, FS_Subset
    <3>3. Cardinality(Left(g, k) \cap gained) \in Nat /\ Cardinality(gained) \in Nat
      BY <2>2, <3>2, FS_CardinalityType
    <3>4. Left(g, k)' \subseteq both
      BY <2>3
    <3>5. Cardinality(Left(g, k)') \in Nat /\ Cardinality(Left(g, k)') <= Cardinality(both)
      BY <3>1, <3>4, FS_Subset, FS_CardinalityType
    <3> HIDE DEF both
    <3>6. QED
      BY <2>1, <2>2, <3>1, <3>3, <3>5
  <2>5. /\ admitted[g][k] + Cardinality(Left(g, k)) <= (Burst + elapsed) * Created(g, k)
        /\ admitted[g][k] \in Nat
    BY <1>0 DEF Clamp, ClampInv, TypeOK
  <2>6. Cardinality(Left(g, k)') \in Nat
    <3>1. IsFiniteSet(Left(g, k) \cup gained)
      BY <2>1, <2>2, FS_Union
    <3>2. IsFiniteSet(Left(g, k)')
      BY <2>3, <3>1, FS_Subset
    <3>3. QED
      BY <3>2, FS_CardinalityType
  <2> HIDE DEF gained, own, F
  <2>7. (Burst + elapsed + 1) * Created(g, k) = (Burst + elapsed) * Created(g, k) + Created(g, k)
    BY <1>0, <2>1, BoundsAssumption
  <2>8. (Burst + elapsed) * Created(g, k) \in Nat
    BY <1>0, <2>1, BoundsAssumption
  <2>9. QED
    BY <2>1, <2>4, <2>5, <2>6, <2>7, <2>8
<1>5. ClampInv'
  <2>1. Burst + elapsed' = Burst + elapsed + 1
    BY <1>0, <1>1, BoundsAssumption
  <2>2. QED
    BY <1>0, <1>1, <1>3, <1>4, <2>1 DEF ClampInv
<1>6. QED
  BY <1>2, <1>5 DEF Clamp

\* A limiter inserted was made for the key, or is new and brings a burst.
LEMMA ClampInsertKey ==
  ASSUME IInv, Clamp, NEW t \in Thread, Insert(t),
         NEW g, g = ruleset[t], NEW key, key = at[t].key
  PROVE  Clamp'
<1> DEFINE group == groups[g]
           l     == IF Promotes(group, key) THEN group.prev[key] ELSE Len(tokens) + 1
<1>0. /\ TypeOK /\ MapInv /\ Group = 1..Len(groups) /\ g \in Group /\ key \in Key
      /\ group \in [cur : Map, prev : Map]
      /\ DOMAIN group.cur \in SUBSET Key /\ DOMAIN group.prev \in SUBSET Key
  BY GroupType, AtType, MapType DEF IInv, Insert
<1>1. /\ groups' = [groups EXCEPT ![g] = Inserted(group, key, l)]
      /\ at' = [at EXCEPT ![t] = [step |-> "take", key |-> key, limiter |-> l]]
      /\ UNCHANGED <<ruleset, elapsed, admitted>>
      /\ IF key \in DOMAIN group.prev THEN UNCHANGED <<tokens, owner>>
         ELSE tokens' = Append(tokens, FirstTokens) /\ owner' = Append(owner, <<g, key>>)
  BY DEF Insert, Promotes, Inserted
<1>2. /\ owner \in Seq(Group \X Key) /\ tokens \in Seq(0..Burst)
      /\ Len(owner) = Len(tokens) /\ Len(tokens) \in Nat /\ DOMAIN owner = Limiter
      /\ DOMAIN tokens = Limiter
  BY <1>0, LenProperties DEF TypeOK, Limiter
<1>3. \A m \in Limiter : owner'[m] = owner[m]
  BY <1>1, <1>2, AppendProperties DEF Limiter
<1>4. l \in Nat /\ owner'[l] = <<g, key>>
  <2>1. CASE key \in DOMAIN group.prev
    <3>1. l = group.prev[key] /\ l \in Limiter /\ owner[l] = <<g, key>>
      BY <1>0, <2>1 DEF Promotes, MapInv, Clamp, OwnerInv
    <3>2. \A m \in Limiter : m \in Nat
      BY <1>2 DEF Limiter
    <3>3. owner'[l] = owner[l]
      BY <3>1, <1>3
    <3>4. QED
      BY <3>1, <3>2, <3>3
  <2>2. CASE key \notin DOMAIN group.prev
    BY <1>0, <1>1, <1>2, <2>2, CreatedGrows DEF Promotes
  <2>3. QED
    BY <2>1, <2>2
<1> HIDE DEF group, l
<1>t. group \in [cur : Map, prev : Map] /\ key \in Key /\ l \in Nat
  BY <1>0, <1>4
<1> DEFINE after == Inserted(group, key, l)
<1>5. /\ after \in [cur : Map, prev : Map] /\ after.cur[key] = l
      /\ Full(group) => DOMAIN after.cur = {key} /\ after.prev = group.cur
      /\ ~Full(group) =>
           /\ DOMAIN after.cur = DOMAIN group.cur \cup {key} /\ after.prev = group.prev
           /\ \A k \in DOMAIN group.cur \ {key} : after.cur[k] = group.cur[k]
  BY <1>t, InsertedType
<1> HIDE DEF after
<1>6. /\ groups'[g] = after /\ \A h \in Group \ {g} : groups'[h] = groups[h]
      /\ Group' = Group
  <2>1. groups \in Seq([cur : Map, prev : Map])
    BY <1>0 DEF MapInv
  <2>2. /\ groups' \in Seq([cur : Map, prev : Map]) /\ Len(groups') = Len(groups)
        /\ groups'[g] = after /\ \A h \in Group \ {g} : groups'[h] = groups[h]
    BY <2>1, <1>0, <1>1, <1>5, ExceptSeq DEF after
  <2>3. QED
    BY <1>0, <2>2, LenProperties DEF Group
<1>7. \A h \in Group :
        /\ \A k \in DOMAIN groups[h].cur : owner'[groups[h].cur[k]] = <<h, k>>
        /\ \A k \in DOMAIN groups[h].prev : owner'[groups[h].prev[k]] = <<h, k>>
  BY <1>0, <1>3 DEF MapInv, Clamp, OwnerInv
<1>8. ASSUME NEW h \in Group
      PROVE  /\ \A k \in DOMAIN groups'[h].cur : owner'[groups'[h].cur[k]] = <<h, k>>
             /\ \A k \in DOMAIN groups'[h].prev : owner'[groups'[h].prev[k]] = <<h, k>>
  <2>1. CASE h # g
    BY <2>1, <1>6, <1>7
  <2>2. CASE h = g
    <3>1. /\ \A k \in DOMAIN group.cur : owner'[group.cur[k]] = <<g, k>>
          /\ \A k \in DOMAIN group.prev : owner'[group.prev[k]] = <<g, k>>
      BY <1>0, <1>7 DEF group
    <3>2. \A k \in DOMAIN after.cur : owner'[after.cur[k]] = <<g, k>>
      BY <3>1, <1>4, <1>5
    <3>3. \A k \in DOMAIN after.prev : owner'[after.prev[k]] = <<g, k>>
      BY <3>1, <1>5
    <3>4. QED
      BY <2>2, <3>2, <3>3, <1>6
  <2>3. QED
    BY <2>1, <2>2
<1>9. ASSUME NEW u \in Thread, at'[u].step = "take"
      PROVE  owner'[at'[u].limiter] = <<ruleset[u], at'[u].key>>
  <2>1. at \in [Thread -> At]
    BY <1>0 DEF TypeOK
  <2>2. CASE u = t
    BY <1>1, <1>4, <2>1, <2>2
  <2>3. CASE u # t
    <3>1. at'[u] = at[u]
      BY <1>1, <2>1, <2>3
    <3>2. at[u].limiter \in Limiter /\ owner[at[u].limiter] = <<ruleset[u], at[u].key>>
      BY <1>0, <1>9, <3>1 DEF MapInv, Clamp, OwnerInv
    <3>3. QED
      BY <1>3, <3>1, <3>2
  <2>4. QED
    BY <2>2, <2>3
<1>10. OwnerInv'
  BY <1>1, <1>6, <1>8, <1>9 DEF OwnerInv
<1>11. CASE key \in DOMAIN group.prev
  BY <1>1, <1>6, <1>10, <1>11, ClampStays DEF Clamp
<1>12. CASE key \notin DOMAIN group.prev
  <2> DEFINE new == Len(owner) + 1
  <2>1. tokens' = Append(tokens, FirstTokens) /\ owner' = Append(owner, <<g, key>>)
    BY <1>1, <1>12
  <2>2. /\ Owned(g, key)' = Owned(g, key) \cup {new} /\ new \notin Owned(g, key)
        /\ Created(g, key)' = Created(g, key) + 1
        /\ \A h, k : h # g \/ k # key =>
             Owned(h, k)' = Owned(h, k) /\ Created(h, k)' = Created(h, k)
    BY <1>0, <2>1, CreatedGrows
  <2>3. tokens'[new] = Burst /\ \A m \in Limiter : tokens'[m] = tokens[m]
    <3>1. FirstTokens \in 0..Burst
      BY BoundsAssumption DEF FirstTokens
    <3>2. QED
      BY <1>2, <2>1, <3>1, AppendProperties DEF FirstTokens, Limiter
  <2>4. \A h, k : Owned(h, k) \subseteq Limiter
    BY <1>2 DEF Owned
  <2> HIDE DEF new
  <2>5. Left(g, key)' = Left(g, key) \cup ({new} \X (1..Burst))
    <3>1. \A m \in Owned(g, key) : tokens'[m] = tokens[m]
      BY <2>3, <2>4
    <3>2. \A i \in 1..Burst : i <= tokens'[new]
      BY <2>3, BoundsAssumption
    <3>3. QED
      BY <2>2, <3>1, <3>2 DEF Left
  <2>6. \A h, k : h # g \/ k # key => Left(h, k)' = Left(h, k)
    <3> SUFFICES ASSUME NEW h, NEW k, h # g \/ k # key
                 PROVE  Left(h, k)' = Left(h, k)
      OBVIOUS
    <3>1. \A m \in Owned(h, k) : tokens'[m] = tokens[m]
      BY <2>3, <2>4
    <3>2. QED
      BY <2>2, <3>1 DEF Left
  <2>7. Cardinality(Left(g, key)') <= Cardinality(Left(g, key)) + Burst
        /\ Cardinality(Left(g, key)') \in Nat
    <3> DEFINE burst == {new} \X (1..Burst)
    <3>1. IsFiniteSet({new}) /\ Cardinality({new}) = 1
      BY FS_Singleton
    <3>2. IsFiniteSet(1..Burst) /\ Cardinality(1..Burst) = Burst
      BY BoundsAssumption, FS_Interval
    <3>3. IsFiniteSet(burst) /\ Cardinality(burst) = 1 * Burst
      BY <3>1, <3>2, FS_Product
    <3> HIDE DEF burst
    <3>4. IsFiniteSet(Left(g, key)) /\ Cardinality(Left(g, key)) \in Nat
      BY <1>0, LeftType
    <3> DEFINE both == Left(g, key) \cup burst
    <3>5. /\ IsFiniteSet(both)
          /\ Cardinality(both) = Cardinality(Left(g, key)) + Cardinality(burst)
                                   - Cardinality(Left(g, key) \cap burst)
      BY <3>3, <3>4, FS_Union
    <3>6. Cardinality(Left(g, key) \cap burst) \in Nat /\ Cardinality(both) \in Nat
      BY <3>4, <3>5, FS_Subset, FS_CardinalityType
    <3>7. Left(g, key)' = both
      BY <2>5 DEF burst
    <3> HIDE DEF both
    <3>8. QED
      BY <3>3, <3>4, <3>5, <3>6, <3>7, BoundsAssumption
  <2>8. ASSUME NEW h \in Group, NEW k \in Key
        PROVE  admitted[h][k] + Cardinality(Left(h, k)') <= (Burst + elapsed) * Created(h, k)'
    <3>1. /\ admitted[h][k] + Cardinality(Left(h, k)) <= (Burst + elapsed) * Created(h, k)
          /\ admitted[h][k] \in Nat /\ elapsed \in Nat
      BY <1>0 DEF Clamp, ClampInv, TypeOK
    <3>2. CASE h = g /\ k = key
      <4>1. Created(g, key) \in Nat /\ Cardinality(Left(g, key)) \in Nat
        BY <1>0, CreatedType, LeftType
      <4>2. (Burst + elapsed) * (Created(g, key) + 1)
              = (Burst + elapsed) * Created(g, key) + (Burst + elapsed)
        BY <3>1, <4>1, BoundsAssumption
      <4>3. (Burst + elapsed) * Created(g, key) \in Nat
        BY <3>1, <4>1, BoundsAssumption
      <4>4. QED
        BY <3>1, <3>2, <4>1, <4>2, <4>3, <2>2, <2>7, BoundsAssumption
    <3>3. CASE h # g \/ k # key
      BY <3>1, <3>3, <2>2, <2>6
    <3>4. QED
      BY <3>2, <3>3
  <2>9. ClampInv'
    BY <1>1, <1>6, <2>8 DEF ClampInv
  <2>10. QED
    BY <1>10, <2>9 DEF Clamp
<1>13. QED
  BY <1>11, <1>12

LEMMA ClampInsert ==
  ASSUME IInv, Clamp, NEW t \in Thread, Insert(t)
  PROVE  Clamp'
BY ClampInsertKey

LEMMA ClampInit == Init => Clamp
<1>1. SUFFICES ASSUME Init PROVE Clamp
  OBVIOUS
<1>2. /\ groups = <<NewGroup>> /\ owner = << >> /\ admitted = <<Zero>>
      /\ DOMAIN groups = {1} /\ groups[1] = NewGroup /\ admitted[1] = Zero
      /\ DOMAIN NewGroup.cur = {} /\ DOMAIN NewGroup.prev = {}
      /\ \A t \in Thread : at[t] = Idle
  BY <1>1, EmptyType DEF Init, NewGroup
<1>3. OwnerInv
  BY <1>2 DEF OwnerInv, Group, Idle
<1>4. \A g, k : Created(g, k) = 0 /\ Cardinality(Left(g, k)) = 0
  <2>1. \A g, k : Owned(g, k) = {}
    BY <1>2 DEF Owned
  <2>2. \A g, k : Left(g, k) = {}
    BY <2>1 DEF Left
  <2>3. QED
    BY <2>1, <2>2, FS_EmptySet DEF Created
<1>5. ClampInv
  <2>1. elapsed = 0 /\ \A k \in Key : admitted[1][k] = 0
    BY <1>1, <1>2 DEF Init, Zero
  <2>2. QED
    BY <1>2, <1>4, <2>1, BoundsAssumption DEF ClampInv, Group
<1>6. QED
  BY <1>3, <1>5 DEF Clamp

LEMMA ClampInvariance == Spec => []Clamp
<1>1. ASSUME IInv, Clamp, [Next]_vars PROVE Clamp'
  <2>1. CASE UNCHANGED vars
    <3>1. UNCHANGED <<groups, tokens, ruleset, at, elapsed, owner, admitted>>
      BY <2>1 DEF vars, history
    <3>2. Group' = Group
      BY <3>1 DEF Group
    <3>3. OwnerInv'
      BY <1>1, <3>1, <3>2 DEF Clamp, OwnerInv
    <3>4. QED
      BY <1>1, <3>1, <3>2, <3>3, ClampStays DEF Clamp
  <2>2. CASE \E t \in Thread, raw \in Key : Lookup(t, raw)
    BY <1>1, <2>2, ClampLookup
  <2>3. CASE \E t \in Thread : FindCreated(t) \/ Insert(t) \/ Take(t) \/ NextBatch(t)
    BY <1>1, <2>3, ClampFindCreated, ClampInsert, ClampTake, ClampNextBatch
  <2>4. CASE Republish \/ Elapse
    BY <1>1, <2>4, ClampRepublish, ClampElapse
  <2>5. QED
    BY <1>1, <2>1, <2>2, <2>3, <2>4 DEF Next
<1>2. QED
  BY <1>1, ClampInit, Invariance, PTL DEF Spec

-----------------------------------------------------------------------------
(* What follows from it. *)

\* The generations map keys to limiters that exist, and no limiter holds more
\* than its burst.
THEOREM TypeCorrect == Spec => []TypeOK
<1>1. IInv => TypeOK
  BY DEF IInv
<1>2. QED
  BY <1>1, Invariance, PTL

\* Whatever keys arrive, and in whatever order the goroutines insert them, a
\* group retains two generations of at most MaxKeys keys.
THEOREM KeysAreBounded == Spec => []RetentionBounded
<1>1. IInv => RetentionBounded
  BY DEF IInv
<1>2. QED
  BY <1>1, Invariance, PTL

\* Goroutines that race on one key end up with the same limiter: a second one is
\* made only for a key the group has forgotten.
THEOREM RacersShareALimiter == Spec => []OneLimiterPerKey
<1>1. IInv => OneLimiterPerKey
  BY DEF IInv
<1>2. QED
  BY <1>1, Invariance, PTL

\* A group forgets a key only when more than a generation of other keys have
\* been used since the key was.
THEOREM BusyKeysKeepTheirBucket == Spec => []EvictedOnlyUnderChurn
<1>1. IInv => EvictedOnlyUnderChurn
  BY DEF IInv
<1>2. QED
  BY <1>1, Invariance, PTL

\* Sustained overload clamps: whatever goroutines race, whatever the map rotates
\* out under them and however many rulesets are published, a ruleset lets a key
\* through at most a burst and the refill, once more for every eviction.
THEOREM OverloadClamps == Spec => []RateClamped
<1>1. ASSUME IInv, Clamp PROVE RateClamped
  <2> SUFFICES ASSUME NEW g \in Group, NEW k \in Key
               PROVE  admitted[g][k] <= (Burst + elapsed) * (evicted[g][k] + 1)
    BY DEF RateClamped
  <2>1. /\ TypeOK /\ admitted[g][k] \in Nat /\ evicted[g][k] \in Nat /\ elapsed \in Nat
        /\ Cardinality(Left(g, k)) \in Nat /\ Created(g, k) \in Nat
    <3>1. TypeOK
      BY <1>1 DEF IInv
    <3>2. admitted[g][k] \in Nat /\ evicted[g][k] \in Nat /\ elapsed \in 0..MaxElapsed
      BY <3>1 DEF TypeOK
    <3>3. QED
      BY <3>1, <3>2, CreatedType, LeftType, BoundsAssumption
  <2>2. admitted[g][k] + Cardinality(Left(g, k)) <= (Burst + elapsed) * Created(g, k)
    BY <1>1 DEF Clamp, ClampInv
  <2>3. Created(g, k) = evicted[g][k] \/ Created(g, k) = evicted[g][k] + 1
    BY <1>1, <2>1 DEF IInv, OneLimiterPerKey
  <2>4. /\ (Burst + elapsed) * (evicted[g][k] + 1)
             = (Burst + elapsed) * evicted[g][k] + (Burst + elapsed)
        /\ (Burst + elapsed) * evicted[g][k] \in Nat
    BY <2>1, BoundsAssumption
  <2>5. CASE Created(g, k) = evicted[g][k]
    BY <2>1, <2>2, <2>4, <2>5, BoundsAssumption
  <2>6. CASE Created(g, k) = evicted[g][k] + 1
    <3>1. admitted[g][k] + Cardinality(Left(g, k)) <= (Burst + elapsed) * (evicted[g][k] + 1)
      BY <2>2, <2>6
    <3>2. (Burst + elapsed) * (evicted[g][k] + 1) \in Nat
      BY <2>1, BoundsAssumption
    <3>3. QED
      BY <2>1, <3>1, <3>2
  <2>7. QED
    BY <2>3, <2>5, <2>6
<1>2. QED
  BY <1>1, Invariance, ClampInvariance, PTL
=============================================================================
