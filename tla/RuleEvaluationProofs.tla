------------------------ MODULE RuleEvaluationProofs ------------------------
(***************************************************************************)
(* A consume call on any batch and under any rules: what a rule was        *)
(* evaluated on stays as the rule left it, whatever later rules rewrite    *)
(* and remove around it.  The argument follows each record through the     *)
(* walk: it came with the batch and agrees with it on every field no rule  *)
(* rewrites, and every rule the walk has passed on it is obeyed.           *)
(***************************************************************************)
EXTENDS RuleEvaluation, FiniteSetTheorems, SequenceTheorems, TLAPS

\* Strings, and the literals, which the provers do not know to be strings.
Name  == STRING \cup {Destination}
Value == SUBSET (STRING \cup Redacted \cup {RedactedPattern})

Map      == UNION {[F -> Value] : F \in SUBSET Name}
Item     == [id : Nat, trace : DOMAIN Bucket, virtual : Map, attrs : Map]
Envelope == [attrs : Map, scopes : Seq(Seq(Item))]

\* A record's place in a batch, and the record there with its resource's
\* attributes.
In(b, i, j, k) == i \in DOMAIN b /\ j \in DOMAIN b[i].scopes /\ k \in DOMAIN b[i].scopes[j]
X(b, i, j, k)  == [record |-> b[i].scopes[j][k], attrs |-> b[i].attrs]

\* Fields that stay where they are.
Fixed(f) == f = Destination => Acting({"ROUTE"}) = {}

\* What a record keeps of its original.
Same(x, y) ==
  /\ x.record.id = y.record.id
  /\ \A f \in STRING :
       Fixed(f) => Place(f, x.record, x.attrs) = Place(f, y.record, y.attrs)
  /\ \A f \in STRING \ Written :
       Place(f, x.record, x.attrs) # "none" =>
         Resolve(f, x.record, x.attrs) = Resolve(f, y.record, y.attrs)
  /\ \A f \in STRING \ Written : Attribute(f, x) = Attribute(f, y)

\* What a rule asks of the records it was evaluated on.
Undropped(n, x) == ruleset[n] \in Untouched(Acting({"DROP"})) => ~Matches(ruleset[n], x)
Masked(n, x) ==
  /\ ruleset[n] \in Acting({"REDACT"}) /\ Fixed(ruleset[n].field) /\ MasksUnnamed
  /\ Matches(ruleset[n], x)
  => Resolve(ruleset[n].field, x.record, x.attrs) = Redacted
Due(n, x) ==
  ruleset[n] \in Untouched(Acting({"THROTTLE"})) /\ Matches(ruleset[n], x)
Charged(n, x, key) == ruleset[n].groupBy \notin Written => key = Group(ruleset[n].groupBy, x)

\* A rule may remove this record.
Removable(x) ==
  \E rule \in Acting({"DROP", "SAMPLE", "THROTTLE"}) :
    rule \in Untouched(Acting({"DROP"})) => Matches(rule, x)

\* The walk has passed rule n on the record at i, j, k.
Passed(i, j, k, n) ==
  \/ phase # "apply"
  \/ i < at.resource
  \/ i = at.resource /\ j < at.scope
  \/ i = at.resource /\ j = at.scope /\ k < at.record
  \/ i = at.resource /\ j = at.scope /\ k = at.record /\ n < at.rule

TypeInv ==
  /\ signal \in DOMAIN Ruleset
  /\ phase \in {"idle", "apply", "observe", "forward", "refused"}
  /\ published \in Ruleset[signal] \cup Republished[signal]
  /\ ruleset \in Ruleset[signal] \cup Republished[signal] \cup {<< >>}
  /\ original \in Batch[signal] \cup {<< >>}
  /\ batch \in Seq(Envelope)
  /\ IsFiniteSet(Positions(batch)) /\ Count(batch) <= Count(original)
  /\ at \in [{"resource", "scope", "record", "rule"} -> Nat \ {0}]
  /\ received \in Nat /\ dropped \in Nat /\ delivered \in Nat /\ refused \in Nat
  /\ publishes \in 0..MaxPublishes[signal] /\ batches \in 0..MaxBatches
  /\ refusals \in 0..MaxRefusals[signal]

\* Between two calls the processor holds nothing, and a refused batch is the
\* sender's.
RestInv ==
  /\ phase \in {"idle", "refused"} => batch = << >>
  /\ phase = "idle" => original = << >>
  /\ phase = "refused" => original \in Batch[signal]

\* A cursor that points nowhere points to the start of nothing.
CursorInv ==
  phase = "apply" =>
    /\ at.rule # 1 => AtRecord
    /\ at.record # 1 => AtScope
    /\ at.scope # 1 => AtResource

\* Every record came with the batch.
SameInv == \A x \in Records(batch) : \E y \in Records(original) : Same(x, y)

\* Every rule passed is obeyed.
PassedInv ==
  \A i \in DOMAIN batch : \A j \in DOMAIN batch[i].scopes : \A k \in DOMAIN batch[i].scopes[j] :
    \A n \in DOMAIN ruleset, x \in Records(batch) :
      x = X(batch, i, j, k) /\ Passed(i, j, k, n) =>
        /\ Undropped(n, x) /\ Masked(n, x)
        /\ Due(n, x) => \E key : <<x.record.id, n, key>> \in paid /\ Charged(n, x, key)

\* Nothing is removed but by a rule.
LostInv ==
  phase \in {"apply", "observe", "forward"} =>
    \A y \in Records(original) : y.record.id \in Ids(batch) \/ Removable(y)

\* The counters are a batch ahead while it is being forwarded.
CountInv ==
  received = dropped + delivered + refused + (IF phase = "forward" THEN Count(batch) ELSE 0)

IInv ==
  TypeInv /\ RestInv /\ CursorInv /\ SameInv /\ PassedInv /\ LostInv /\ CountInv

-----------------------------------------------------------------------------
(* Batches. *)

LEMMA TextType ==
  ASSUME NEW t \in Text
  PROVE  t \in Value
<1>1. t \in SUBSET STRING
  BY Zenon DEF Text
<1>2. t \in SUBSET (STRING \cup Redacted \cup {RedactedPattern})
  BY <1>1, Zenon
<1>3. QED
  BY <1>2 DEF Value

LEMMA MapType ==
  ASSUME NEW f
  PROVE  /\ IsMap(f) => f \in Map
         /\ f \in Map => DOMAIN f \in SUBSET Name /\ f \in [DOMAIN f -> Value]
<1>1. ASSUME f \in Map
      PROVE  DOMAIN f \in SUBSET Name /\ f \in [DOMAIN f -> Value]
  <2>1. PICK F \in SUBSET Name : f \in [F -> Value]
    BY <1>1 DEF Map
  <2>2. QED
    BY <2>1
<1>2. ASSUME IsMap(f) PROVE f \in Map
  <2>1. DOMAIN f \subseteq STRING /\ f \in [DOMAIN f -> Text]
    BY <1>2 DEF IsMap
  <2>2. DOMAIN f \in SUBSET Name
    BY <2>1, Zenon DEF Name
  <2>3. f \in [DOMAIN f -> Value]
    BY <2>1, TextType
  <2>4. QED
    BY <2>2, <2>3 DEF Map
<1>3. QED
  BY <1>1, <1>2

LEMMA ItemType ==
  ASSUME NEW r, IsRecord(r)
  PROVE  r \in Item
<1>1. /\ r.id \in Nat /\ r.trace \in DOMAIN Bucket /\ r.virtual \in Map /\ r.attrs \in Map
      /\ r = [id |-> r.id, trace |-> r.trace, virtual |-> r.virtual, attrs |-> r.attrs]
  BY MapType DEF IsRecord
<1>2. QED
  BY <1>1 DEF Item

LEMMA WidenSeq ==
  ASSUME NEW s, NEW S, s \in Seq(ToSet(s)), \A x \in ToSet(s) : x \in S
  PROVE  s \in Seq(S)
<1>1. ToSet(s) \subseteq S
  OBVIOUS
<1>2. QED
  BY <1>1, SeqMonotonic

LEMMA EnvelopeType ==
  ASSUME NEW res, IsResource(res)
  PROVE  res \in Envelope
<1>1. /\ res = [attrs |-> res.attrs, scopes |-> res.scopes]
      /\ res.attrs \in Map /\ res.scopes \in Seq(ToSet(res.scopes))
  BY MapType DEF IsResource
<1>2. ASSUME NEW s \in ToSet(res.scopes)
      PROVE  s \in Seq(Item)
  <2>1. s \in Seq(ToSet(s)) /\ \A r \in ToSet(s) : IsRecord(r)
    BY DEF IsResource
  <2>2. \A r \in ToSet(s) : r \in Item
    BY <2>1, ItemType
  <2>3. QED
    BY <2>1, <2>2, WidenSeq
<1>3. res.scopes \in Seq(Seq(Item))
  BY <1>1, <1>2, WidenSeq
<1>4. QED
  BY <1>1, <1>3 DEF Envelope

LEMMA BatchType ==
  ASSUME NEW b, IsBatch(b)
  PROVE  b \in Seq(Envelope)
<1>1. b \in Seq(ToSet(b)) /\ \A res \in ToSet(b) : res \in Envelope
  BY EnvelopeType DEF IsBatch
<1>2. QED
  BY <1>1, WidenSeq

\* What is in a batch, level by level.
LEMMA Levels ==
  ASSUME NEW b \in Seq(Envelope)
  PROVE  /\ Len(b) \in Nat /\ DOMAIN b = 1..Len(b)
         /\ \A i \in DOMAIN b :
              /\ b[i] \in Envelope /\ b[i].attrs \in Map /\ b[i].scopes \in Seq(Seq(Item))
              /\ Len(b[i].scopes) \in Nat /\ DOMAIN b[i].scopes = 1..Len(b[i].scopes)
              /\ \A j \in DOMAIN b[i].scopes :
                   /\ b[i].scopes[j] \in Seq(Item)
                   /\ Len(b[i].scopes[j]) \in Nat
                   /\ DOMAIN b[i].scopes[j] = 1..Len(b[i].scopes[j])
                   /\ \A k \in DOMAIN b[i].scopes[j] : b[i].scopes[j][k] \in Item
<1>1. Len(b) \in Nat /\ DOMAIN b = 1..Len(b) /\ b \in [1..Len(b) -> Envelope]
  BY LenProperties
<1>2. ASSUME NEW i \in DOMAIN b
      PROVE  /\ b[i] \in Envelope /\ b[i].attrs \in Map /\ b[i].scopes \in Seq(Seq(Item))
             /\ Len(b[i].scopes) \in Nat /\ DOMAIN b[i].scopes = 1..Len(b[i].scopes)
             /\ b[i].scopes \in [1..Len(b[i].scopes) -> Seq(Item)]
  <2>1. b[i] \in Envelope
    BY <1>1
  <2>2. b[i].attrs \in Map /\ b[i].scopes \in Seq(Seq(Item))
    BY <2>1 DEF Envelope
  <2>3. QED
    BY <2>1, <2>2, LenProperties
<1>3. ASSUME NEW i \in DOMAIN b, NEW j \in DOMAIN b[i].scopes
      PROVE  /\ b[i].scopes[j] \in Seq(Item)
             /\ Len(b[i].scopes[j]) \in Nat
             /\ DOMAIN b[i].scopes[j] = 1..Len(b[i].scopes[j])
             /\ \A k \in DOMAIN b[i].scopes[j] : b[i].scopes[j][k] \in Item
  <2>1. b[i].scopes[j] \in Seq(Item)
    BY <1>2
  <2>2. /\ Len(b[i].scopes[j]) \in Nat /\ DOMAIN b[i].scopes[j] = 1..Len(b[i].scopes[j])
        /\ b[i].scopes[j] \in [1..Len(b[i].scopes[j]) -> Item]
    BY <2>1, LenProperties
  <2>3. QED
    BY <2>1, <2>2
<1>4. QED
  BY <1>1, <1>2, <1>3

LEMMA InNat ==
  ASSUME NEW b \in Seq(Envelope), NEW i, NEW j, NEW k, In(b, i, j, k)
  PROVE  i \in Nat /\ j \in Nat /\ k \in Nat /\ b[i].scopes[j][k] \in Item /\ b[i].attrs \in Map
<1>1. i \in DOMAIN b /\ j \in DOMAIN b[i].scopes /\ k \in DOMAIN b[i].scopes[j]
  BY DEF In
<1>2. i \in 1..Len(b) /\ j \in 1..Len(b[i].scopes) /\ k \in 1..Len(b[i].scopes[j])
  BY <1>1, Levels
<1>3. b[i].scopes[j][k] \in Item /\ b[i].attrs \in Map
  BY <1>1, Levels
<1>4. Len(b) \in Nat /\ Len(b[i].scopes) \in Nat /\ Len(b[i].scopes[j]) \in Nat
  BY <1>1, Levels
<1>5. QED
  BY <1>2, <1>3, <1>4

LEMMA PositionsAre ==
  ASSUME NEW b
  PROVE  \A p : p \in Positions(b) <=> \E i, j, k : In(b, i, j, k) /\ p = <<i, j, k>>
BY DEF Positions, In

LEMMA RecordsAre ==
  ASSUME NEW b
  PROVE  \A x : x \in Records(b) <=> \E i, j, k : In(b, i, j, k) /\ x = X(b, i, j, k)
<1>1. ASSUME NEW x \in Records(b)
      PROVE  \E i, j, k : In(b, i, j, k) /\ x = X(b, i, j, k)
  <2>1. PICK p \in Positions(b) : x = RecordAt(b, p)
    BY DEF Records
  <2>2. PICK i, j, k : In(b, i, j, k) /\ p = <<i, j, k>>
    BY PositionsAre
  <2>3. x = X(b, i, j, k)
    BY <2>1, <2>2 DEF RecordAt, X
  <2>4. QED
    BY <2>2, <2>3
<1>2. ASSUME NEW i, NEW j, NEW k, In(b, i, j, k)
      PROVE  X(b, i, j, k) \in Records(b)
  <2>1. <<i, j, k>> \in Positions(b)
    BY <1>2, PositionsAre
  <2>2. RecordAt(b, <<i, j, k>>) = X(b, i, j, k)
    BY DEF RecordAt, X
  <2>3. QED
    BY <2>1, <2>2 DEF Records
<1>3. QED
  BY <1>1, <1>2

LEMMA IdsAre ==
  ASSUME NEW b
  PROVE  \A x \in Records(b) : x.record.id \in Ids(b)
BY DEF Ids

\* A batch is finite.
LEMMA FiniteBatch ==
  ASSUME NEW b \in Seq(Envelope)
  PROVE  IsFiniteSet(Positions(b))
<1> DEFINE At(i, j) == {<<i, j, k>> : k \in DOMAIN b[i].scopes[j]}
           Of(i)    == {At(i, j) : j \in DOMAIN b[i].scopes}
           All      == {UNION Of(i) : i \in DOMAIN b}
<1>1. ASSUME NEW i \in DOMAIN b, NEW j \in DOMAIN b[i].scopes
      PROVE  IsFiniteSet(At(i, j))
  <2> DEFINE n == Len(b[i].scopes[j])
             f == [k \in 1..n |-> <<i, j, k>>]
  <2>1. n \in Nat /\ DOMAIN b[i].scopes[j] = 1..n
    BY Levels
  <2>2. f \in Surjection(1..n, At(i, j))
    BY <2>1 DEF Surjection
  <2>3. IsFiniteSet(1..n)
    BY <2>1, FS_Interval
  <2> HIDE DEF f, At, n
  <2>4. QED
    BY <2>2, <2>3, FS_Surjection
<1>2. ASSUME NEW i \in DOMAIN b
      PROVE  IsFiniteSet(UNION Of(i))
  <2> DEFINE n == Len(b[i].scopes)
             f == [j \in 1..n |-> At(i, j)]
  <2>1. n \in Nat /\ DOMAIN b[i].scopes = 1..n
    BY Levels
  <2> HIDE DEF At
  <2>2. f \in Surjection(1..n, Of(i))
    BY <2>1 DEF Surjection
  <2>3. IsFiniteSet(1..n)
    BY <2>1, FS_Interval
  <2>4. \A T \in Of(i) : IsFiniteSet(T)
    BY <1>1
  <2> HIDE DEF f, n, Of
  <2>5. IsFiniteSet(Of(i))
    BY <2>2, <2>3, FS_Surjection
  <2>6. QED
    BY <2>4, <2>5, FS_UNION
<1>3. IsFiniteSet(UNION All)
  <2> DEFINE n == Len(b)
             f == [i \in 1..n |-> UNION Of(i)]
  <2>1. n \in Nat /\ DOMAIN b = 1..n
    BY Levels
  <2> HIDE DEF Of
  <2>2. f \in Surjection(1..n, All)
    BY <2>1 DEF Surjection
  <2>3. IsFiniteSet(1..n)
    BY <2>1, FS_Interval
  <2>4. \A T \in All : IsFiniteSet(T)
    BY <1>2
  <2> HIDE DEF f, n, All
  <2>5. IsFiniteSet(All)
    BY <2>2, <2>3, FS_Surjection
  <2>6. QED
    BY <2>4, <2>5, FS_UNION
<1>4. Positions(b) = UNION All
  BY DEF Positions
<1>5. QED
  BY <1>3, <1>4

LEMMA RemoveAtType ==
  ASSUME NEW S, NEW s \in Seq(S), NEW i \in DOMAIN s
  PROVE  /\ RemoveAt(s, i) \in Seq(S)
         /\ \A k : k \in DOMAIN RemoveAt(s, i) <=> k \in 1..(Len(s) - 1)
         /\ \A k \in 1..(Len(s) - 1) : RemoveAt(s, i)[k] = IF k < i THEN s[k] ELSE s[k + 1]
<1> DEFINE h == SubSeq(s, 1, i - 1)
           t == SubSeq(s, i + 1, Len(s))
<1>1. Len(s) \in Nat /\ i \in 1..Len(s) /\ \A k \in 1..Len(s) : s[k] \in S
  BY LenProperties, ElementOfSeq
<1>2. /\ h \in Seq(S) /\ Len(h) = i - 1
      /\ \A k \in 1..(i - 1) : h[k] = s[k]
  <2>1. \A k \in 1..(i - 1) : s[k] \in S
    BY <1>1
  <2>2. /\ h \in Seq(S) /\ Len(h) = IF 1 <= i - 1 THEN i - 1 - 1 + 1 ELSE 0
        /\ \A k \in 1..(i - 1 - 1 + 1) : h[k] = s[1 + k - 1]
    BY <1>1, <2>1, SubSeqProperties
  <2> HIDE DEF h
  <2>3. QED
    BY <1>1, <2>2
<1>3. /\ t \in Seq(S) /\ Len(t) = Len(s) - i
      /\ \A k \in 1..(Len(s) - i) : t[k] = s[i + k]
  <2>1. \A k \in (i + 1)..Len(s) : s[k] \in S
    BY <1>1
  <2>2. /\ t \in Seq(S) /\ Len(t) = IF i + 1 <= Len(s) THEN Len(s) - (i + 1) + 1 ELSE 0
        /\ \A k \in 1..(Len(s) - (i + 1) + 1) : t[k] = s[(i + 1) + k - 1]
    BY <1>1, <2>1, SubSeqProperties
  <2> HIDE DEF t
  <2>3. QED
    BY <1>1, <2>2
<1>4. RemoveAt(s, i) = h \o t
  BY DEF RemoveAt
<1> HIDE DEF h, t
<1>5. /\ h \o t \in Seq(S) /\ Len(h \o t) = Len(h) + Len(t)
      /\ \A k \in 1..(Len(h) + Len(t)) : (h \o t)[k] = IF k <= Len(h) THEN h[k] ELSE t[k - Len(h)]
  BY <1>2, <1>3, ConcatProperties
<1>6. DOMAIN (h \o t) = 1..(Len(s) - 1)
  BY <1>1, <1>2, <1>3, <1>5, LenProperties
<1>7. ASSUME NEW k \in 1..(Len(s) - 1)
      PROVE  (h \o t)[k] = IF k < i THEN s[k] ELSE s[k + 1]
  <2>1. k \in 1..(Len(h) + Len(t)) /\ Len(h) = i - 1 /\ Len(s) \in Nat /\ i \in Nat /\ k \in Nat
    BY <1>1, <1>2, <1>3
  <2>2. CASE k < i
    <3>1. k <= Len(h) /\ k \in 1..(i - 1)
      BY <2>1, <2>2
    <3>2. (h \o t)[k] = h[k]
      BY <1>5, <2>1, <3>1
    <3>3. QED
      BY <1>2, <2>2, <3>1, <3>2
  <2>3. CASE ~(k < i)
    <3>1. ~(k <= Len(h)) /\ k - Len(h) \in 1..(Len(s) - i) /\ i + (k - Len(h)) = k + 1
      BY <2>1, <2>3
    <3>2. (h \o t)[k] = t[k - Len(h)]
      BY <1>5, <2>1, <3>1
    <3>3. t[k - Len(h)] = s[k + 1]
      BY <1>3, <3>1
    <3>4. QED
      BY <2>3, <3>2, <3>3
  <2>4. QED
    BY <2>2, <2>3
<1>8. QED
  BY <1>4, <1>5, <1>6, <1>7

-----------------------------------------------------------------------------
(* Where a field is, and what keeps it there. *)

LEMMA PlaceIs ==
  ASSUME NEW f, NEW r, NEW a
  PROVE  /\ f \in Virtual /\ f \in DOMAIN r.virtual => Place(f, r, a) = "virtual"
         /\ f \in Virtual /\ f \notin DOMAIN r.virtual => Place(f, r, a) = "none"
         /\ f \notin Virtual /\ signal # "METRICS" /\ f \in DOMAIN r.attrs => Place(f, r, a) = "record"
         /\ f \notin Virtual /\ ~(signal # "METRICS" /\ f \in DOMAIN r.attrs) /\ f \in DOMAIN a
              => Place(f, r, a) = "resource"
         /\ f \notin Virtual /\ ~(signal # "METRICS" /\ f \in DOMAIN r.attrs) /\ f \notin DOMAIN a
              => Place(f, r, a) = "none"
         /\ Place(f, r, a) \in {"virtual", "record", "resource", "none"}
BY DEF Place

LEMMA ResolveIs ==
  ASSUME NEW f, NEW r, NEW a
  PROVE  /\ Place(f, r, a) = "virtual" => Resolve(f, r, a) = r.virtual[f]
         /\ Place(f, r, a) = "record" => Resolve(f, r, a) = r.attrs[f]
         /\ Place(f, r, a) = "resource" => Resolve(f, r, a) = a[f]
BY DEF Resolve

LEMMA UnwrittenFixed ==
  ASSUME NEW f, f \notin Written
  PROVE  Fixed(f)
BY DEF Written, Fixed

LEMMA SameReflexive ==
  ASSUME NEW x
  PROVE  Same(x, x)
BY DEF Same

LEMMA SameTransitive ==
  ASSUME NEW x, NEW y, NEW z, Same(x, y), Same(y, z)
  PROVE  Same(x, z)
<1>1. x.record.id = z.record.id
  BY DEF Same
<1>2. ASSUME NEW f \in STRING, Fixed(f)
      PROVE  Place(f, x.record, x.attrs) = Place(f, z.record, z.attrs)
  BY <1>2 DEF Same
<1>3. ASSUME NEW f \in STRING \ Written, Place(f, x.record, x.attrs) # "none"
      PROVE  Resolve(f, x.record, x.attrs) = Resolve(f, z.record, z.attrs)
  <2>1. Place(f, x.record, x.attrs) = Place(f, y.record, y.attrs)
    BY UnwrittenFixed DEF Same
  <2>2. Resolve(f, x.record, x.attrs) = Resolve(f, y.record, y.attrs)
    BY <1>3 DEF Same
  <2>3. Resolve(f, y.record, y.attrs) = Resolve(f, z.record, z.attrs)
    BY <1>3, <2>1 DEF Same
  <2>4. QED
    BY <2>2, <2>3
<1>4. \A f \in STRING \ Written : Attribute(f, x) = Attribute(f, z)
  BY DEF Same
<1>5. QED
  BY <1>1, <1>2, <1>3, <1>4 DEF Same

LEMMA SameMatches ==
  ASSUME NEW x, NEW y, Same(x, y), NEW rule, rule.field \in STRING \ Written
  PROVE  Matches(rule, x) <=> Matches(rule, y)
<1> DEFINE px == Place(rule.field, x.record, x.attrs)
           py == Place(rule.field, y.record, y.attrs)
           tx == Resolve(rule.field, x.record, x.attrs)
           ty == Resolve(rule.field, y.record, y.attrs)
<1>1. px = py
  BY UnwrittenFixed DEF Same
<1>2. px # "none" => tx = ty
  BY DEF Same
<1>3. /\ Matches(rule, x) <=> px # "none" /\ MatchValue(rule, tx)
      /\ Matches(rule, y) <=> py # "none" /\ MatchValue(rule, ty)
  BY DEF Matches, ConditionMatches
<1> HIDE DEF px, py, tx, ty
<1>4. QED
  BY <1>1, <1>2, <1>3

LEMMA SameGroup ==
  ASSUME NEW x, NEW y, Same(x, y), NEW g \in STRING \ Written
  PROVE  Group(g, x) = Group(g, y)
<1>1. Place(g, x.record, x.attrs) = Place(g, y.record, y.attrs)
  BY UnwrittenFixed DEF Same
<1>2. Place(g, x.record, x.attrs) # "none" =>
        Resolve(g, x.record, x.attrs) = Resolve(g, y.record, y.attrs)
  BY DEF Same
<1>3. Attribute(g, x) = Attribute(g, y)
  BY DEF Same
<1>4. QED
  BY <1>1, <1>2, <1>3 DEF Group

LEMMA RuleType ==
  ASSUME TypeInv
  PROVE  /\ Len(ruleset) \in Nat /\ DOMAIN ruleset = 1..Len(ruleset)
         /\ \A n \in DOMAIN ruleset : ruleset[n].field \in STRING /\ ruleset[n].groupBy \in STRING
<1>1. CASE ruleset = << >>
  BY <1>1
<1>2. CASE ruleset \in Ruleset[signal] \cup Republished[signal]
  <2>1. IsRuleset(ruleset)
    BY <1>2, InputAssumption DEF TypeInv
  <2>2. ruleset \in Seq(ToSet(ruleset))
    BY <2>1 DEF IsRuleset
  <2>3. Len(ruleset) \in Nat /\ DOMAIN ruleset = 1..Len(ruleset)
    BY <2>2, LenProperties
  <2>4. \A n \in DOMAIN ruleset : ruleset[n] \in ToSet(ruleset)
    BY DEF ToSet
  <2>5. QED
    BY <2>1, <2>3, <2>4 DEF IsRuleset
<1>3. QED
  BY <1>1, <1>2 DEF TypeInv

LEMMA RuleTexts ==
  ASSUME TypeInv, NEW n \in DOMAIN ruleset
  PROVE  ruleset[n].value \in Text /\ ruleset[n].destination \in Text
<1>1. ruleset \in Ruleset[signal] \cup Republished[signal]
  BY DEF TypeInv
<1>2. IsRuleset(ruleset)
  BY <1>1, InputAssumption DEF TypeInv
<1>3. ruleset[n] \in ToSet(ruleset)
  BY DEF ToSet
<1>4. QED
  BY <1>2, <1>3 DEF IsRuleset

LEMMA ActingAre ==
  ASSUME NEW A
  PROVE  /\ \A n \in DOMAIN ruleset :
              ruleset[n] \in Acting(A) <=> Applies(ruleset[n]) /\ ruleset[n].action \in A
         /\ \A rule \in Acting(A) : \E n \in DOMAIN ruleset : rule = ruleset[n]
BY DEF Acting, Enforced

\* Records that are the same are filtered and charged alike.
LEMMA SameObligations ==
  ASSUME TypeInv, NEW x, NEW y, Same(x, y), NEW n \in DOMAIN ruleset
  PROVE  /\ Undropped(n, x) <=> Undropped(n, y)
         /\ Due(n, x) <=> Due(n, y)
         /\ x.record.id = y.record.id /\ \A key : Charged(n, x, key) <=> Charged(n, y, key)
<1>1. ruleset[n].field \in STRING /\ ruleset[n].groupBy \in STRING
  BY RuleType
<1>2. ASSUME NEW A, ruleset[n] \in Untouched(Acting(A))
      PROVE  Matches(ruleset[n], x) <=> Matches(ruleset[n], y)
  <2>1. ruleset[n].field \in STRING \ Written
    BY <1>1, <1>2 DEF Untouched
  <2>2. QED
    BY <2>1, SameMatches
<1>3. Undropped(n, x) <=> Undropped(n, y)
  BY <1>2 DEF Undropped
<1>4. Due(n, x) <=> Due(n, y)
  BY <1>2 DEF Due
<1>5. ruleset[n].groupBy \notin Written =>
        Group(ruleset[n].groupBy, x) = Group(ruleset[n].groupBy, y)
  BY <1>1, SameGroup
<1>6. QED
  BY <1>3, <1>4, <1>5 DEF Charged, Same

LEMMA SameRemovable ==
  ASSUME TypeInv, NEW x, NEW y, Same(x, y),
         NEW rule \in Acting({"DROP", "SAMPLE", "THROTTLE"}), Matches(rule, x)
  PROVE  Removable(y)
<1>1. CASE rule \in Untouched(Acting({"DROP"}))
  <2>1. PICK n \in DOMAIN ruleset : rule = ruleset[n]
    BY ActingAre
  <2>2. rule.field \in STRING \ Written
    BY <1>1, <2>1, RuleType DEF Untouched
  <2>3. Matches(rule, y)
    BY <2>2, SameMatches
  <2>4. QED
    BY <2>3 DEF Removable
<1>2. CASE rule \notin Untouched(Acting({"DROP"}))
  BY <1>2 DEF Removable
<1>3. QED
  BY <1>1, <1>2

-----------------------------------------------------------------------------
(* Masks, and the fields they are written to. *)

\* What a rule has masked no later mask exposes to it again: where one rule
\* finds something to mask, no other finds a whole mask, and a partial one adds
\* nothing that a rule looks for.
LEMMA MaskHolds ==
  ASSUME MasksUnnamed, NEW t,
         NEW rule \in Acting({"REDACT"}), MatchValue(rule, t),
         NEW other \in Acting({"REDACT"}), MatchValue(other, Mask(rule, t)),
         MatchValue(other, t) => t = Redacted
  PROVE  Mask(rule, t) = Redacted
<1>1. CASE rule.op # "REGEX_MATCH"
  BY <1>1 DEF Mask
<1>2. CASE rule.op = "REGEX_MATCH"
  <2> DEFINE m == (t \ rule.value) \cup {RedactedPattern}
  <2>1. Mask(rule, t) = m
    BY <1>2 DEF Mask
  <2>2. RedactedPattern \notin other.value /\ \A a \in Redacted : a \notin rule.value
    BY DEF MasksUnnamed
  <2>3. RedactedPattern \in m /\ \A a \in m : a \in t \/ a = RedactedPattern
    OBVIOUS
  <2>4. t \cap rule.value # {}
    BY <1>2 DEF MatchValue
  <2>5. RedactedPattern \notin DOMAIN Number
    BY NumberAssumption
  <2> HIDE DEF m
  <2>6. MatchValue(other, m)
    BY <2>1
  <2>7. ASSUME other.op = "EXISTS" PROVE MatchValue(other, t)
    BY <2>7 DEF MatchValue
  <2>8. ~(m = other.value)
    BY <2>2, <2>3
  <2>9. ASSUME other.op = "CONTAINS", other.value \subseteq m PROVE MatchValue(other, t)
    <3>1. other.value \subseteq t
      BY <2>2, <2>3, <2>9
    <3>2. QED
      BY <2>9, <3>1 DEF MatchValue
  <2>10. ~IsNumber(m)
    BY <2>3, <2>5 DEF IsNumber
  <2>11. ASSUME HasRegex(other), m \cap other.value # {} PROVE MatchValue(other, t)
    <3>1. t \cap other.value # {}
      BY <2>2, <2>3, <2>11
    <3>2. QED
      BY <2>11, <3>1 DEF MatchValue
  <2>12. MatchValue(other, t)
    BY <2>6, <2>7, <2>8, <2>9, <2>10, <2>11 DEF MatchValue
  <2>13. t = Redacted
    BY <2>12
  <2>14. QED
    BY <2>2, <2>4, <2>13
<1>3. QED
  BY <1>1, <1>2

\* A rule leaves nothing but a whole mask that it matches itself.
LEMMA MaskDone ==
  ASSUME MasksUnnamed, NEW t, NEW rule \in Acting({"REDACT"}), MatchValue(rule, Mask(rule, t))
  PROVE  Mask(rule, t) = Redacted
<1>1. CASE rule.op # "REGEX_MATCH"
  BY <1>1 DEF Mask
<1>2. CASE rule.op = "REGEX_MATCH"
  <2>1. Mask(rule, t) = (t \ rule.value) \cup {RedactedPattern}
    BY <1>2 DEF Mask
  <2>2. Mask(rule, t) \cap rule.value # {}
    BY <1>2 DEF MatchValue
  <2>3. RedactedPattern \notin rule.value
    BY DEF MasksUnnamed
  <2>4. QED
    BY <2>1, <2>2, <2>3
<1>3. QED
  BY <1>1, <1>2

\* y is x with the value t of field f, where x has it, replaced by v.
Rewrites(x, y, f, t, v) ==
  /\ y.record.id = x.record.id
  /\ \A g : Place(g, y.record, y.attrs) = Place(g, x.record, x.attrs)
  /\ \A g : g # f /\ Place(g, x.record, x.attrs) # "none" =>
       Resolve(g, y.record, y.attrs) = Resolve(g, x.record, x.attrs)
  /\ \A g : g # f => Attribute(g, y) = Attribute(g, x)
  /\ \/ Resolve(f, y.record, y.attrs) = Resolve(f, x.record, x.attrs)
     \/ Resolve(f, x.record, x.attrs) = t /\ Resolve(f, y.record, y.attrs) = v

\* What a rewrite must not undo.
Survives(x, y) ==
  /\ Same(y, x)
  /\ \A n \in DOMAIN ruleset : Masked(n, x) => Masked(n, y)

LEMMA SurvivesReflexive ==
  ASSUME NEW x
  PROVE  Survives(x, x)
BY SameReflexive DEF Survives

LEMMA RewriteSurvives ==
  ASSUME NEW x, NEW y, NEW t, NEW rule \in Acting({"REDACT"}), MatchValue(rule, t),
         Rewrites(x, y, rule.field, t, Mask(rule, t))
  PROVE  Survives(x, y)
<1> DEFINE f == rule.field
<1>1. f \in Written
  BY DEF Written
<1>2. Same(y, x)
  <2>1. ASSUME NEW g \in STRING \ Written, Place(g, y.record, y.attrs) # "none"
        PROVE  Resolve(g, y.record, y.attrs) = Resolve(g, x.record, x.attrs)
    BY <1>1, <2>1 DEF Rewrites
  <2>2. \A g \in STRING \ Written : Attribute(g, y) = Attribute(g, x)
    BY <1>1 DEF Rewrites
  <2>3. QED
    BY <2>1, <2>2 DEF Same, Rewrites
<1>3. ASSUME NEW n \in DOMAIN ruleset, Masked(n, x), ruleset[n] \in Acting({"REDACT"}),
             Fixed(ruleset[n].field), MasksUnnamed, Matches(ruleset[n], y)
      PROVE  Resolve(ruleset[n].field, y.record, y.attrs) = Redacted
  <2> DEFINE g  == ruleset[n].field
             tx == Resolve(g, x.record, x.attrs)
             ty == Resolve(g, y.record, y.attrs)
  <2>1. Place(g, x.record, x.attrs) # "none" /\ MatchValue(ruleset[n], ty)
    BY <1>3 DEF Matches, ConditionMatches, Rewrites
  <2>2. MatchValue(ruleset[n], tx) => tx = Redacted
    BY <1>3, <2>1 DEF Masked, Matches, ConditionMatches
  <2>3. ty = tx \/ (tx = t /\ ty = Mask(rule, t))
    BY <2>1 DEF Rewrites
  <2> HIDE DEF tx, ty
  <2>4. CASE ty = tx
    BY <2>1, <2>2, <2>4 DEF ty
  <2>5. CASE tx = t /\ ty = Mask(rule, t)
    <3>1. Mask(rule, t) = Redacted
      BY <1>3, <2>1, <2>2, <2>5, MaskHolds
    <3>2. QED
      BY <2>5, <3>1 DEF ty
  <2>6. QED
    BY <2>3, <2>4, <2>5
<1>4. QED
  BY <1>2, <1>3 DEF Survives, Masked

\* The rule that wrote the mask is obeyed where it wrote it.
LEMMA RewriteMasks ==
  ASSUME NEW y, NEW t, NEW n \in DOMAIN ruleset,
         Resolve(ruleset[n].field, y.record, y.attrs) = Mask(ruleset[n], t)
  PROVE  Masked(n, y)
<1>1. ASSUME ruleset[n] \in Acting({"REDACT"}), MasksUnnamed, Matches(ruleset[n], y)
      PROVE  Mask(ruleset[n], t) = Redacted
  <2>1. MatchValue(ruleset[n], Mask(ruleset[n], t))
    BY <1>1 DEF Matches, ConditionMatches
  <2>2. QED
    BY <1>1, <2>1, MaskDone
<1>2. QED
  BY <1>1 DEF Masked

\* The three places a field can be rewritten in.
LEMMA RewriteVirtual ==
  ASSUME NEW r \in Item, NEW a, NEW f, NEW v, Place(f, r, a) = "virtual",
         NEW q \in Item, q = [r EXCEPT !.virtual[f] = v]
  PROVE  /\ Rewrites([record |-> r, attrs |-> a], [record |-> q, attrs |-> a],
                     f, Resolve(f, r, a), v)
         /\ Resolve(f, q, a) = v
<1>1. /\ q.id = r.id /\ q.attrs = r.attrs
      /\ q.virtual = [r.virtual EXCEPT ![f] = v]
  BY DEF Item
<1>2. f \in Virtual /\ f \in DOMAIN r.virtual
  BY PlaceIs
<1>3. r.virtual = [g \in DOMAIN r.virtual |-> r.virtual[g]]
  BY MapType DEF Item
<1>4. /\ DOMAIN q.virtual = DOMAIN r.virtual /\ q.virtual[f] = v
      /\ \A g \in DOMAIN r.virtual \ {f} : q.virtual[g] = r.virtual[g]
  BY <1>1, <1>2, <1>3
<1>5. \A g : Place(g, q, a) = Place(g, r, a)
  BY <1>1, <1>4 DEF Place
<1>6. ASSUME NEW g, g # f, Place(g, r, a) # "none"
      PROVE  Resolve(g, q, a) = Resolve(g, r, a)
  <2>1. CASE Place(g, r, a) = "virtual"
    <3>1. g \in DOMAIN r.virtual
      BY <2>1, PlaceIs
    <3>2. Place(g, q, a) = "virtual"
      BY <1>5, <2>1
    <3>3. Resolve(g, q, a) = q.virtual[g] /\ Resolve(g, r, a) = r.virtual[g]
      BY <2>1, <3>2, ResolveIs
    <3>4. QED
      BY <1>4, <1>6, <3>1, <3>3
  <2>2. CASE Place(g, r, a) = "record"
    <3>1. Place(g, q, a) = "record"
      BY <1>5, <2>2
    <3>2. Resolve(g, q, a) = q.attrs[g] /\ Resolve(g, r, a) = r.attrs[g]
      BY <2>2, <3>1, ResolveIs
    <3>3. QED
      BY <1>1, <3>2
  <2>3. CASE Place(g, r, a) = "resource"
    <3>1. Place(g, q, a) = "resource"
      BY <1>5, <2>3
    <3>2. QED
      BY <2>3, <3>1, ResolveIs
  <2>4. QED
    BY <1>6, <2>1, <2>2, <2>3, PlaceIs
<1>7. Resolve(f, q, a) = v
  <2>1. Place(f, q, a) = "virtual"
    BY <1>5
  <2>2. QED
    BY <1>4, <2>1, ResolveIs
<1>8. \A g : Attribute(g, [record |-> q, attrs |-> a]) = Attribute(g, [record |-> r, attrs |-> a])
  BY <1>1 DEF Attribute
<1>9. QED
  BY <1>1, <1>5, <1>6, <1>7, <1>8 DEF Rewrites

LEMMA RewriteOwn ==
  ASSUME NEW r \in Item, NEW a, NEW f, NEW v, Place(f, r, a) = "record",
         NEW q \in Item, q = [r EXCEPT !.attrs[f] = v]
  PROVE  /\ Rewrites([record |-> r, attrs |-> a], [record |-> q, attrs |-> a],
                     f, Resolve(f, r, a), v)
         /\ Resolve(f, q, a) = v
<1>1. /\ q.id = r.id /\ q.virtual = r.virtual
      /\ q.attrs = [r.attrs EXCEPT ![f] = v]
  BY DEF Item
<1>2. f \notin Virtual /\ f \in DOMAIN r.attrs
  BY PlaceIs
<1>3. r.attrs = [g \in DOMAIN r.attrs |-> r.attrs[g]]
  BY MapType DEF Item
<1>4. /\ DOMAIN q.attrs = DOMAIN r.attrs /\ q.attrs[f] = v
      /\ \A g \in DOMAIN r.attrs \ {f} : q.attrs[g] = r.attrs[g]
  BY <1>1, <1>2, <1>3
<1>5. \A g : Place(g, q, a) = Place(g, r, a)
  BY <1>1, <1>4 DEF Place
<1>6. ASSUME NEW g, g # f, Place(g, r, a) # "none"
      PROVE  Resolve(g, q, a) = Resolve(g, r, a)
  <2>1. CASE Place(g, r, a) = "record"
    <3>1. g \in DOMAIN r.attrs
      BY <2>1, PlaceIs
    <3>2. Place(g, q, a) = "record"
      BY <1>5, <2>1
    <3>3. Resolve(g, q, a) = q.attrs[g] /\ Resolve(g, r, a) = r.attrs[g]
      BY <2>1, <3>2, ResolveIs
    <3>4. QED
      BY <1>4, <1>6, <3>1, <3>3
  <2>2. CASE Place(g, r, a) = "virtual"
    <3>1. Place(g, q, a) = "virtual"
      BY <1>5, <2>2
    <3>2. Resolve(g, q, a) = q.virtual[g] /\ Resolve(g, r, a) = r.virtual[g]
      BY <2>2, <3>1, ResolveIs
    <3>3. QED
      BY <1>1, <3>2
  <2>3. CASE Place(g, r, a) = "resource"
    <3>1. Place(g, q, a) = "resource"
      BY <1>5, <2>3
    <3>2. QED
      BY <2>3, <3>1, ResolveIs
  <2>4. QED
    BY <1>6, <2>1, <2>2, <2>3, PlaceIs
<1>7. Resolve(f, q, a) = v
  <2>1. Place(f, q, a) = "record"
    BY <1>5
  <2>2. QED
    BY <1>4, <2>1, ResolveIs
<1>8. \A g : g # f =>
        Attribute(g, [record |-> q, attrs |-> a]) = Attribute(g, [record |-> r, attrs |-> a])
  BY <1>4 DEF Attribute
<1>9. QED
  BY <1>1, <1>5, <1>6, <1>7, <1>8 DEF Rewrites

\* A resource's attribute is rewritten for every record under it.
LEMMA RewriteShared ==
  ASSUME NEW r, NEW a \in Map, NEW f \in DOMAIN a, NEW v, f \notin Virtual
  PROVE  /\ Rewrites([record |-> r, attrs |-> a], [record |-> r, attrs |-> [a EXCEPT ![f] = v]],
                     f, a[f], v)
         /\ Place(f, r, a) = "resource" => Resolve(f, r, [a EXCEPT ![f] = v]) = v
<1> DEFINE c == [a EXCEPT ![f] = v]
<1>1. a = [g \in DOMAIN a |-> a[g]]
  BY MapType
<1>2. DOMAIN c = DOMAIN a /\ c[f] = v /\ \A g \in DOMAIN a \ {f} : c[g] = a[g]
  BY <1>1
<1> HIDE DEF c
<1>3. \A g : Place(g, r, c) = Place(g, r, a)
  BY <1>2 DEF Place
<1>4. ASSUME NEW g, g # f \/ Place(g, r, a) # "resource", Place(g, r, a) # "none"
      PROVE  Resolve(g, r, c) = Resolve(g, r, a)
  <2>1. CASE Place(g, r, a) = "resource"
    <3>1. g \in DOMAIN a
      BY <2>1, PlaceIs
    <3>2. QED
      BY <1>2, <1>3, <1>4, <2>1, <3>1, ResolveIs
  <2>2. CASE Place(g, r, a) # "resource"
    BY <1>3, <1>4, <2>2, ResolveIs, PlaceIs
  <2>3. QED
    BY <2>1, <2>2
<1>5. Place(f, r, a) # "none"
  BY PlaceIs
<1>6. Place(f, r, a) = "resource" => Resolve(f, r, c) = v /\ Resolve(f, r, a) = a[f]
  BY <1>2, <1>3, ResolveIs
<1>7. \A g : g # f =>
        Attribute(g, [record |-> r, attrs |-> c]) = Attribute(g, [record |-> r, attrs |-> a])
  BY <1>2 DEF Attribute
<1>8. Rewrites([record |-> r, attrs |-> a], [record |-> r, attrs |-> c], f, a[f], v)
  BY <1>3, <1>4, <1>5, <1>6, <1>7 DEF Rewrites
<1>9. QED
  BY <1>6, <1>8 DEF c

\* The destination is a field of its own.
LEMMA StampSurvives ==
  ASSUME NEW r, NEW a, NEW text, Acting({"ROUTE"}) # {}
  PROVE  Survives([record |-> r, attrs |-> a],
                  [record |-> r, attrs |-> PutStr(a, Destination, text)])
<1> DEFINE c == PutStr(a, Destination, text)
           x == [record |-> r, attrs |-> a]
           y == [record |-> r, attrs |-> c]
<1>1. /\ DOMAIN c = DOMAIN a \cup {Destination}
      /\ \A g \in DOMAIN a \ {Destination} : c[g] = a[g]
  BY DEF PutStr
<1> HIDE DEF c
<1>2. \A g : g # Destination => Place(g, r, c) = Place(g, r, a)
  BY <1>1 DEF Place
<1>3. ASSUME NEW g, g # Destination, Place(g, r, a) # "none"
      PROVE  Resolve(g, r, c) = Resolve(g, r, a)
  <2>1. CASE Place(g, r, a) = "resource"
    <3>1. g \in DOMAIN a
      BY <2>1, PlaceIs
    <3>2. QED
      BY <1>1, <1>2, <1>3, <2>1, <3>1, ResolveIs
  <2>2. CASE Place(g, r, a) # "resource"
    BY <1>2, <1>3, <2>2, ResolveIs, PlaceIs
  <2>3. QED
    BY <2>1, <2>2
<1>4. \A g : Fixed(g) => g # Destination
  BY DEF Fixed
<1>5. Same(y, x)
  <2>1. y.record = r /\ y.attrs = c /\ x.record = r /\ x.attrs = a
    OBVIOUS
  <2>2. ASSUME NEW g \in STRING \ Written, Place(g, y.record, y.attrs) # "none"
        PROVE  Resolve(g, y.record, y.attrs) = Resolve(g, x.record, x.attrs)
    BY <1>2, <1>3, <1>4, <2>1, <2>2, UnwrittenFixed
  <2>3. \A g : g # Destination => Attribute(g, y) = Attribute(g, x)
    BY <1>1, <2>1 DEF Attribute
  <2>4. \A g \in STRING \ Written : Attribute(g, y) = Attribute(g, x)
    BY <1>4, <2>3, UnwrittenFixed
  <2>5. QED
    BY <1>2, <1>4, <2>1, <2>2, <2>4 DEF Same
<1>6. ASSUME NEW n \in DOMAIN ruleset, Masked(n, x)
      PROVE  Masked(n, y)
  <2>1. y.record = r /\ y.attrs = c /\ x.record = r /\ x.attrs = a
    OBVIOUS
  <2> HIDE DEF x, y
  <2>2. ASSUME Fixed(ruleset[n].field), Matches(ruleset[n], y)
        PROVE  /\ Matches(ruleset[n], x)
               /\ Resolve(ruleset[n].field, y.record, y.attrs)
                    = Resolve(ruleset[n].field, x.record, x.attrs)
    BY <1>2, <1>3, <1>4, <2>1, <2>2 DEF Matches, ConditionMatches
  <2>3. QED
    BY <1>6, <2>2 DEF Masked
<1>7. QED
  BY <1>5, <1>6 DEF Survives, c

-----------------------------------------------------------------------------
(* The walk. *)

\* What the snapshot alone decides does not change during a call.
LEMMA Static ==
  ASSUME signal' = signal, ruleset' = ruleset
  PROVE  /\ \A x, y : Same(x, y)' <=> Same(x, y)
         /\ \A n, x : Undropped(n, x)' <=> Undropped(n, x)
         /\ \A n, x : Masked(n, x)' <=> Masked(n, x)
         /\ \A n, x : Due(n, x)' <=> Due(n, x)
         /\ \A n, x, key : Charged(n, x, key)' <=> Charged(n, x, key)
         /\ \A x : Removable(x)' <=> Removable(x)
<1>1. Virtual' = Virtual /\ \A rule : Applies(rule)' <=> Applies(rule)
  BY DEF Virtual, Applies
<1>2. \A f, r, a : Place(f, r, a)' = Place(f, r, a)
  BY <1>1 DEF Place
<1>3. \A f, r, a : Resolve(f, r, a)' = Resolve(f, r, a)
  BY <1>2 DEF Resolve
<1>4. \A rule, x : Matches(rule, x)' <=> Matches(rule, x)
  BY <1>2, <1>3 DEF Matches, ConditionMatches
<1>5. Enforced' = Enforced
  BY <1>1 DEF Enforced
<1>6. \A A : Acting(A)' = Acting(A)
  BY <1>5 DEF Acting
<1>7. Written' = Written
  BY <1>6 DEF Written
<1>8. \A A : Untouched(A)' = Untouched(A)
  BY <1>7 DEF Untouched
<1>9. (MasksUnnamed' <=> MasksUnnamed) /\ \A f : Fixed(f)' <=> Fixed(f)
  BY <1>6 DEF MasksUnnamed, Fixed
<1>10. \A f, x : Group(f, x)' = Group(f, x)
  BY <1>1, <1>2, <1>3 DEF Group, Attribute
<1>11. \A x, y : Same(x, y)' <=> Same(x, y)
  BY <1>2, <1>3, <1>7, <1>9 DEF Same, Attribute
<1>12. \A n, x : Undropped(n, x)' <=> Undropped(n, x)
  BY <1>4, <1>6, <1>8 DEF Undropped
<1>13. \A n, x : Masked(n, x)' <=> Masked(n, x)
  BY <1>3, <1>4, <1>6, <1>9 DEF Masked
<1>14. \A n, x : Due(n, x)' <=> Due(n, x)
  BY <1>4, <1>6, <1>8 DEF Due
<1>15. \A n, x, key : Charged(n, x, key)' <=> Charged(n, x, key)
  BY <1>7, <1>10 DEF Charged
<1>16. \A x : Removable(x)' <=> Removable(x)
  BY <1>4, <1>6, <1>8 DEF Removable
<1>17. QED
  BY <1>11, <1>12, <1>13, <1>14, <1>15, <1>16

\* What a record must satisfy for a rule the walk has passed.
Obeyed(n, x, tokens) ==
  /\ Undropped(n, x) /\ Masked(n, x)
  /\ Due(n, x) => \E key : <<x.record.id, n, key>> \in tokens /\ Charged(n, x, key)

\* A step that only removes and rewrites records, and passes a rule on a record
\* only when that is obeyed, carries the invariant over.
LEMMA Carried ==
  ASSUME TypeInv, SameInv, PassedInv,
         signal' = signal, ruleset' = ruleset, original' = original, paid \subseteq paid',
         \A i, j, k : In(batch', i, j, k) =>
           \E l, m, o :
             /\ In(batch, l, m, o) /\ Survives(X(batch, l, m, o), X(batch', i, j, k))
             /\ \A n \in DOMAIN ruleset :
                  Passed(i, j, k, n)' =>
                    Passed(l, m, o, n) \/ Obeyed(n, X(batch', i, j, k), paid')
  PROVE  SameInv' /\ PassedInv'
<1>1. SameInv'
  <2>1. ASSUME NEW x \in Records(batch')
        PROVE  \E y \in Records(original) : Same(x, y)
    <3>1. PICK i, j, k : In(batch', i, j, k) /\ x = X(batch', i, j, k)
      BY RecordsAre
    <3>2. PICK l, m, o : In(batch, l, m, o) /\ Survives(X(batch, l, m, o), x)
      BY <3>1
    <3>3. X(batch, l, m, o) \in Records(batch)
      BY <3>2, RecordsAre
    <3>4. PICK y \in Records(original) : Same(X(batch, l, m, o), y)
      BY <3>3 DEF SameInv
    <3>5. Same(x, y)
      BY <3>2, <3>4, SameTransitive DEF Survives
    <3>6. QED
      BY <3>5
  <2>2. \A x, y : Same(x, y)' <=> Same(x, y)
    BY Static
  <2>3. QED
    BY <2>1, <2>2 DEF SameInv
<1>2. ASSUME NEW i, NEW j, NEW k, In(batch', i, j, k), NEW n \in DOMAIN ruleset, Passed(i, j, k, n)'
      PROVE  Obeyed(n, X(batch', i, j, k), paid')
  <2> DEFINE y == X(batch', i, j, k)
  <2>1. PICK l, m, o :
          /\ In(batch, l, m, o) /\ Survives(X(batch, l, m, o), y)
          /\ Passed(l, m, o, n) \/ Obeyed(n, y, paid')
    BY <1>2
  <2> DEFINE x == X(batch, l, m, o)
  <2>2. CASE Passed(l, m, o, n)
    <3>1. x \in Records(batch)
      BY <2>1, RecordsAre
    <3>2. Obeyed(n, x, paid)
      BY <2>1, <2>2, <3>1 DEF PassedInv, In, Obeyed
    <3>3. Survives(x, y)
      BY <2>1
    <3> HIDE DEF x, y
    <3>4. Same(y, x) /\ Masked(n, y)
      BY <3>2, <3>3 DEF Survives, Obeyed
    <3>5. /\ Undropped(n, y) <=> Undropped(n, x)
          /\ Due(n, y) <=> Due(n, x)
          /\ y.record.id = x.record.id /\ \A key : Charged(n, y, key) <=> Charged(n, x, key)
      BY <3>4, SameObligations
    <3>6. Obeyed(n, y, paid')
      BY <3>2, <3>4, <3>5 DEF Obeyed
    <3>7. QED
      BY <3>6 DEF y
  <2>3. QED
    BY <2>1, <2>2
<1>3. PassedInv'
  <2>1. ASSUME NEW i \in DOMAIN batch', NEW j \in DOMAIN batch'[i].scopes,
               NEW k \in DOMAIN batch'[i].scopes[j], NEW n \in DOMAIN ruleset, NEW x,
               x = X(batch', i, j, k), Passed(i, j, k, n)'
        PROVE  /\ Undropped(n, x)' /\ Masked(n, x)'
               /\ Due(n, x)' =>
                    \E key : <<x.record.id, n, key>> \in paid' /\ Charged(n, x, key)'
    <3>1. Obeyed(n, x, paid')
      BY <1>2, <2>1 DEF In
    <3>2. QED
      BY <3>1, Static DEF Obeyed
  <2>2. QED
    BY <2>1 DEF PassedInv
<1>4. QED
  BY <1>1, <1>3

LEMMA AtIs ==
  ASSUME TypeInv
  PROVE  /\ AtResource <=> phase = "apply" /\ at.resource \in DOMAIN batch
         /\ AtScope <=> AtResource /\ at.scope \in DOMAIN batch[at.resource].scopes
         /\ AtRecord <=> phase = "apply" /\ In(batch, at.resource, at.scope, at.record)
         /\ AtRecord => AtScope
         /\ AtRule <=> AtRecord /\ at.rule \in DOMAIN ruleset
         /\ at.resource \in Nat \ {0} /\ at.scope \in Nat \ {0}
         /\ at.record \in Nat \ {0} /\ at.rule \in Nat \ {0}
         /\ AtRecord => [record |-> Record, attrs |-> Resource.attrs]
                          = X(batch, at.resource, at.scope, at.record)
<1>1. /\ at.resource \in Nat \ {0} /\ at.scope \in Nat \ {0}
      /\ at.record \in Nat \ {0} /\ at.rule \in Nat \ {0}
  BY DEF TypeInv
<1>2. QED
  BY <1>1 DEF AtResource, AtScope, AtRecord, AtRule, Resource, Scope, Record, In, X

\* The rest of the invariant, for any step of the walk that goes on.
LEMMA WalkKeeps ==
  ASSUME IInv, phase = "apply", UNCHANGED walk,
         batch' \in Seq(Envelope), IsFiniteSet(Positions(batch')), Count(batch') <= Count(batch),
         at' \in [{"resource", "scope", "record", "rule"} -> Nat \ {0}],
         CursorInv', SameInv', PassedInv', LostInv'
  PROVE  IInv'
<1>1. /\ UNCHANGED <<signal, published, ruleset, phase, received, dropped, original>>
      /\ UNCHANGED <<delivered, refused, publishes, batches, refusals>>
  BY DEF walk, bounds
<1>2. IsFiniteSet(Positions(batch)) /\ Count(batch) <= Count(original)
  BY DEF IInv, TypeInv
<1>3. Count(batch') <= Count(original)
  <2>1. Count(batch) \in Nat /\ Count(batch') \in Nat
    BY <1>2, FS_CardinalityType DEF Count
  <2>2. Count(original) \in Nat
    <3>1. original \in Seq(Envelope)
      <4>1. CASE original = << >>
        BY <4>1
      <4>2. CASE original \in Batch[signal]
        BY <4>2, InputAssumption, BatchType DEF IInv, TypeInv
      <4>3. QED
        BY <4>1, <4>2 DEF IInv, TypeInv
    <3>2. QED
      BY <3>1, FiniteBatch, FS_CardinalityType DEF Count
  <2>3. QED
    BY <1>2, <2>1, <2>2
<1>4. TypeInv'
  BY <1>1, <1>3 DEF IInv, TypeInv
<1>5. RestInv' /\ CountInv'
  BY <1>1 DEF IInv, RestInv, CountInv
<1>6. QED
  BY <1>4, <1>5 DEF IInv

\* One rule evaluated on the record under the cursor, which stays.
LEMMA OneRule ==
  ASSUME IInv, AtRule, UNCHANGED walk, NextRule, paid \subseteq paid', batch' \in Seq(Envelope),
         \A i, j, k : In(batch', i, j, k) <=> In(batch, i, j, k),
         \A i, j, k : In(batch, i, j, k) => Survives(X(batch, i, j, k), X(batch', i, j, k)),
         Obeyed(at.rule, X(batch', at.resource, at.scope, at.record), paid')
  PROVE  IInv'
<1>1. TypeInv /\ SameInv /\ PassedInv /\ LostInv
  BY DEF IInv
<1>2. signal' = signal /\ ruleset' = ruleset /\ original' = original /\ phase' = phase
  BY DEF walk
<1>3. phase = "apply" /\ In(batch, at.resource, at.scope, at.record)
  BY <1>1, AtIs
<1>4. /\ at' \in [{"resource", "scope", "record", "rule"} -> Nat \ {0}]
      /\ at'.resource = at.resource /\ at'.scope = at.scope /\ at'.record = at.record
      /\ at'.rule = at.rule + 1
  <2>1. /\ at \in [{"resource", "scope", "record", "rule"} -> Nat \ {0}]
        /\ at.rule + 1 \in Nat \ {0}
        /\ at' = [at EXCEPT !.rule = at.rule + 1]
    BY <1>1 DEF NextRule, TypeInv
  <2>2. at' \in [{"resource", "scope", "record", "rule"} -> Nat \ {0}]
    BY <2>1, Zenon
  <2>3. QED
    BY <2>1, <2>2
<1>5. SameInv' /\ PassedInv'
  <2>1. ASSUME NEW i, NEW j, NEW k, In(batch', i, j, k), NEW n \in DOMAIN ruleset,
               Passed(i, j, k, n)'
        PROVE  Passed(i, j, k, n) \/ Obeyed(n, X(batch', i, j, k), paid')
    <3>1. n \in Nat /\ at.rule \in Nat
      BY <1>1, RuleType, AtIs
    <3>2. CASE i = at.resource /\ j = at.scope /\ k = at.record /\ n = at.rule
      BY <3>2
    <3>3. CASE ~(i = at.resource /\ j = at.scope /\ k = at.record /\ n = at.rule)
      BY <1>2, <1>3, <1>4, <2>1, <3>1, <3>3 DEF Passed
    <3>4. QED
      BY <3>2, <3>3
  <2>2. QED
    BY <1>1, <1>2, <2>1, Carried
<1>6. Positions(batch') = Positions(batch)
  <2>1. \A p : p \in Positions(batch') <=> p \in Positions(batch)
    BY PositionsAre
  <2>2. QED
    BY <2>1
<1>7. IsFiniteSet(Positions(batch')) /\ Count(batch') <= Count(batch)
  <2>1. IsFiniteSet(Positions(batch))
    BY <1>1 DEF TypeInv
  <2>2. Count(batch) \in Nat /\ Count(batch') = Count(batch)
    BY <1>6, <2>1, FS_CardinalityType DEF Count
  <2>3. QED
    BY <1>6, <2>1, <2>2
<1>8. LostInv'
  <2>1. ASSUME NEW x \in Records(batch)
        PROVE  x.record.id \in Ids(batch')
    <3>1. PICK i, j, k : In(batch, i, j, k) /\ x = X(batch, i, j, k)
      BY RecordsAre
    <3>2. X(batch', i, j, k) \in Records(batch')
      BY <3>1, RecordsAre
    <3>3. X(batch', i, j, k).record.id = x.record.id
      BY <3>1 DEF Survives, Same
    <3>4. QED
      BY <3>2, <3>3 DEF Ids
  <2>2. Ids(batch) \subseteq Ids(batch')
    BY <2>1 DEF Ids
  <2>3. \A y \in Records(original) : y.record.id \in Ids(batch') \/ Removable(y)'
    BY <1>1, <1>2, <1>3, <2>2, Static DEF LostInv
  <2>4. QED
    BY <1>2, <2>3 DEF LostInv
<1>9. CursorInv'
  <2>1. (phase = "apply" /\ In(batch, at.resource, at.scope, at.record))'
    BY <1>2, <1>3, <1>4
  <2>2. AtRecord' /\ AtScope' /\ AtResource'
    BY <2>1 DEF AtRecord, AtScope, AtResource, Resource, Scope, In
  <2>3. QED
    BY <2>2 DEF CursorInv
<1>10. QED
  BY <1>3, <1>4, <1>5, <1>7, <1>8, <1>9, WalkKeeps

\* The walk moves on and leaves the batch as it is.
LEMMA Moves ==
  ASSUME IInv, phase = "apply", UNCHANGED walk, batch' = batch, paid' = paid,
         at' \in [{"resource", "scope", "record", "rule"} -> Nat \ {0}], CursorInv',
         \A i, j, k : In(batch, i, j, k) =>
           \A n \in DOMAIN ruleset : Passed(i, j, k, n)' => Passed(i, j, k, n)
  PROVE  IInv'
<1>1. TypeInv /\ SameInv /\ PassedInv /\ LostInv
  BY DEF IInv
<1>2. signal' = signal /\ ruleset' = ruleset /\ original' = original /\ phase' = phase
  BY DEF walk
<1>3. SameInv' /\ PassedInv'
  BY <1>1, <1>2, Carried, SurvivesReflexive
<1>4. LostInv'
  BY <1>1, <1>2, Static DEF LostInv
<1>5. /\ batch' \in Seq(Envelope) /\ IsFiniteSet(Positions(batch'))
      /\ Count(batch') <= Count(batch)
  <2>1. batch \in Seq(Envelope) /\ IsFiniteSet(Positions(batch))
    BY <1>1 DEF TypeInv
  <2>2. Count(batch) \in Nat
    BY <2>1, FS_CardinalityType DEF Count
  <2>3. QED
    BY <2>1, <2>2
<1>6. QED
  BY <1>3, <1>4, <1>5, WalkKeeps

\* Something is removed: a record by a rule, or an envelope that holds none.
LEMMA Removes ==
  ASSUME IInv, phase = "apply", UNCHANGED walk, batch' \in Seq(Envelope), paid' = paid,
         at' \in [{"resource", "scope", "record", "rule"} -> Nat \ {0}], CursorInv',
         NEW From, From \in Injection(Positions(batch'), Positions(batch)),
         \A p \in Positions(batch') :
           /\ RecordAt(batch', p) = RecordAt(batch, From[p])
           /\ \A n \in DOMAIN ruleset :
                Passed(p[1], p[2], p[3], n)' => Passed(From[p][1], From[p][2], From[p][3], n),
         \A q \in Positions(batch) :
           \/ \E p \in Positions(batch') : From[p] = q
           \/ \E rule \in Acting({"DROP", "SAMPLE", "THROTTLE"}) : Matches(rule, RecordAt(batch, q))
  PROVE  IInv'
<1>1. TypeInv /\ SameInv /\ PassedInv /\ LostInv
  BY DEF IInv
<1>2. signal' = signal /\ ruleset' = ruleset /\ original' = original /\ phase' = phase
  BY DEF walk
<1>3. From \in [Positions(batch') -> Positions(batch)]
  BY DEF Injection
<1>4. IsFiniteSet(Positions(batch')) /\ Count(batch') <= Count(batch)
  BY <1>1, FS_Injection DEF TypeInv, Count
<1>5. ASSUME NEW i, NEW j, NEW k, In(batch', i, j, k)
      PROVE  \E l, m, o :
               /\ In(batch, l, m, o) /\ Survives(X(batch, l, m, o), X(batch', i, j, k))
               /\ \A n \in DOMAIN ruleset : Passed(i, j, k, n)' => Passed(l, m, o, n)
  <2> DEFINE p == <<i, j, k>>
  <2>1. p \in Positions(batch')
    BY <1>5, PositionsAre
  <2>2. From[p] \in Positions(batch)
    BY <1>3, <2>1
  <2>3. PICK l, m, o : In(batch, l, m, o) /\ From[p] = <<l, m, o>>
    BY <2>2, PositionsAre
  <2>4. X(batch', i, j, k) = X(batch, l, m, o)
    BY <2>1, <2>3 DEF RecordAt, X
  <2>5. Survives(X(batch, l, m, o), X(batch', i, j, k))
    BY <2>4, SurvivesReflexive
  <2>6. \A n \in DOMAIN ruleset : Passed(i, j, k, n)' => Passed(l, m, o, n)
    BY <2>1, <2>3
  <2>7. QED
    BY <2>3, <2>5, <2>6
<1>6. SameInv' /\ PassedInv'
  BY <1>1, <1>2, <1>5, Carried
<1>7. LostInv'
  <2>1. ASSUME NEW y \in Records(original)
        PROVE  y.record.id \in Ids(batch') \/ Removable(y)
    <3>1. CASE Removable(y)
      BY <3>1
    <3>2. CASE y.record.id \in Ids(batch)
      <4>1. PICK q \in Positions(batch) : y.record.id = RecordAt(batch, q).record.id
        BY <3>2 DEF Ids, Records
      <4>2. CASE \E p \in Positions(batch') : From[p] = q
        BY <4>1, <4>2 DEF Ids, Records
      <4>3. ASSUME NEW rule \in Acting({"DROP", "SAMPLE", "THROTTLE"}),
                   Matches(rule, RecordAt(batch, q))
            PROVE  Removable(y)
        <5>1. RecordAt(batch, q) \in Records(batch)
          BY DEF Records
        <5>2. PICK z \in Records(original) : Same(RecordAt(batch, q), z)
          BY <1>1, <5>1 DEF SameInv
        <5>3. z.record.id = y.record.id
          BY <4>1, <5>2 DEF Same
        <5>4. z = y
          <6>1. original \in Batch[signal] \/ original = << >>
            BY <1>1 DEF TypeInv
          <6>2. original # << >>
            BY DEF Records, Positions
          <6>3. IsBatch(original)
            BY <1>1, <6>1, <6>2, InputAssumption DEF TypeInv
          <6>4. QED
            BY <5>3, <6>3 DEF IsBatch, Records
        <5>5. QED
          BY <1>1, <4>3, <5>2, <5>4, SameRemovable
      <4>4. QED
        BY <4>2, <4>3
    <3>3. QED
      BY <1>1, <3>1, <3>2 DEF LostInv
  <2>2. QED
    BY <1>2, <2>1, Static DEF LostInv
<1>8. QED
  BY <1>4, <1>6, <1>7, WalkKeeps

-----------------------------------------------------------------------------
(* The steps that evaluate a rule. *)

LEMMA HitIs ==
  ASSUME TypeInv, AtRule
  PROVE  /\ at.rule \in DOMAIN ruleset /\ Rule = ruleset[at.rule]
         /\ In(batch, at.resource, at.scope, at.record) /\ phase = "apply"
         /\ Hit <=> /\ Applies(ruleset[at.rule])
                    /\ Matches(ruleset[at.rule], X(batch, at.resource, at.scope, at.record))
<1>1. /\ at.rule \in DOMAIN ruleset /\ In(batch, at.resource, at.scope, at.record)
      /\ phase = "apply"
  BY AtIs
<1>2. /\ X(batch, at.resource, at.scope, at.record).record = Record
      /\ X(batch, at.resource, at.scope, at.record).attrs = Resource.attrs
  BY DEF X, Record, Scope, Resource
<1>3. QED
  BY <1>1, <1>2 DEF Hit, Rule, Matches

\* A rule that does not match, or neither removes nor rewrites, asks for nothing.
LEMMA Spared ==
  ASSUME NEW n \in DOMAIN ruleset, NEW x, NEW tokens,
         \/ ~(Applies(ruleset[n]) /\ Matches(ruleset[n], x))
         \/ ruleset[n].action \notin {"DROP", "REDACT", "THROTTLE"}
  PROVE  Obeyed(n, x, tokens)
<1>1. \A A \in SUBSET {"DROP", "REDACT", "THROTTLE"} :
        ruleset[n] \in Acting(A) => ~Matches(ruleset[n], x)
  BY ActingAre
<1>2. QED
  BY <1>1 DEF Obeyed, Undropped, Masked, Due, Untouched

LEMMA SkipStep ==
  ASSUME IInv, SkipRule
  PROVE  IInv'
<1>1. /\ AtRule /\ ~Hit /\ NextRule /\ UNCHANGED walk /\ batch' = batch /\ paid' = paid
      /\ TypeInv /\ batch \in Seq(Envelope)
  BY DEF SkipRule, IInv, TypeInv
<1>2. Obeyed(at.rule, X(batch, at.resource, at.scope, at.record), paid)
  BY <1>1, HitIs, Spared
<1>3. QED
  BY <1>1, <1>2, OneRule, SurvivesReflexive

LEMMA SampleKeepStep ==
  ASSUME IInv, Hit, Rule.action = "SAMPLE", NextRule, UNCHANGED <<batch, walk, paid>>
  PROVE  IInv'
<1>1. AtRule /\ TypeInv /\ batch \in Seq(Envelope) /\ batch' = batch /\ paid' = paid
  BY DEF Hit, IInv, TypeInv
<1>2. at.rule \in DOMAIN ruleset /\ ruleset[at.rule].action = "SAMPLE"
  BY <1>1, HitIs
<1>3. Obeyed(at.rule, X(batch, at.resource, at.scope, at.record), paid)
  BY <1>2, Spared
<1>4. QED
  BY <1>1, <1>3, OneRule, SurvivesReflexive

\* The key a throttled record pays from is that of its group.
LEMMA KeyIsGroup ==
  ASSUME NEW rule, NEW r, NEW a, TypeInv
  PROVE  ThrottleKey(rule, r, a) = Group(rule.groupBy, [record |-> r, attrs |-> a])
<1> DEFINE g == rule.groupBy
           x == [record |-> r, attrs |-> a]
<1>1. CASE g = NoGroup
  BY <1>1 DEF ThrottleKey, Group
<1>2. CASE g # NoGroup /\ signal = "METRICS"
  <2>1. Virtual = {"metric.name"}
    BY <1>2 DEF Virtual
  <2>2. Group(g, x) = IF Place(g, r, a) = "none" THEN DefaultKey ELSE Resolve(g, r, a)
    BY <1>2 DEF Group
  <2>3. CASE g = "metric.name"
    <3>1. ThrottleKey(rule, r, a) = IF g \in DOMAIN r.virtual THEN r.virtual[g] ELSE DefaultKey
      BY <1>2, <2>1, <2>3 DEF ThrottleKey
    <3>2. Place(g, r, a) = IF g \in DOMAIN r.virtual THEN "virtual" ELSE "none"
      BY <2>1, <2>3, PlaceIs
    <3>3. QED
      BY <2>2, <3>1, <3>2, ResolveIs
  <2>4. CASE g # "metric.name"
    <3>1. ThrottleKey(rule, r, a) = IF g \in DOMAIN a THEN a[g] ELSE DefaultKey
      BY <1>2, <2>1, <2>4 DEF ThrottleKey
    <3>2. g \notin Virtual
      BY <2>1, <2>4
    <3>3. Place(g, r, a) = IF g \in DOMAIN a THEN "resource" ELSE "none"
      BY <1>2, <3>2, PlaceIs
    <3>4. QED
      BY <2>2, <3>1, <3>3, ResolveIs
  <2>5. QED
    BY <2>3, <2>4
<1>3. CASE g # NoGroup /\ signal # "METRICS"
  <2>1. \/ Virtual = {}
        \/ signal = "LOGS" /\ Virtual = {"log.severity", "log.body"}
    <3>1. signal \in Signal
      BY InputAssumption DEF TypeInv
    <3>2. signal = "LOGS" \/ signal = "TRACES"
      BY <1>3, <3>1 DEF Signal
    <3>3. CASE signal = "LOGS"
      BY <3>3 DEF Virtual
    <3>4. CASE signal = "TRACES"
      BY <3>4 DEF Virtual
    <3>5. QED
      BY <3>2, <3>3, <3>4
  <2>2. ThrottleKey(rule, r, a) =
          IF g \in DOMAIN r.attrs THEN r.attrs[g] ELSE IF g \in DOMAIN a THEN a[g] ELSE DefaultKey
    BY <1>3, <2>1 DEF ThrottleKey
  <2>3. CASE signal = "LOGS" /\ g \in Virtual
    BY <1>3, <2>2, <2>3 DEF Group, Attribute
  <2>4. CASE ~(signal = "LOGS" /\ g \in Virtual)
    <3>1. g \notin Virtual
      BY <2>1, <2>4
    <3>2. Group(g, x) = IF Place(g, r, a) = "none" THEN DefaultKey ELSE Resolve(g, r, a)
      BY <1>3, <2>4 DEF Group
    <3>3. Place(g, r, a) =
            IF g \in DOMAIN r.attrs THEN "record" ELSE IF g \in DOMAIN a THEN "resource" ELSE "none"
      BY <1>3, <3>1, PlaceIs
    <3>4. QED
      BY <2>2, <3>2, <3>3, ResolveIs
  <2>5. QED
    BY <2>3, <2>4
<1>4. QED
  BY <1>1, <1>2, <1>3

LEMMA ThrottlePayStep ==
  ASSUME IInv, Hit, Rule.action = "THROTTLE", NextRule, UNCHANGED <<batch, walk>>,
         paid' = paid \cup {<<Record.id, at.rule, ThrottleKey(Rule, Record, Resource.attrs)>>}
  PROVE  IInv'
<1> DEFINE x == X(batch, at.resource, at.scope, at.record)
<1>1. AtRule /\ TypeInv /\ batch \in Seq(Envelope) /\ batch' = batch
  BY DEF Hit, IInv, TypeInv
<1>2. /\ at.rule \in DOMAIN ruleset /\ Rule = ruleset[at.rule]
      /\ ruleset[at.rule].action = "THROTTLE"
  BY <1>1, HitIs
<1>3. x = [record |-> Record, attrs |-> Resource.attrs]
  BY DEF X, Record, Scope, Resource
<1>4. Undropped(at.rule, x) /\ Masked(at.rule, x)
  BY <1>2, ActingAre DEF Undropped, Masked, Untouched
<1>5. ASSUME Due(at.rule, x)
      PROVE  \E key : <<x.record.id, at.rule, key>> \in paid' /\ Charged(at.rule, x, key)
  <2> DEFINE key == ThrottleKey(Rule, Record, Resource.attrs)
  <2>1. key = Group(ruleset[at.rule].groupBy, x)
    BY <1>1, <1>2, <1>3, KeyIsGroup
  <2>2. <<x.record.id, at.rule, key>> \in paid'
    BY <1>3
  <2> HIDE DEF key, x
  <2>3. QED
    BY <2>1, <2>2 DEF Charged
<1>6. Obeyed(at.rule, x, paid')
  BY <1>4, <1>5 DEF Obeyed
<1>7. QED
  BY <1>1, <1>6, OneRule, SurvivesReflexive

\* One resource replaced, with as many records in the same places.
LEMMA ReplaceEnvelope ==
  ASSUME NEW b \in Seq(Envelope), NEW i0 \in DOMAIN b, NEW env \in Envelope,
         DOMAIN env.scopes = DOMAIN b[i0].scopes,
         \A j \in DOMAIN env.scopes : DOMAIN env.scopes[j] = DOMAIN b[i0].scopes[j]
  PROVE  /\ [b EXCEPT ![i0] = env] \in Seq(Envelope)
         /\ \A i, j, k : In([b EXCEPT ![i0] = env], i, j, k) <=> In(b, i, j, k)
         /\ \A i, j, k : In(b, i, j, k) =>
              X([b EXCEPT ![i0] = env], i, j, k)
                = IF i = i0 THEN [record |-> env.scopes[j][k], attrs |-> env.attrs]
                  ELSE X(b, i, j, k)
<1> DEFINE c == [b EXCEPT ![i0] = env]
<1>1. i0 \in 1..Len(b) /\ DOMAIN b = 1..Len(b)
  BY Levels
<1>2. c \in Seq(Envelope)
  BY <1>1, ExceptSeq
<1>3. DOMAIN c = DOMAIN b /\ \A i \in DOMAIN b : c[i] = IF i = i0 THEN env ELSE b[i]
  OBVIOUS
<1> HIDE DEF c
<1>4. /\ c \in Seq(Envelope)
      /\ \A i, j, k : In(c, i, j, k) <=> In(b, i, j, k)
      /\ \A i, j, k : In(b, i, j, k) =>
           X(c, i, j, k) = IF i = i0 THEN [record |-> env.scopes[j][k], attrs |-> env.attrs]
                           ELSE X(b, i, j, k)
  BY <1>2, <1>3 DEF In, X
<1>5. QED
  BY <1>4 DEF c

LEMMA FunctionSeq ==
  ASSUME NEW S, NEW n \in Nat, NEW f \in [1..n -> S]
  PROVE  f \in Seq(S)
OBVIOUS

LEMMA ReplaceInner ==
  ASSUME NEW S, NEW ss \in Seq(Seq(S)), NEW j0 \in DOMAIN ss, NEW t \in Seq(S)
  PROVE  [ss EXCEPT ![j0] = t] \in Seq(Seq(S))
<1>1. Len(ss) \in Nat /\ ss \in [1..Len(ss) -> Seq(S)]
  BY LenProperties
<1>2. [ss EXCEPT ![j0] = t] \in [1..Len(ss) -> Seq(S)]
  BY <1>1, Zenon
<1>3. QED
  BY <1>1, <1>2, FunctionSeq

LEMMA ReplaceItem ==
  ASSUME NEW ss \in Seq(Seq(Item)), NEW j0 \in DOMAIN ss, NEW k0 \in DOMAIN ss[j0],
         NEW q \in Item, NEW tt, tt = [ss EXCEPT ![j0] = [ss[j0] EXCEPT ![k0] = q]]
  PROVE  /\ tt \in Seq(Seq(Item)) /\ DOMAIN tt = DOMAIN ss
         /\ \A j \in DOMAIN tt : DOMAIN tt[j] = DOMAIN ss[j]
         /\ \A j \in DOMAIN ss : \A k \in DOMAIN ss[j] :
              tt[j][k] = IF j = j0 /\ k = k0 THEN q ELSE ss[j][k]
<1> DEFINE s == ss[j0]
           t == [s EXCEPT ![k0] = q]
<1>1. DOMAIN ss = 1..Len(ss) /\ s \in Seq(Item)
  BY LenProperties, ElementOfSeq
<1>2. DOMAIN s = 1..Len(s)
  BY <1>1, LenProperties
<1>3. /\ t \in Seq(Item) /\ DOMAIN t = DOMAIN s
      /\ \A k \in DOMAIN s : t[k] = IF k = k0 THEN q ELSE s[k]
  BY <1>1, <1>2, ExceptSeq
<1>4. /\ tt \in Seq(Seq(Item)) /\ DOMAIN tt = DOMAIN ss
      /\ \A j \in DOMAIN ss : tt[j] = IF j = j0 THEN t ELSE ss[j]
  <2> HIDE DEF t
  <2>1. tt = [ss EXCEPT ![j0] = t]
    BY DEF t
  <2>2. [ss EXCEPT ![j0] = t] \in Seq(Seq(Item))
    BY <1>3, ReplaceInner
  <2>3. QED
    BY <2>1, <2>2
<1> HIDE DEF t
<1>5. QED
  BY <1>3, <1>4

\* One record replaced, or the attributes of one resource.
PutRecord(b, i, j, k, q) ==
  [b EXCEPT ![i] = [b[i] EXCEPT !.scopes =
    [b[i].scopes EXCEPT ![j] = [b[i].scopes[j] EXCEPT ![k] = q]]]]
PutAttrs(b, i, m) == [b EXCEPT ![i] = [b[i] EXCEPT !.attrs = m]]

LEMMA ReplaceRecord ==
  ASSUME NEW b \in Seq(Envelope), NEW i0, NEW j0, NEW k0, In(b, i0, j0, k0), NEW q \in Item
  PROVE  /\ PutRecord(b, i0, j0, k0, q) \in Seq(Envelope)
         /\ \A i, j, k : In(PutRecord(b, i0, j0, k0, q), i, j, k) <=> In(b, i, j, k)
         /\ \A i, j, k : In(b, i, j, k) =>
              X(PutRecord(b, i0, j0, k0, q), i, j, k)
                = IF i = i0 /\ j = j0 /\ k = k0 THEN [record |-> q, attrs |-> b[i0].attrs]
                  ELSE X(b, i, j, k)
<1> DEFINE c  == PutRecord(b, i0, j0, k0, q)
           ss == b[i0].scopes
           tt == [ss EXCEPT ![j0] = [ss[j0] EXCEPT ![k0] = q]]
<1>1. i0 \in DOMAIN b /\ j0 \in DOMAIN ss /\ k0 \in DOMAIN ss[j0]
  BY DEF In
<1>2. b[i0] \in Envelope /\ ss \in Seq(Seq(Item))
  BY <1>1, Levels
<1>3. /\ tt \in Seq(Seq(Item)) /\ DOMAIN tt = DOMAIN ss
      /\ \A j \in DOMAIN tt : DOMAIN tt[j] = DOMAIN ss[j]
      /\ \A j \in DOMAIN ss : \A k \in DOMAIN ss[j] :
           tt[j][k] = IF j = j0 /\ k = k0 THEN q ELSE ss[j][k]
  BY <1>1, <1>2, ReplaceItem
<1>4. c = [b EXCEPT ![i0] = [b[i0] EXCEPT !.scopes = tt]]
  BY DEF PutRecord
<1> HIDE DEF tt, c
<1>5. PICK env \in Envelope :
        env = [b[i0] EXCEPT !.scopes = tt] /\ env.scopes = tt /\ env.attrs = b[i0].attrs
  <2>1. b[i0] \in Envelope /\ tt \in Seq(Seq(Item))
    BY <1>2, <1>3
  <2>2. /\ [b[i0] EXCEPT !.scopes = tt] \in Envelope
        /\ [b[i0] EXCEPT !.scopes = tt].scopes = tt
        /\ [b[i0] EXCEPT !.scopes = tt].attrs = b[i0].attrs
    BY ONLY <2>1 DEF Envelope
  <2>3. QED
    BY ONLY <2>2
<1>6. /\ c \in Seq(Envelope)
      /\ \A i, j, k : In(c, i, j, k) <=> In(b, i, j, k)
      /\ \A i, j, k : In(b, i, j, k) =>
           X(c, i, j, k) = IF i = i0 THEN [record |-> env.scopes[j][k], attrs |-> env.attrs]
                           ELSE X(b, i, j, k)
  <2>1. /\ DOMAIN env.scopes = DOMAIN b[i0].scopes
        /\ \A j \in DOMAIN env.scopes : DOMAIN env.scopes[j] = DOMAIN b[i0].scopes[j]
    BY <1>3, <1>5
  <2>2. /\ [b EXCEPT ![i0] = env] \in Seq(Envelope)
        /\ \A i, j, k : In([b EXCEPT ![i0] = env], i, j, k) <=> In(b, i, j, k)
        /\ \A i, j, k : In(b, i, j, k) =>
             X([b EXCEPT ![i0] = env], i, j, k)
               = IF i = i0 THEN [record |-> env.scopes[j][k], attrs |-> env.attrs]
                 ELSE X(b, i, j, k)
    BY ONLY <1>1, <2>1, ReplaceEnvelope
  <2>3. c = [b EXCEPT ![i0] = env]
    BY <1>4, <1>5
  <2>4. QED
    BY ONLY <2>2, <2>3
<1>7. ASSUME NEW i, NEW j, NEW k, In(b, i, j, k)
      PROVE  X(c, i, j, k) = IF i = i0 /\ j = j0 /\ k = k0
                             THEN [record |-> q, attrs |-> b[i0].attrs] ELSE X(b, i, j, k)
  <2>1. CASE i = i0
    <3>1. j \in DOMAIN ss /\ k \in DOMAIN ss[j]
      BY <1>7, <2>1 DEF In
    <3>2. tt[j][k] = IF j = j0 /\ k = k0 THEN q ELSE ss[j][k]
      BY <1>3, <3>1
    <3>3. X(c, i, j, k) = [record |-> tt[j][k], attrs |-> b[i0].attrs]
      BY ONLY <1>5, <1>6, <1>7, <2>1
    <3>4. X(b, i, j, k) = [record |-> ss[j][k], attrs |-> b[i0].attrs]
      BY <2>1 DEF X
    <3>5. QED
      BY <2>1, <3>2, <3>3, <3>4
  <2>2. CASE i # i0
    BY <1>6, <1>7, <2>2
  <2>3. QED
    BY <2>1, <2>2
<1>8. QED
  BY <1>6, <1>7 DEF c

LEMMA ReplaceAttrs ==
  ASSUME NEW b \in Seq(Envelope), NEW i0 \in DOMAIN b, NEW m \in Map
  PROVE  /\ PutAttrs(b, i0, m) \in Seq(Envelope)
         /\ \A i, j, k : In(PutAttrs(b, i0, m), i, j, k) <=> In(b, i, j, k)
         /\ \A i, j, k : In(b, i, j, k) =>
              X(PutAttrs(b, i0, m), i, j, k)
                = IF i = i0 THEN [record |-> b[i0].scopes[j][k], attrs |-> m]
                  ELSE X(b, i, j, k)
<1>1. b[i0] \in Envelope
  BY Levels
<1>2. PICK env \in Envelope : env = [b[i0] EXCEPT !.attrs = m]
  BY <1>1 DEF Envelope
<1>3. env.scopes = b[i0].scopes /\ env.attrs = m
  BY <1>1, <1>2 DEF Envelope
<1> DEFINE c == [b EXCEPT ![i0] = env]
<1>4. PutAttrs(b, i0, m) = c
  BY <1>2 DEF PutAttrs
<1>5. /\ c \in Seq(Envelope)
      /\ \A i, j, k : In(c, i, j, k) <=> In(b, i, j, k)
      /\ \A i, j, k : In(b, i, j, k) =>
           X(c, i, j, k) = IF i = i0 THEN [record |-> env.scopes[j][k], attrs |-> env.attrs]
                           ELSE X(b, i, j, k)
  BY ONLY <1>3, ReplaceEnvelope
<1> HIDE DEF c
<1>6. QED
  BY ONLY <1>3, <1>4, <1>5

LEMMA MaskType ==
  ASSUME NEW rule, NEW t \in Value
  PROVE  Mask(rule, t) \in Value
<1>1. \A x \in Mask(rule, t) : x \in t \/ x \in Redacted \/ x = RedactedPattern
  BY DEF Mask
<1>2. Mask(rule, t) \in SUBSET (STRING \cup Redacted \cup {RedactedPattern})
  BY <1>1, Zenon DEF Value
<1>3. QED
  BY <1>2 DEF Value

LEMMA ResolveType ==
  ASSUME NEW r \in Item, NEW a \in Map, NEW f, Place(f, r, a) # "none"
  PROVE  Resolve(f, r, a) \in Value
<1>1. \A m \in Map : \A g \in DOMAIN m : m[g] \in Value
  BY MapType
<1>2. r.virtual \in Map /\ r.attrs \in Map
  BY DEF Item
<1>3. CASE Place(f, r, a) = "virtual"
  BY <1>1, <1>2, <1>3, PlaceIs, ResolveIs
<1>4. CASE Place(f, r, a) = "record"
  BY <1>1, <1>2, <1>4, PlaceIs, ResolveIs
<1>5. CASE Place(f, r, a) = "resource"
  BY <1>1, <1>5, PlaceIs, ResolveIs
<1>6. QED
  BY <1>3, <1>4, <1>5, PlaceIs

LEMMA MapExcept ==
  ASSUME NEW m \in Map, NEW f \in DOMAIN m, NEW v \in Value
  PROVE  [m EXCEPT ![f] = v] \in Map
<1>1. DOMAIN m \in SUBSET Name /\ m \in [DOMAIN m -> Value]
  BY MapType
<1>2. [m EXCEPT ![f] = v] \in [DOMAIN m -> Value]
  BY <1>1
<1>3. QED
  BY <1>1, <1>2 DEF Map

LEMMA MapPutStr ==
  ASSUME NEW m \in Map, NEW v \in Value
  PROVE  PutStr(m, Destination, v) \in Map
<1> DEFINE F == DOMAIN m \cup {Destination}
<1>1. DOMAIN m \in SUBSET Name /\ m \in [DOMAIN m -> Value]
  BY MapType
<1>2. F \in SUBSET Name
  BY <1>1, Zenon DEF Name
<1>3. PutStr(m, Destination, v) \in [F -> Value]
  BY <1>1 DEF PutStr
<1> HIDE DEF F
<1>4. QED
  BY <1>2, <1>3 DEF Map

\* The value that a redaction puts in place of the one it found.
LEMMA MaskRecord ==
  ASSUME IInv, AtRule, UNCHANGED walk, NextRule, paid' = paid,
         NEW t, ruleset[at.rule] \in Acting({"REDACT"}), MatchValue(ruleset[at.rule], t),
         NEW q \in Item,
         Rewrites([record |-> Record, attrs |-> Resource.attrs],
                  [record |-> q, attrs |-> Resource.attrs],
                  ruleset[at.rule].field, t, Mask(ruleset[at.rule], t)),
         Resolve(ruleset[at.rule].field, q, Resource.attrs) = Mask(ruleset[at.rule], t),
         batch' = PutRecord(batch, at.resource, at.scope, at.record, q)
  PROVE  IInv'
<1> DEFINE i0 == at.resource
           j0 == at.scope
           k0 == at.record
           n  == at.rule
           x  == [record |-> Record, attrs |-> Resource.attrs]
           y  == [record |-> q, attrs |-> Resource.attrs]
<1>1. TypeInv /\ batch \in Seq(Envelope)
  BY DEF IInv, TypeInv
<1>2. In(batch, i0, j0, k0) /\ n \in DOMAIN ruleset /\ X(batch, i0, j0, k0) = x
  BY <1>1, AtIs
<1>3. /\ batch' \in Seq(Envelope)
      /\ \A i, j, k : In(batch', i, j, k) <=> In(batch, i, j, k)
      /\ \A i, j, k : In(batch, i, j, k) =>
           X(batch', i, j, k) = IF i = i0 /\ j = j0 /\ k = k0 THEN y ELSE X(batch, i, j, k)
  <2>1. y = [record |-> q, attrs |-> batch[i0].attrs]
    BY DEF Resource
  <2>2. batch' = PutRecord(batch, i0, j0, k0, q)
    OBVIOUS
  <2> HIDE DEF y
  <2>3. QED
    BY <1>1, <1>2, <2>1, <2>2, ReplaceRecord
<1>4. Survives(x, y)
  BY RewriteSurvives
<1>5. Obeyed(n, y, paid')
  <2>1. Masked(n, y)
    BY <1>2, RewriteMasks
  <2>2. ruleset[n].action = "REDACT"
    BY <1>2, ActingAre
  <2>3. Undropped(n, y) /\ ~Due(n, y)
    BY <1>2, <2>2, ActingAre DEF Undropped, Due, Untouched
  <2>4. QED
    BY <2>1, <2>3 DEF Obeyed
<1>6. ASSUME NEW i, NEW j, NEW k, In(batch, i, j, k)
      PROVE  Survives(X(batch, i, j, k), X(batch', i, j, k))
  BY <1>2, <1>3, <1>4, <1>6, SurvivesReflexive
<1>7. Obeyed(n, X(batch', i0, j0, k0), paid')
  BY <1>2, <1>3, <1>5
<1>8. paid \subseteq paid'
  OBVIOUS
<1>9. QED
  BY <1>3, <1>6, <1>7, <1>8, OneRule

LEMMA MaskResource ==
  ASSUME IInv, AtRule, UNCHANGED walk, NextRule, paid' = paid,
         NEW f, ruleset[at.rule].field = f, ruleset[at.rule] \in Acting({"REDACT"}),
         Place(f, Record, Resource.attrs) = "resource",
         NEW v, v = Mask(ruleset[at.rule], Resource.attrs[f]),
         MatchValue(ruleset[at.rule], Resource.attrs[f]),
         batch' = PutAttrs(batch, at.resource, [Resource.attrs EXCEPT ![f] = v])
  PROVE  IInv'
<1> DEFINE i0 == at.resource
           n  == at.rule
           a  == Resource.attrs
           m  == [a EXCEPT ![f] = v]
<1>1. TypeInv /\ batch \in Seq(Envelope)
  BY DEF IInv, TypeInv
<1>2. /\ In(batch, i0, at.scope, at.record) /\ i0 \in DOMAIN batch /\ n \in DOMAIN ruleset
      /\ X(batch, i0, at.scope, at.record) = [record |-> Record, attrs |-> a]
  BY <1>1, AtIs
<1>3. a = batch[i0].attrs /\ a \in Map
  BY <1>1, <1>2, Levels DEF Resource
<1>4. f \in DOMAIN a /\ f \notin Virtual
  BY PlaceIs
<1>5. m \in Map
  <2>1. a[f] \in Value
    BY <1>3, <1>4, MapType
  <2>2. v \in Value
    BY <2>1, MaskType
  <2> HIDE DEF a
  <2>3. QED
    BY <1>3, <1>4, <2>2, MapExcept
<1>6. /\ batch' \in Seq(Envelope)
      /\ \A i, j, k : In(batch', i, j, k) <=> In(batch, i, j, k)
      /\ \A i, j, k : In(batch, i, j, k) =>
           X(batch', i, j, k) = IF i = i0 THEN [record |-> batch[i0].scopes[j][k], attrs |-> m]
                                ELSE X(batch, i, j, k)
  <2>1. batch' = PutAttrs(batch, i0, m)
    OBVIOUS
  <2>2. PICK c \in Map : c = m
    BY <1>5
  <2> HIDE DEF m
  <2>3. /\ PutAttrs(batch, i0, c) \in Seq(Envelope)
        /\ \A i, j, k : In(PutAttrs(batch, i0, c), i, j, k) <=> In(batch, i, j, k)
        /\ \A i, j, k : In(batch, i, j, k) =>
             X(PutAttrs(batch, i0, c), i, j, k)
               = IF i = i0 THEN [record |-> batch[i0].scopes[j][k], attrs |-> c]
                 ELSE X(batch, i, j, k)
    BY ONLY <1>1, <1>2, ReplaceAttrs
  <2>4. QED
    BY ONLY <2>1, <2>2, <2>3
<1>7. \A r : /\ Rewrites([record |-> r, attrs |-> a], [record |-> r, attrs |-> m], f, a[f], v)
             /\ Place(f, r, a) = "resource" => Resolve(f, r, m) = v
  BY <1>3, <1>4, RewriteShared
<1>8. ASSUME NEW r
      PROVE  Survives([record |-> r, attrs |-> a], [record |-> r, attrs |-> m])
  <2>1. Rewrites([record |-> r, attrs |-> a], [record |-> r, attrs |-> m], f, a[f],
                 Mask(ruleset[n], a[f]))
    BY <1>7
  <2>2. QED
    BY <2>1, RewriteSurvives
<1>9. ASSUME NEW i, NEW j, NEW k, In(batch, i, j, k)
      PROVE  Survives(X(batch, i, j, k), X(batch', i, j, k))
  <2> HIDE DEF m, a
  <2>1. CASE i = i0
    <3>1. X(batch, i, j, k) = [record |-> batch[i0].scopes[j][k], attrs |-> a]
      BY <1>3, <2>1 DEF X
    <3>2. X(batch', i, j, k) = [record |-> batch[i0].scopes[j][k], attrs |-> m]
      BY <1>6, <1>9, <2>1
    <3>3. QED
      BY <1>8, <3>1, <3>2
  <2>2. CASE i # i0
    BY <1>6, <1>9, <2>2, SurvivesReflexive
  <2>3. QED
    BY <2>1, <2>2
<1>10. Obeyed(n, X(batch', i0, at.scope, at.record), paid')
  <2> DEFINE y == [record |-> Record, attrs |-> m]
  <2>1. X(batch', i0, at.scope, at.record) = y
    BY <1>2, <1>6 DEF X
  <2>2. Resolve(ruleset[n].field, y.record, y.attrs) = Mask(ruleset[n], a[f])
    BY <1>7
  <2>3. Masked(n, y)
    BY <1>2, <2>2, RewriteMasks
  <2>4. ruleset[n].action = "REDACT"
    BY <1>2, ActingAre
  <2> HIDE DEF y
  <2>5. Undropped(n, y) /\ ~Due(n, y)
    BY <1>2, <2>4, ActingAre DEF Undropped, Due, Untouched
  <2>6. QED
    BY <2>1, <2>3, <2>5 DEF Obeyed
<1>11. paid \subseteq paid'
  OBVIOUS
<1>12. QED
  BY <1>6, <1>9, <1>10, <1>11, OneRule

LEMMA RedactStep ==
  ASSUME IInv, Redact
  PROVE  IInv'
<1> DEFINE i0 == at.resource
           j0 == at.scope
           k0 == at.record
           a  == Resource.attrs
           f  == Rule.field
           t  == Resolve(f, Record, a)
           v  == Mask(Rule, t)
<1>1. AtRule /\ UNCHANGED walk /\ NextRule /\ paid' = paid /\ Hit /\ TypeInv
  BY DEF Redact, Hit, IInv
<1>2. /\ Rule = ruleset[at.rule] /\ at.rule \in DOMAIN ruleset
      /\ Rule \in Acting({"REDACT"})
  BY <1>1, HitIs, ActingAre DEF Redact
<1>3. Place(f, Record, a) # "none" /\ MatchValue(Rule, t)
  BY <1>1 DEF Hit, ConditionMatches
<1>4. Record \in Item /\ a \in Map /\ Record.virtual \in Map /\ Record.attrs \in Map
  <2>1. batch \in Seq(Envelope) /\ In(batch, i0, j0, k0)
    BY <1>1, HitIs DEF TypeInv
  <2>2. batch[i0].scopes[j0][k0] \in Item /\ batch[i0].attrs \in Map
    BY <2>1, InNat
  <2>3. QED
    BY <2>2 DEF Record, Scope, Resource, Item
<1>5. v \in Value
  BY <1>3, <1>4, ResolveType, MaskType
<1>6. CASE Place(f, Record, a) = "virtual"
  <2> DEFINE q == [Record EXCEPT !.virtual[f] = v]
  <2>1. batch' = PutRecord(batch, i0, j0, k0, q)
    BY <1>6 DEF Redact, PutRecord, Resource, Scope, Record
  <2>2. q \in Item
    <3>1. f \in DOMAIN Record.virtual
      BY <1>6, PlaceIs
    <3> HIDE DEF v
    <3>2. [Record.virtual EXCEPT ![f] = v] \in Map
      BY <1>4, <1>5, <3>1, MapExcept
    <3>3. QED
      BY <1>4, <3>2 DEF Item
  <2>3. PICK p \in Item : p = q
    BY <2>2
  <2>4. /\ Rewrites([record |-> Record, attrs |-> a], [record |-> p, attrs |-> a], f, t, v)
        /\ Resolve(f, p, a) = v
    BY <1>4, <1>6, <2>3, RewriteVirtual
  <2>5. batch' = PutRecord(batch, i0, j0, k0, p)
    BY <2>1, <2>3
  <2>6. QED
    BY <1>1, <1>2, <1>3, <2>4, <2>5, MaskRecord
<1>7. CASE Place(f, Record, a) = "record"
  <2> DEFINE q == [Record EXCEPT !.attrs[f] = v]
  <2>1. batch' = PutRecord(batch, i0, j0, k0, q)
    BY <1>7 DEF Redact, PutRecord, Resource, Scope, Record
  <2>2. q \in Item
    <3>1. f \in DOMAIN Record.attrs
      BY <1>7, PlaceIs
    <3> HIDE DEF v
    <3>2. [Record.attrs EXCEPT ![f] = v] \in Map
      BY <1>4, <1>5, <3>1, MapExcept
    <3>3. QED
      BY <1>4, <3>2 DEF Item
  <2>3. PICK p \in Item : p = q
    BY <2>2
  <2>4. /\ Rewrites([record |-> Record, attrs |-> a], [record |-> p, attrs |-> a], f, t, v)
        /\ Resolve(f, p, a) = v
    <3>1. Record \in Item /\ p = [Record EXCEPT !.attrs[f] = v]
      BY <1>4, <2>3
    <3> HIDE DEF v, a
    <3>2. QED
      BY ONLY <3>1, <1>7, RewriteOwn
  <2>5. batch' = PutRecord(batch, i0, j0, k0, p)
    BY <2>1, <2>3
  <2>6. QED
    BY <1>1, <1>2, <1>3, <2>4, <2>5, MaskRecord
<1>8. CASE Place(f, Record, a) = "resource"
  <2>1. batch' = PutAttrs(batch, i0, [a EXCEPT ![f] = v])
    BY <1>8 DEF Redact, PutAttrs, Resource
  <2>2. t = a[f]
    BY <1>8, ResolveIs
  <2>3. QED
    BY <1>1, <1>2, <1>3, <1>8, <2>1, <2>2, MaskResource
<1>9. QED
  BY <1>3, <1>6, <1>7, <1>8, PlaceIs

LEMMA RouteStep ==
  ASSUME IInv, Route
  PROVE  IInv'
<1> DEFINE i0 == at.resource
           n  == at.rule
           a  == Resource.attrs
           m  == PutStr(a, Destination, Rule.destination)
<1>1. AtRule /\ UNCHANGED walk /\ NextRule /\ paid' = paid /\ Hit /\ TypeInv
  BY DEF Route, Hit, IInv
<1>2. /\ Rule = ruleset[n] /\ n \in DOMAIN ruleset /\ ruleset[n].action = "ROUTE"
      /\ Acting({"ROUTE"}) # {}
  BY <1>1, HitIs, ActingAre DEF Route
<1>3. /\ In(batch, i0, at.scope, at.record) /\ i0 \in DOMAIN batch /\ batch \in Seq(Envelope)
      /\ a = batch[i0].attrs /\ a \in Map
  <2>1. batch \in Seq(Envelope) /\ In(batch, i0, at.scope, at.record)
    BY <1>1, HitIs DEF TypeInv
  <2>2. QED
    BY <2>1, InNat DEF In, Resource
<1>4. m \in Map
  <2>1. Rule.destination \in Text
    BY <1>1, <1>2, RuleTexts
  <2>2. QED
    BY <1>3, <2>1, TextType, MapPutStr
<1>5. PICK c \in Map : c = m
  BY <1>4
<1>6. batch' = PutAttrs(batch, i0, c)
  BY <1>5 DEF Route, PutAttrs, Resource
<1>7. /\ PutAttrs(batch, i0, c) \in Seq(Envelope)
      /\ \A i, j, k : In(PutAttrs(batch, i0, c), i, j, k) <=> In(batch, i, j, k)
      /\ \A i, j, k : In(batch, i, j, k) =>
           X(PutAttrs(batch, i0, c), i, j, k)
             = IF i = i0 THEN [record |-> batch[i0].scopes[j][k], attrs |-> c]
               ELSE X(batch, i, j, k)
  BY ONLY <1>3, ReplaceAttrs
<1>8. /\ batch' \in Seq(Envelope)
      /\ \A i, j, k : In(batch', i, j, k) <=> In(batch, i, j, k)
      /\ \A i, j, k : In(batch, i, j, k) =>
           X(batch', i, j, k) = IF i = i0 THEN [record |-> batch[i0].scopes[j][k], attrs |-> c]
                                ELSE X(batch, i, j, k)
  BY ONLY <1>6, <1>7
<1>9. ASSUME NEW i, NEW j, NEW k, In(batch, i, j, k)
      PROVE  Survives(X(batch, i, j, k), X(batch', i, j, k))
  <2>1. \A r : Survives([record |-> r, attrs |-> a], [record |-> r, attrs |-> c])
    BY <1>2, <1>5, StampSurvives
  <2> HIDE DEF m, a
  <2>2. CASE i = i0
    <3>1. X(batch, i, j, k) = [record |-> batch[i0].scopes[j][k], attrs |-> a]
      BY <1>3, <2>2 DEF X
    <3>2. X(batch', i, j, k) = [record |-> batch[i0].scopes[j][k], attrs |-> c]
      BY <1>8, <1>9, <2>2
    <3>3. QED
      BY <2>1, <3>1, <3>2
  <2>3. CASE i # i0
    BY <1>8, <1>9, <2>3, SurvivesReflexive
  <2>4. QED
    BY <2>2, <2>3
<1>10. Obeyed(n, X(batch', i0, at.scope, at.record), paid')
  BY <1>2, Spared
<1>11. paid \subseteq paid'
  BY <1>1
<1>12. QED
  BY <1>1, <1>8, <1>9, <1>10, <1>11, OneRule

-----------------------------------------------------------------------------
(* The steps that remove. *)

\* What is left when a record, a scope or a resource is taken out.
PutScopes(b, i, ss) == [b EXCEPT ![i] = [b[i] EXCEPT !.scopes = ss]]
OutRecord(b, i, j, k) ==
  PutScopes(b, i, [b[i].scopes EXCEPT ![j] = RemoveAt(b[i].scopes[j], k)])
OutScope(b, i, j) == PutScopes(b, i, RemoveAt(b[i].scopes, j))

LEMMA SwapScopes ==
  ASSUME NEW b \in Seq(Envelope), NEW i0 \in DOMAIN b, NEW ss \in Seq(Seq(Item))
  PROVE  /\ PutScopes(b, i0, ss) \in Seq(Envelope)
         /\ DOMAIN PutScopes(b, i0, ss) = DOMAIN b
         /\ PutScopes(b, i0, ss)[i0].scopes = ss
         /\ \A i, j, k : In(PutScopes(b, i0, ss), i, j, k) <=>
              IF i = i0 THEN j \in DOMAIN ss /\ k \in DOMAIN ss[j] ELSE In(b, i, j, k)
         /\ \A i, j, k : In(PutScopes(b, i0, ss), i, j, k) =>
              X(PutScopes(b, i0, ss), i, j, k)
                = IF i = i0 THEN [record |-> ss[j][k], attrs |-> b[i0].attrs] ELSE X(b, i, j, k)
<1> DEFINE c == PutScopes(b, i0, ss)
<1>1. b[i0] \in Envelope /\ i0 \in 1..Len(b) /\ DOMAIN b = 1..Len(b)
  BY Levels
<1>2. PICK env \in Envelope :
        /\ env = [b[i0] EXCEPT !.scopes = ss] /\ env.scopes = ss /\ env.attrs = b[i0].attrs
  <2>1. b[i0] \in Envelope /\ ss \in Seq(Seq(Item))
    BY <1>1
  <2>2. /\ [b[i0] EXCEPT !.scopes = ss] \in Envelope
        /\ [b[i0] EXCEPT !.scopes = ss].scopes = ss
        /\ [b[i0] EXCEPT !.scopes = ss].attrs = b[i0].attrs
    BY ONLY <2>1 DEF Envelope
  <2>3. QED
    BY ONLY <2>2
<1>3. [b EXCEPT ![i0] = env] \in Seq(Envelope)
  BY ONLY <1>1, ExceptSeq
<1>4. c = [b EXCEPT ![i0] = env]
  BY <1>2 DEF PutScopes
<1>5. DOMAIN c = DOMAIN b /\ \A i \in DOMAIN b : c[i] = IF i = i0 THEN env ELSE b[i]
  BY <1>4
<1>6. c \in Seq(Envelope)
  BY <1>3, <1>4
<1> HIDE DEF c
<1>7. /\ c \in Seq(Envelope) /\ DOMAIN c = DOMAIN b /\ c[i0].scopes = ss
      /\ \A i, j, k : In(c, i, j, k) <=>
           IF i = i0 THEN j \in DOMAIN ss /\ k \in DOMAIN ss[j] ELSE In(b, i, j, k)
      /\ \A i, j, k : In(c, i, j, k) =>
           X(c, i, j, k) = IF i = i0 THEN [record |-> ss[j][k], attrs |-> b[i0].attrs]
                           ELSE X(b, i, j, k)
  BY ONLY <1>1, <1>2, <1>5, <1>6 DEF In, X
<1>8. QED
  BY <1>7 DEF c

LEMMA OutRecordIs ==
  ASSUME NEW b \in Seq(Envelope), NEW i0, NEW j0, NEW k0, In(b, i0, j0, k0)
  PROVE  /\ OutRecord(b, i0, j0, k0) \in Seq(Envelope)
         /\ \A i, j, k : In(OutRecord(b, i0, j0, k0), i, j, k) <=>
              IF i = i0 /\ j = j0 THEN k \in 1..(Len(b[i0].scopes[j0]) - 1) ELSE In(b, i, j, k)
         /\ \A i, j, k : In(OutRecord(b, i0, j0, k0), i, j, k) =>
              X(OutRecord(b, i0, j0, k0), i, j, k)
                = X(b, i, j, IF i = i0 /\ j = j0 /\ k >= k0 THEN k + 1 ELSE k)
         /\ i0 \in DOMAIN OutRecord(b, i0, j0, k0)
         /\ j0 \in DOMAIN OutRecord(b, i0, j0, k0)[i0].scopes
<1> DEFINE c  == OutRecord(b, i0, j0, k0)
           ss == b[i0].scopes
           s  == ss[j0]
           n  == Len(s)
           r  == RemoveAt(s, k0)
<1>0. b \in Seq(Envelope)
  OBVIOUS
<1>1. i0 \in DOMAIN b /\ j0 \in DOMAIN ss /\ k0 \in DOMAIN s
  BY DEF In
<1>2. ss \in Seq(Seq(Item)) /\ s \in Seq(Item) /\ n \in Nat /\ DOMAIN s = 1..n
  BY <1>1, Levels
<1>3. /\ r \in Seq(Item)
      /\ \A k : k \in DOMAIN r <=> k \in 1..(n - 1)
      /\ \A k \in 1..(n - 1) : r[k] = IF k < k0 THEN s[k] ELSE s[k + 1]
  <2> HIDE DEF s
  <2>1. QED
    BY ONLY <1>1, <1>2, RemoveAtType
<1> HIDE DEF r
<1>4. [ss EXCEPT ![j0] = r] \in Seq(Seq(Item))
  BY ONLY <1>1, <1>2, <1>3, ReplaceInner
<1>5. PICK tt \in Seq(Seq(Item)) : tt = [ss EXCEPT ![j0] = r]
  BY <1>4
<1>6. DOMAIN tt = DOMAIN ss /\ tt[j0] = r /\ \A j \in DOMAIN ss \ {j0} : tt[j] = ss[j]
  BY <1>1, <1>5
<1>7. c = PutScopes(b, i0, tt)
  BY <1>5 DEF OutRecord, r
<1> HIDE DEF c
<1>8. /\ c \in Seq(Envelope) /\ DOMAIN c = DOMAIN b /\ c[i0].scopes = tt
      /\ \A i, j, k : In(c, i, j, k) <=>
           IF i = i0 THEN j \in DOMAIN tt /\ k \in DOMAIN tt[j] ELSE In(b, i, j, k)
      /\ \A i, j, k : In(c, i, j, k) =>
           X(c, i, j, k) = IF i = i0 THEN [record |-> tt[j][k], attrs |-> b[i0].attrs]
                           ELSE X(b, i, j, k)
  BY ONLY <1>0, <1>1, <1>7, SwapScopes
<1>9. ASSUME NEW i, NEW j, NEW k
      PROVE  In(c, i, j, k) <=> IF i = i0 /\ j = j0 THEN k \in 1..(n - 1) ELSE In(b, i, j, k)
  <2>1. CASE i = i0 /\ j = j0
    BY ONLY <1>1, <1>3, <1>6, <1>8, <2>1
  <2>2. CASE i = i0 /\ j # j0
    BY ONLY <1>1, <1>6, <1>8, <2>2 DEF In
  <2>3. CASE i # i0
    BY ONLY <1>8, <2>3
  <2>4. QED
    BY <2>1, <2>2, <2>3
<1>10. ASSUME NEW i, NEW j, NEW k, In(c, i, j, k)
       PROVE  X(c, i, j, k) = X(b, i, j, IF i = i0 /\ j = j0 /\ k >= k0 THEN k + 1 ELSE k)
  <2>1. CASE i = i0 /\ j = j0
    <3>1. k \in 1..(n - 1) /\ k0 \in 1..n
      BY <1>1, <1>2, <1>9, <1>10, <2>1
    <3>2. tt[j][k] = s[IF k >= k0 THEN k + 1 ELSE k]
      <4>1. tt[j][k] = IF k < k0 THEN s[k] ELSE s[k + 1]
        BY ONLY <1>3, <1>6, <2>1, <3>1
      <4>2. (k < k0) <=> ~(k >= k0)
        BY ONLY <1>2, <3>1
      <4>3. QED
        BY ONLY <4>1, <4>2
    <3>3. X(c, i, j, k) = [record |-> tt[j][k], attrs |-> b[i0].attrs]
      BY ONLY <1>8, <1>10, <2>1
    <3>4. QED
      BY ONLY <2>1, <3>2, <3>3 DEF X
  <2>2. CASE i = i0 /\ j # j0
    <3>1. j \in DOMAIN ss
      BY ONLY <1>6, <1>8, <1>10, <2>2
    <3>2. tt[j] = ss[j]
      BY ONLY <1>6, <2>2, <3>1
    <3>3. X(c, i, j, k) = [record |-> tt[j][k], attrs |-> b[i0].attrs]
      BY ONLY <1>8, <1>10, <2>2
    <3>4. QED
      BY ONLY <2>2, <3>2, <3>3 DEF X
  <2>3. CASE i # i0
    BY ONLY <1>8, <1>10, <2>3
  <2>4. QED
    BY <2>1, <2>2, <2>3
<1>11. i0 \in DOMAIN c /\ j0 \in DOMAIN c[i0].scopes
  BY <1>1, <1>6, <1>8
<1>12. QED
  BY <1>8, <1>9, <1>10, <1>11 DEF c

LEMMA OutScopeIs ==
  ASSUME NEW b \in Seq(Envelope), NEW i0 \in DOMAIN b, NEW j0 \in DOMAIN b[i0].scopes
  PROVE  /\ OutScope(b, i0, j0) \in Seq(Envelope)
         /\ \A i, j, k : In(OutScope(b, i0, j0), i, j, k) <=>
              IF i = i0
              THEN /\ j \in 1..(Len(b[i0].scopes) - 1)
                   /\ In(b, i0, IF j >= j0 THEN j + 1 ELSE j, k)
              ELSE In(b, i, j, k)
         /\ \A i, j, k : In(OutScope(b, i0, j0), i, j, k) =>
              X(OutScope(b, i0, j0), i, j, k)
                = X(b, i, IF i = i0 /\ j >= j0 THEN j + 1 ELSE j, k)
         /\ i0 \in DOMAIN OutScope(b, i0, j0)
<1> DEFINE c  == OutScope(b, i0, j0)
           ss == b[i0].scopes
           n  == Len(ss)
           rr == RemoveAt(ss, j0)
<1>1. b \in Seq(Envelope) /\ i0 \in DOMAIN b /\ j0 \in DOMAIN ss
  OBVIOUS
<1>2. ss \in Seq(Seq(Item)) /\ n \in Nat /\ DOMAIN ss = 1..n
  BY <1>1, Levels
<1>3. /\ rr \in Seq(Seq(Item))
      /\ \A j : j \in DOMAIN rr <=> j \in 1..(n - 1)
      /\ \A j \in 1..(n - 1) : rr[j] = IF j < j0 THEN ss[j] ELSE ss[j + 1]
  <2> DEFINE S == Seq(Item)
  <2>1. ss \in Seq(S)
    BY <1>2
  <2> HIDE DEF ss, S
  <2>2. /\ rr \in Seq(S)
        /\ \A j : j \in DOMAIN rr <=> j \in 1..(n - 1)
        /\ \A j \in 1..(n - 1) : rr[j] = IF j < j0 THEN ss[j] ELSE ss[j + 1]
    BY ONLY <1>1, <2>1, RemoveAtType
  <2>3. QED
    BY ONLY <2>2 DEF S
<1> HIDE DEF rr
<1>4. PICK tt \in Seq(Seq(Item)) : tt = rr
  BY <1>3
<1>5. c = PutScopes(b, i0, tt)
  BY <1>4 DEF OutScope, rr
<1> HIDE DEF c
<1>6. /\ c \in Seq(Envelope) /\ DOMAIN c = DOMAIN b /\ c[i0].scopes = tt
      /\ \A i, j, k : In(c, i, j, k) <=>
           IF i = i0 THEN j \in DOMAIN tt /\ k \in DOMAIN tt[j] ELSE In(b, i, j, k)
      /\ \A i, j, k : In(c, i, j, k) =>
           X(c, i, j, k) = IF i = i0 THEN [record |-> tt[j][k], attrs |-> b[i0].attrs]
                           ELSE X(b, i, j, k)
  BY ONLY <1>1, <1>5, SwapScopes
<1>7. ASSUME NEW j \in 1..(n - 1)
      PROVE  LET l == IF j >= j0 THEN j + 1 ELSE j IN l \in DOMAIN ss /\ tt[j] = ss[l]
  <2>1. j0 \in 1..n
    BY <1>1, <1>2
  <2>2. (j < j0) <=> ~(j >= j0)
    <3>1. n \in Nat
      BY <1>2
    <3> HIDE DEF n
    <3>2. QED
      BY ONLY <1>7, <2>1, <3>1
  <2>3. tt[j] = IF j < j0 THEN ss[j] ELSE ss[j + 1]
    BY ONLY <1>3, <1>4, <1>7
  <2>4. j \in 1..n /\ j + 1 \in 1..n
    BY ONLY <1>2, <1>7
  <2>5. QED
    BY ONLY <1>2, <2>2, <2>3, <2>4
<1>8. ASSUME NEW i, NEW j, NEW k
      PROVE  In(c, i, j, k) <=>
               IF i = i0 THEN j \in 1..(n - 1) /\ In(b, i0, IF j >= j0 THEN j + 1 ELSE j, k)
               ELSE In(b, i, j, k)
  <2> DEFINE l == IF j >= j0 THEN j + 1 ELSE j
  <2>1. CASE i = i0 /\ j \in 1..(n - 1)
    <3>1. l \in DOMAIN ss /\ tt[j] = ss[l]
      BY <1>7, <2>1
    <3>2. j \in DOMAIN tt
      BY <1>3, <1>4, <2>1
    <3> HIDE DEF l
    <3>3. In(c, i, j, k) <=> k \in DOMAIN ss[l]
      BY ONLY <1>6, <2>1, <3>1, <3>2
    <3>4. In(b, i0, l, k) <=> k \in DOMAIN ss[l]
      BY ONLY <1>1, <3>1 DEF In
    <3>5. QED
      BY ONLY <2>1, <3>3, <3>4 DEF l
  <2>2. CASE i = i0 /\ j \notin 1..(n - 1)
    BY <1>3, <1>4, <1>6, <2>2
  <2>3. CASE i # i0
    BY <1>6, <2>3
  <2>4. QED
    BY <2>1, <2>2, <2>3
<1>9. ASSUME NEW i, NEW j, NEW k, In(c, i, j, k)
      PROVE  X(c, i, j, k) = X(b, i, IF i = i0 /\ j >= j0 THEN j + 1 ELSE j, k)
  <2>1. CASE i = i0
    <3>1. j \in 1..(n - 1)
      BY <1>8, <1>9, <2>1
    <3> DEFINE l == IF j >= j0 THEN j + 1 ELSE j
    <3>2. tt[j] = ss[l]
      BY <1>7, <3>1
    <3>3. X(c, i, j, k) = [record |-> tt[j][k], attrs |-> b[i0].attrs]
      BY ONLY <1>6, <1>9, <2>1
    <3>4. X(b, i0, l, k) = [record |-> ss[l][k], attrs |-> b[i0].attrs]
      BY DEF X
    <3>5. QED
      BY ONLY <2>1, <3>2, <3>3, <3>4
  <2>2. CASE i # i0
    BY <1>6, <1>9, <2>2
  <2>3. QED
    BY <2>1, <2>2
<1>10. i0 \in DOMAIN c
  BY <1>6
<1>11. QED
  BY <1>6, <1>8, <1>9, <1>10 DEF c

LEMMA OutResourceIs ==
  ASSUME NEW b \in Seq(Envelope), NEW i0 \in DOMAIN b
  PROVE  /\ RemoveAt(b, i0) \in Seq(Envelope)
         /\ \A i, j, k : In(RemoveAt(b, i0), i, j, k) <=>
              i \in 1..(Len(b) - 1) /\ In(b, IF i >= i0 THEN i + 1 ELSE i, j, k)
         /\ \A i, j, k : In(RemoveAt(b, i0), i, j, k) =>
              X(RemoveAt(b, i0), i, j, k) = X(b, IF i >= i0 THEN i + 1 ELSE i, j, k)
<1> DEFINE c == RemoveAt(b, i0)
           n == Len(b)
<1>1. n \in Nat /\ DOMAIN b = 1..n /\ i0 \in 1..n
  BY Levels
<1>2. /\ c \in Seq(Envelope)
      /\ \A i : i \in DOMAIN c <=> i \in 1..(n - 1)
      /\ \A i \in 1..(n - 1) : c[i] = IF i < i0 THEN b[i] ELSE b[i + 1]
  BY RemoveAtType
<1> HIDE DEF c
<1>3. ASSUME NEW i \in 1..(n - 1)
      PROVE  LET l == IF i >= i0 THEN i + 1 ELSE i IN l \in DOMAIN b /\ c[i] = b[l]
  <2>1. (i < i0) <=> ~(i >= i0)
    BY ONLY <1>1, <1>3
  <2>2. i \in 1..n /\ i + 1 \in 1..n
    BY ONLY <1>1, <1>3
  <2>3. QED
    BY ONLY <1>1, <1>2, <1>3, <2>1, <2>2
<1>4. ASSUME NEW i, NEW j, NEW k
      PROVE  In(c, i, j, k) <=>
               i \in 1..(n - 1) /\ In(b, IF i >= i0 THEN i + 1 ELSE i, j, k)
  BY <1>2, <1>3 DEF In
<1>5. ASSUME NEW i, NEW j, NEW k, In(c, i, j, k)
      PROVE  X(c, i, j, k) = X(b, IF i >= i0 THEN i + 1 ELSE i, j, k)
  <2>1. i \in 1..(n - 1)
    BY <1>4, <1>5
  <2>2. QED
    BY <1>3, <2>1 DEF X
<1>6. QED
  BY <1>2, <1>4, <1>5 DEF c

LEMMA RemoveStep ==
  ASSUME IInv, Hit, Rule.action \in {"DROP", "SAMPLE", "THROTTLE"}, RemoveRecord,
         UNCHANGED walk, paid' = paid
  PROVE  IInv'
<1> DEFINE i0 == at.resource
           j0 == at.scope
           k0 == at.record
           N  == Len(batch[i0].scopes[j0])
           o(i, j, k) == IF i = i0 /\ j = j0 /\ k >= k0 THEN k + 1 ELSE k
           From == [p \in Positions(batch') |-> <<p[1], p[2], o(p[1], p[2], p[3])>>]
<1>1. /\ batch \in Seq(Envelope) /\ In(batch, i0, j0, k0) /\ phase = "apply" /\ TypeInv
      /\ i0 \in Nat \ {0} /\ j0 \in Nat \ {0} /\ k0 \in 1..N /\ N \in Nat
      /\ DOMAIN batch[i0].scopes[j0] = 1..N
  <2>1. TypeInv /\ AtRule /\ batch \in Seq(Envelope)
    BY DEF IInv, TypeInv, Hit
  <2>2. In(batch, i0, j0, k0) /\ phase = "apply" /\ i0 \in Nat \ {0} /\ j0 \in Nat \ {0}
    BY <2>1, HitIs, AtIs
  <2>3. N \in Nat /\ DOMAIN batch[i0].scopes[j0] = 1..N
    BY <2>1, <2>2, Levels DEF In
  <2>4. QED
    BY <2>1, <2>2, <2>3 DEF In
<1>2. batch' = OutRecord(batch, i0, j0, k0)
  BY DEF RemoveRecord, OutRecord, PutScopes
<1>3. /\ batch' \in Seq(Envelope)
      /\ \A i, j, k : In(batch', i, j, k) <=>
           IF i = i0 /\ j = j0 THEN k \in 1..(N - 1) ELSE In(batch, i, j, k)
      /\ \A i, j, k : In(batch', i, j, k) => X(batch', i, j, k) = X(batch, i, j, o(i, j, k))
      /\ i0 \in DOMAIN batch' /\ j0 \in DOMAIN batch'[i0].scopes
  BY ONLY <1>1, <1>2, OutRecordIs
<1>4. /\ at' \in [{"resource", "scope", "record", "rule"} -> Nat \ {0}]
      /\ at'.resource = i0 /\ at'.scope = j0 /\ at'.record = k0 /\ at'.rule = 1
  <2>1. /\ at \in [{"resource", "scope", "record", "rule"} -> Nat \ {0}]
        /\ at' = [at EXCEPT !.rule = 1] /\ 1 \in Nat \ {0}
    BY <1>1 DEF RemoveRecord, TypeInv
  <2>2. at' \in [{"resource", "scope", "record", "rule"} -> Nat \ {0}]
    BY ONLY <2>1, Zenon
  <2>3. QED
    BY ONLY <2>1, <2>2
<1>5. ASSUME NEW i, NEW j, NEW k, In(batch', i, j, k)
      PROVE  /\ k \in Nat /\ In(batch, i, j, o(i, j, k))
             /\ \A n \in DOMAIN ruleset :
                  Passed(i, j, k, n)' => Passed(i, j, o(i, j, k), n)
  <2>1. k \in Nat /\ i \in Nat /\ j \in Nat
    BY ONLY <1>3, <1>5, InNat
  <2>2. CASE i = i0 /\ j = j0
    <3>1. k \in 1..(N - 1) /\ k0 \in 1..N
      BY ONLY <1>1, <1>3, <1>5, <2>2
    <3>2. o(i, j, k) \in 1..N
      BY ONLY <1>1, <2>2, <3>1
    <3>3. In(batch, i, j, o(i, j, k))
      BY ONLY <1>1, <2>2, <3>2 DEF In
    <3>4. \A n \in DOMAIN ruleset : Passed(i, j, k, n)' => Passed(i, j, o(i, j, k), n)
      <4>1. ASSUME NEW n \in DOMAIN ruleset, Passed(i, j, k, n)'
            PROVE  k < k0
        <5>1. n \in Nat \ {0}
          BY <1>1, RuleType
        <5>2. phase' = "apply"
          BY <1>1 DEF walk
        <5>3. QED
          BY ONLY <1>1, <1>4, <2>2, <3>1, <4>1, <5>1, <5>2 DEF Passed
      <4>2. k < k0 => o(i, j, k) = k
        BY ONLY <1>1, <3>1
      <4>3. k < k0 => \A n : Passed(i, j, k, n)
        BY ONLY <2>2 DEF Passed
      <4>4. QED
        BY ONLY <4>1, <4>2, <4>3
    <3>5. QED
      BY <2>1, <3>3, <3>4
  <2>3. CASE ~(i = i0 /\ j = j0)
    <3>1. In(batch, i, j, k) /\ o(i, j, k) = k
      BY ONLY <1>3, <1>5, <2>3
    <3>2. \A n \in DOMAIN ruleset : Passed(i, j, k, n)' => Passed(i, j, k, n)
      <4>1. phase' = "apply"
        BY <1>1 DEF walk
      <4>2. QED
        BY ONLY <1>1, <1>4, <2>3, <4>1 DEF Passed
    <3>3. QED
      BY <2>1, <3>1, <3>2
  <2>4. QED
    BY <2>2, <2>3
<1>6. From \in Injection(Positions(batch'), Positions(batch))
  <2>1. ASSUME NEW p \in Positions(batch')
        PROVE  From[p] \in Positions(batch)
    <3>1. PICK i, j, k : In(batch', i, j, k) /\ p = <<i, j, k>>
      BY PositionsAre
    <3>2. From[p] = <<i, j, o(i, j, k)>>
      BY ONLY <2>1, <3>1
    <3>3. In(batch, i, j, o(i, j, k))
      BY <1>5, <3>1
    <3> HIDE DEF From, o
    <3>4. QED
      BY <3>2, <3>3, PositionsAre
  <2>2. ASSUME NEW p \in Positions(batch'), NEW q \in Positions(batch'), From[p] = From[q]
        PROVE  p = q
    <3>1. PICK i, j, k : In(batch', i, j, k) /\ p = <<i, j, k>>
      BY PositionsAre
    <3>2. PICK l, m, r : In(batch', l, m, r) /\ q = <<l, m, r>>
      BY PositionsAre
    <3>3. <<i, j, o(i, j, k)>> = <<l, m, o(l, m, r)>>
      BY ONLY <2>2, <3>1, <3>2
    <3>4. i = l /\ j = m /\ o(i, j, k) = o(l, m, r)
      BY ONLY <3>3
    <3>5. k \in Nat /\ r \in Nat
      BY <1>5, <3>1, <3>2
    <3>6. k = r
      BY ONLY <1>1, <3>4, <3>5
    <3>7. QED
      BY ONLY <3>1, <3>2, <3>4, <3>6
  <2>3. From = [p \in Positions(batch') |-> From[p]]
    OBVIOUS
  <2> HIDE DEF From
  <2>4. QED
    BY ONLY <2>1, <2>2, <2>3 DEF Injection, IsInjective
<1>7. ASSUME NEW p \in Positions(batch')
      PROVE  /\ RecordAt(batch', p) = RecordAt(batch, From[p])
             /\ \A n \in DOMAIN ruleset :
                  Passed(p[1], p[2], p[3], n)' => Passed(From[p][1], From[p][2], From[p][3], n)
  <2>1. PICK i, j, k : In(batch', i, j, k) /\ p = <<i, j, k>>
    BY PositionsAre
  <2>2. From[p] = <<i, j, o(i, j, k)>>
    BY ONLY <1>7, <2>1
  <2>3. X(batch', i, j, k) = X(batch, i, j, o(i, j, k))
    BY ONLY <1>3, <2>1
  <2>4. \A n \in DOMAIN ruleset : Passed(i, j, k, n)' => Passed(i, j, o(i, j, k), n)
    BY <1>5, <2>1
  <2> HIDE DEF From, o
  <2>5. RecordAt(batch', p) = X(batch', i, j, k) /\ RecordAt(batch, From[p]) = X(batch, i, j, o(i, j, k))
    BY ONLY <2>1, <2>2 DEF RecordAt, X
  <2>6. QED
    BY ONLY <2>1, <2>2, <2>3, <2>4, <2>5
<1>8. ASSUME NEW q \in Positions(batch)
      PROVE  \/ \E p \in Positions(batch') : From[p] = q
             \/ \E rule \in Acting({"DROP", "SAMPLE", "THROTTLE"}) : Matches(rule, RecordAt(batch, q))
  <2>1. PICK i, j, r : In(batch, i, j, r) /\ q = <<i, j, r>>
    BY PositionsAre
  <2>2. r \in Nat
    BY ONLY <1>1, <2>1, InNat
  <2>3. CASE i = i0 /\ j = j0 /\ r = k0
    <3>1. AtRule
      BY DEF Hit
    <3>2. Rule = ruleset[at.rule] /\ at.rule \in DOMAIN ruleset /\ Applies(ruleset[at.rule])
          /\ Matches(ruleset[at.rule], X(batch, i0, j0, k0))
      BY <1>1, <3>1, HitIs
    <3>3. RecordAt(batch, q) = X(batch, i0, j0, k0)
      BY <2>1, <2>3 DEF RecordAt, X
    <3>4. ruleset[at.rule] \in Acting({"DROP", "SAMPLE", "THROTTLE"})
      BY <3>2, ActingAre
    <3>5. QED
      BY <3>2, <3>3, <3>4
  <2>4. CASE ~(i = i0 /\ j = j0 /\ r = k0)
    <3> DEFINE k == IF i = i0 /\ j = j0 /\ r > k0 THEN r - 1 ELSE r
    <3>1. i = i0 /\ j = j0 => r \in 1..N
      BY <1>1, <2>1 DEF In
    <3>2. In(batch', i, j, k) /\ o(i, j, k) = r
      <4>1. CASE i = i0 /\ j = j0
        <5>1. r \in 1..N /\ r # k0 /\ k0 \in 1..N /\ N \in Nat
          BY <1>1, <2>4, <3>1, <4>1
        <5>2. k \in 1..(N - 1) /\ o(i, j, k) = r
          BY ONLY <4>1, <5>1
        <5>3. QED
          BY ONLY <1>3, <4>1, <5>2
      <4>2. CASE ~(i = i0 /\ j = j0)
        <5>1. k = r /\ o(i, j, r) = r
          BY ONLY <4>2
        <5>2. QED
          BY ONLY <1>3, <2>1, <4>2, <5>1
      <4>3. QED
        BY <4>1, <4>2
    <3>3. <<i, j, k>> \in Positions(batch')
      BY <3>2, PositionsAre
    <3>4. From[<<i, j, k>>] = <<i, j, o(i, j, k)>>
      BY ONLY <3>3
    <3>5. QED
      BY <2>1, <3>2, <3>3, <3>4
  <2>5. QED
    BY <2>3, <2>4
<1>9. CursorInv'
  <2>1. phase' = "apply"
    BY <1>1 DEF walk
  <2>2. AtResource' /\ AtScope'
    BY <1>3, <1>4, <2>1 DEF AtResource, AtScope, Resource
  <2>3. QED
    BY <1>4, <2>2 DEF CursorInv
<1> HIDE DEF From
<1>10. QED
  BY <1>1, <1>3, <1>4, <1>6, <1>7, <1>8, <1>9, Removes

-----------------------------------------------------------------------------
(* The steps that move on. *)

\* Where a cursor that points at nothing is.
LEMMA Beyond ==
  ASSUME IInv, phase = "apply"
  PROVE  /\ TypeInv /\ batch \in Seq(Envelope)
         /\ at \in [{"resource", "scope", "record", "rule"} -> Nat \ {0}]
         /\ at.resource \in Nat \ {0} /\ at.scope \in Nat \ {0}
         /\ at.record \in Nat \ {0} /\ at.rule \in Nat \ {0}
         /\ ~AtResource => at.scope = 1 /\ \A i, j, k : In(batch, i, j, k) => i < at.resource
         /\ ~AtScope => at.record = 1
         /\ AtResource /\ ~AtScope =>
              \A j, k : In(batch, at.resource, j, k) => j < at.scope
         /\ ~AtRecord => at.rule = 1
         /\ AtScope /\ ~AtRecord =>
              \A k : In(batch, at.resource, at.scope, k) => k < at.record
         /\ AtRecord /\ ~AtRule => \A n \in DOMAIN ruleset : n < at.rule
         /\ \A i, j, k : In(batch, i, j, k) => i \in Nat /\ j \in Nat \ {0} /\ k \in Nat \ {0}
         /\ \A n \in DOMAIN ruleset : n \in Nat \ {0}
<1>1. /\ TypeInv /\ CursorInv /\ batch \in Seq(Envelope)
      /\ at \in [{"resource", "scope", "record", "rule"} -> Nat \ {0}]
  BY DEF IInv, TypeInv
<1>2. /\ at.resource \in Nat \ {0} /\ at.scope \in Nat \ {0}
      /\ at.record \in Nat \ {0} /\ at.rule \in Nat \ {0}
  BY <1>1, AtIs
<1>3. /\ ~AtResource => at.scope = 1
      /\ ~AtScope => at.record = 1
      /\ ~AtRecord => at.rule = 1
  BY <1>1 DEF CursorInv
<1>4. ASSUME NEW i, NEW j, NEW k, In(batch, i, j, k)
      PROVE  /\ i \in Nat /\ j \in Nat /\ k \in Nat
             /\ i \in 1..Len(batch) /\ Len(batch) \in Nat /\ DOMAIN batch = 1..Len(batch)
             /\ j \in 1..Len(batch[i].scopes) /\ Len(batch[i].scopes) \in Nat
             /\ DOMAIN batch[i].scopes = 1..Len(batch[i].scopes)
             /\ k \in 1..Len(batch[i].scopes[j]) /\ Len(batch[i].scopes[j]) \in Nat
             /\ DOMAIN batch[i].scopes[j] = 1..Len(batch[i].scopes[j])
  <2>1. i \in Nat /\ j \in Nat /\ k \in Nat
    BY <1>1, <1>4, InNat
  <2>2. i \in DOMAIN batch /\ j \in DOMAIN batch[i].scopes /\ k \in DOMAIN batch[i].scopes[j]
    BY <1>4 DEF In
  <2>3. /\ Len(batch) \in Nat /\ DOMAIN batch = 1..Len(batch)
        /\ Len(batch[i].scopes) \in Nat /\ DOMAIN batch[i].scopes = 1..Len(batch[i].scopes)
        /\ Len(batch[i].scopes[j]) \in Nat
        /\ DOMAIN batch[i].scopes[j] = 1..Len(batch[i].scopes[j])
    BY <1>1, <2>2, Levels
  <2>4. QED
    BY ONLY <2>1, <2>2, <2>3
<1>5. ASSUME ~AtResource, NEW i, NEW j, NEW k, In(batch, i, j, k)
      PROVE  i < at.resource
  <2>1. at.resource \notin DOMAIN batch
    BY <1>5 DEF AtResource
  <2>2. i \in 1..Len(batch) /\ Len(batch) \in Nat /\ DOMAIN batch = 1..Len(batch)
    BY <1>4, <1>5
  <2>3. QED
    BY ONLY <1>2, <2>1, <2>2
<1>6. ASSUME AtResource, ~AtScope, NEW j, NEW k, In(batch, at.resource, j, k)
      PROVE  j < at.scope
  <2> DEFINE N == Len(batch[at.resource].scopes)
  <2>1. at.scope \notin DOMAIN batch[at.resource].scopes
    BY <1>6 DEF AtScope, Resource
  <2>2. j \in 1..N /\ N \in Nat /\ DOMAIN batch[at.resource].scopes = 1..N
    BY <1>4, <1>6
  <2> HIDE DEF N
  <2>3. QED
    BY ONLY <1>2, <2>1, <2>2
<1>7. ASSUME AtScope, ~AtRecord, NEW k, In(batch, at.resource, at.scope, k)
      PROVE  k < at.record
  <2> DEFINE N == Len(batch[at.resource].scopes[at.scope])
  <2>1. at.record \notin DOMAIN batch[at.resource].scopes[at.scope]
    BY <1>7 DEF AtRecord, Scope, Resource
  <2>2. k \in 1..N /\ N \in Nat /\ DOMAIN batch[at.resource].scopes[at.scope] = 1..N
    BY <1>4, <1>7
  <2> HIDE DEF N
  <2>3. QED
    BY ONLY <1>2, <2>1, <2>2
<1>8. Len(ruleset) \in Nat /\ DOMAIN ruleset = 1..Len(ruleset)
  BY <1>1, RuleType
<1>9. AtRecord /\ ~AtRule => \A n \in DOMAIN ruleset : n < at.rule
  BY <1>2, <1>8 DEF AtRule
<1>10. \A i, j, k : In(batch, i, j, k) => i \in Nat /\ j \in Nat \ {0} /\ k \in Nat \ {0}
  BY <1>4
<1>11. QED
  BY <1>1, <1>2, <1>3, <1>5, <1>6, <1>7, <1>8, <1>9, <1>10

LEMMA KeepRecordStep ==
  ASSUME IInv, KeepRecord
  PROVE  IInv'
<1>1. /\ AtRecord /\ ~AtRule /\ UNCHANGED walk /\ batch' = batch /\ paid' = paid
      /\ at' = [at EXCEPT !.record = @ + 1, !.rule = 1]
  BY DEF KeepRecord
<1>2. phase = "apply" /\ AtScope /\ phase' = phase
  BY <1>1 DEF AtRecord, AtScope, AtResource, walk
<1>3. /\ at' \in [{"resource", "scope", "record", "rule"} -> Nat \ {0}]
      /\ at'.resource = at.resource /\ at'.scope = at.scope
      /\ at'.record = at.record + 1 /\ at'.rule = 1
  <2>1. /\ at \in [{"resource", "scope", "record", "rule"} -> Nat \ {0}]
        /\ 1 \in Nat \ {0} /\ at.record + 1 \in Nat \ {0}
        /\ at' = [[at EXCEPT !.record = at.record + 1] EXCEPT !.rule = 1]
    BY <1>1, <1>2, Beyond
  <2>2. at' \in [{"resource", "scope", "record", "rule"} -> Nat \ {0}]
    BY ONLY <2>1, Zenon
  <2>3. QED
    BY ONLY <2>1, <2>2
<1>4. CursorInv'
  <2>1. AtScope' /\ AtResource'
    BY <1>1, <1>2, <1>3 DEF AtScope, AtResource, Resource
  <2>2. QED
    BY <1>3, <2>1 DEF CursorInv
<1>5. ASSUME NEW i, NEW j, NEW k, In(batch, i, j, k), NEW n \in DOMAIN ruleset,
             Passed(i, j, k, n)'
      PROVE  Passed(i, j, k, n)
  <2>1. /\ n < at.rule /\ n \in Nat \ {0} /\ k \in Nat
        /\ at.record \in Nat /\ at.rule \in Nat
    BY <1>1, <1>2, <1>5, Beyond
  <2>2. QED
    BY <1>2, <1>3, <1>5, <2>1 DEF Passed
<1>6. QED
  BY <1>1, <1>2, <1>3, <1>4, <1>5, Moves

LEMMA NextScopeStep ==
  ASSUME IInv, AtScope, ~AtRecord, UNCHANGED <<walk, batch, paid>>,
         at' = [at EXCEPT !.scope = @ + 1, !.record = 1]
  PROVE  IInv'
<1>1. UNCHANGED walk /\ batch' = batch /\ paid' = paid
  OBVIOUS
<1>2. phase = "apply" /\ AtResource /\ phase' = phase
  BY <1>1 DEF AtScope, AtResource, walk
<1>3. /\ at' \in [{"resource", "scope", "record", "rule"} -> Nat \ {0}]
      /\ at'.resource = at.resource /\ at'.scope = at.scope + 1
      /\ at'.record = 1 /\ at'.rule = 1 /\ at.rule = 1
  <2>1. /\ at \in [{"resource", "scope", "record", "rule"} -> Nat \ {0}]
        /\ 1 \in Nat \ {0} /\ at.scope + 1 \in Nat \ {0} /\ at.rule = 1
        /\ at' = [[at EXCEPT !.scope = at.scope + 1] EXCEPT !.record = 1]
    BY <1>2, Beyond
  <2>2. at' \in [{"resource", "scope", "record", "rule"} -> Nat \ {0}]
    BY ONLY <2>1, Zenon
  <2>3. QED
    BY ONLY <2>1, <2>2
<1>4. CursorInv'
  <2>1. AtResource'
    BY <1>1, <1>2, <1>3 DEF AtResource
  <2>2. QED
    BY <1>3, <2>1 DEF CursorInv
<1>5. ASSUME NEW i, NEW j, NEW k, In(batch, i, j, k), NEW n \in DOMAIN ruleset,
             Passed(i, j, k, n)'
      PROVE  Passed(i, j, k, n)
  <2>1. /\ i = at.resource /\ j = at.scope => k < at.record
        /\ n \in Nat \ {0} /\ k \in Nat \ {0} /\ j \in Nat /\ i \in Nat
        /\ at.record \in Nat \ {0} /\ at.scope \in Nat /\ at.resource \in Nat
    BY <1>2, <1>5, Beyond
  <2>2. QED
    BY <1>2, <1>3, <1>5, <2>1 DEF Passed
<1>6. QED
  BY <1>1, <1>2, <1>3, <1>4, <1>5, Moves

LEMMA NextResourceStep ==
  ASSUME IInv, AtResource, ~AtScope, UNCHANGED <<walk, batch, paid>>,
         at' = [at EXCEPT !.resource = @ + 1, !.scope = 1]
  PROVE  IInv'
<1>1. UNCHANGED walk /\ batch' = batch /\ paid' = paid
  OBVIOUS
<1>2. phase = "apply" /\ ~AtRecord /\ phase' = phase
  BY <1>1 DEF AtRecord, AtResource, walk
<1>3. /\ at' \in [{"resource", "scope", "record", "rule"} -> Nat \ {0}]
      /\ at'.resource = at.resource + 1 /\ at'.scope = 1
      /\ at'.record = 1 /\ at'.rule = 1 /\ at.rule = 1 /\ at.record = 1
  <2>1. /\ at \in [{"resource", "scope", "record", "rule"} -> Nat \ {0}]
        /\ 1 \in Nat \ {0} /\ at.resource + 1 \in Nat \ {0} /\ at.rule = 1 /\ at.record = 1
        /\ at' = [[at EXCEPT !.resource = at.resource + 1] EXCEPT !.scope = 1]
    BY <1>2, Beyond
  <2>2. at' \in [{"resource", "scope", "record", "rule"} -> Nat \ {0}]
    BY ONLY <2>1, Zenon
  <2>3. QED
    BY ONLY <2>1, <2>2
<1>4. CursorInv'
  BY <1>3 DEF CursorInv
<1>5. ASSUME NEW i, NEW j, NEW k, In(batch, i, j, k), NEW n \in DOMAIN ruleset,
             Passed(i, j, k, n)'
      PROVE  Passed(i, j, k, n)
  <2>1. /\ i = at.resource => j < at.scope
        /\ n \in Nat \ {0} /\ k \in Nat \ {0} /\ j \in Nat \ {0} /\ i \in Nat
        /\ at.record \in Nat \ {0} /\ at.scope \in Nat /\ at.resource \in Nat
    BY <1>2, <1>5, Beyond
  <2>2. QED
    BY <1>2, <1>3, <1>5, <2>1 DEF Passed
<1>6. QED
  BY <1>1, <1>2, <1>3, <1>4, <1>5, Moves

LEMMA ScopeOutStep ==
  ASSUME IInv, AtScope, ~AtRecord, Scope = << >>, UNCHANGED <<walk, paid>>,
         batch' = [batch EXCEPT ![at.resource].scopes = RemoveAt(@, at.scope)],
         at' = [at EXCEPT !.record = 1]
  PROVE  IInv'
<1> DEFINE i0 == at.resource
           j0 == at.scope
           N  == Len(batch[i0].scopes)
           o(i, j) == IF i = i0 /\ j >= j0 THEN j + 1 ELSE j
           From == [p \in Positions(batch') |-> <<p[1], o(p[1], p[2]), p[3]>>]
<1>1. /\ batch \in Seq(Envelope) /\ phase = "apply" /\ phase' = "apply" /\ TypeInv
      /\ UNCHANGED walk /\ paid' = paid
      /\ i0 \in DOMAIN batch /\ j0 \in DOMAIN batch[i0].scopes
      /\ i0 \in Nat \ {0} /\ j0 \in 1..N /\ N \in Nat /\ j0 \in Nat \ {0}
      /\ DOMAIN batch[i0].scopes = 1..N /\ at.rule = 1
  <2>1. /\ phase = "apply" /\ i0 \in DOMAIN batch /\ j0 \in DOMAIN batch[i0].scopes
        /\ UNCHANGED walk /\ paid' = paid /\ phase' = phase
    BY DEF AtScope, AtResource, Resource, walk
  <2>2. /\ TypeInv /\ batch \in Seq(Envelope) /\ i0 \in Nat \ {0} /\ j0 \in Nat \ {0}
        /\ at.rule = 1
    BY <2>1, Beyond
  <2>3. N \in Nat /\ DOMAIN batch[i0].scopes = 1..N
    BY <2>1, <2>2, Levels
  <2>4. QED
    BY <2>1, <2>2, <2>3
<1>2. batch' = OutScope(batch, i0, j0)
  BY DEF OutScope, PutScopes
<1>3. /\ batch' \in Seq(Envelope)
      /\ \A i, j, k : In(batch', i, j, k) <=>
           IF i = i0
           THEN j \in 1..(N - 1) /\ In(batch, i0, IF j >= j0 THEN j + 1 ELSE j, k)
           ELSE In(batch, i, j, k)
      /\ \A i, j, k : In(batch', i, j, k) => X(batch', i, j, k) = X(batch, i, o(i, j), k)
      /\ i0 \in DOMAIN batch'
  BY ONLY <1>1, <1>2, OutScopeIs
<1>4. /\ at' \in [{"resource", "scope", "record", "rule"} -> Nat \ {0}]
      /\ at'.resource = i0 /\ at'.scope = j0 /\ at'.record = 1 /\ at'.rule = 1
  <2>1. /\ at \in [{"resource", "scope", "record", "rule"} -> Nat \ {0}]
        /\ at' = [at EXCEPT !.record = 1] /\ 1 \in Nat \ {0}
    BY <1>1 DEF TypeInv
  <2>2. at' \in [{"resource", "scope", "record", "rule"} -> Nat \ {0}]
    BY ONLY <2>1, Zenon
  <2>3. QED
    BY ONLY <1>1, <2>1, <2>2
<1>5. \A k : ~In(batch, i0, j0, k)
  BY DEF In, Scope, Resource
<1>6. ASSUME NEW i, NEW j, NEW k, In(batch', i, j, k)
      PROVE  /\ j \in Nat /\ In(batch, i, o(i, j), k)
             /\ \A n \in DOMAIN ruleset :
                  Passed(i, j, k, n)' => Passed(i, o(i, j), k, n)
  <2>1. k \in Nat /\ i \in Nat /\ j \in Nat
    BY ONLY <1>3, <1>6, InNat
  <2>2. In(batch, i, o(i, j), k)
    BY ONLY <1>3, <1>6
  <2>3. k \in Nat \ {0}
    BY <1>1, <2>2, Beyond
  <2>4. ASSUME NEW n \in DOMAIN ruleset, Passed(i, j, k, n)'
        PROVE  Passed(i, o(i, j), k, n)
    <3>1. n \in Nat \ {0}
      BY <1>1, RuleType
    <3>2. i < i0 \/ (i = i0 /\ j < j0)
      BY ONLY <1>1, <1>4, <2>1, <2>3, <2>4, <3>1 DEF Passed
    <3>3. o(i, j) = j
      BY ONLY <1>1, <2>1, <3>2
    <3>4. Passed(i, j, k, n)
      BY ONLY <3>2 DEF Passed
    <3>5. QED
      BY ONLY <3>3, <3>4
  <2>5. QED
    BY <2>1, <2>2, <2>4
<1>7. From \in Injection(Positions(batch'), Positions(batch))
  <2>1. ASSUME NEW p \in Positions(batch')
        PROVE  From[p] \in Positions(batch)
    <3>1. PICK i, j, k : In(batch', i, j, k) /\ p = <<i, j, k>>
      BY PositionsAre
    <3>2. From[p] = <<i, o(i, j), k>>
      BY ONLY <2>1, <3>1
    <3>3. In(batch, i, o(i, j), k)
      BY <1>6, <3>1
    <3> HIDE DEF From, o
    <3>4. QED
      BY <3>2, <3>3, PositionsAre
  <2>2. ASSUME NEW p \in Positions(batch'), NEW q \in Positions(batch'), From[p] = From[q]
        PROVE  p = q
    <3>1. PICK i, j, k : In(batch', i, j, k) /\ p = <<i, j, k>>
      BY PositionsAre
    <3>2. PICK l, m, r : In(batch', l, m, r) /\ q = <<l, m, r>>
      BY PositionsAre
    <3>3. <<i, o(i, j), k>> = <<l, o(l, m), r>>
      BY ONLY <2>2, <3>1, <3>2
    <3>4. i = l /\ o(i, j) = o(l, m) /\ k = r
      BY ONLY <3>3
    <3>5. j \in Nat /\ m \in Nat
      BY <1>6, <3>1, <3>2
    <3>6. j = m
      BY ONLY <1>1, <3>4, <3>5
    <3>7. QED
      BY ONLY <3>1, <3>2, <3>4, <3>6
  <2>3. From = [p \in Positions(batch') |-> From[p]]
    OBVIOUS
  <2> HIDE DEF From
  <2>4. QED
    BY ONLY <2>1, <2>2, <2>3 DEF Injection, IsInjective
<1>8. ASSUME NEW p \in Positions(batch')
      PROVE  /\ RecordAt(batch', p) = RecordAt(batch, From[p])
             /\ \A n \in DOMAIN ruleset :
                  Passed(p[1], p[2], p[3], n)' => Passed(From[p][1], From[p][2], From[p][3], n)
  <2>1. PICK i, j, k : In(batch', i, j, k) /\ p = <<i, j, k>>
    BY PositionsAre
  <2>2. From[p] = <<i, o(i, j), k>>
    BY ONLY <1>8, <2>1
  <2>3. X(batch', i, j, k) = X(batch, i, o(i, j), k)
    BY ONLY <1>3, <2>1
  <2>4. \A n \in DOMAIN ruleset : Passed(i, j, k, n)' => Passed(i, o(i, j), k, n)
    BY <1>6, <2>1
  <2> HIDE DEF From, o
  <2>5. RecordAt(batch', p) = X(batch', i, j, k) /\ RecordAt(batch, From[p]) = X(batch, i, o(i, j), k)
    BY ONLY <2>1, <2>2 DEF RecordAt, X
  <2>6. QED
    BY ONLY <2>1, <2>2, <2>3, <2>4, <2>5
<1>9. ASSUME NEW q \in Positions(batch)
      PROVE  \E p \in Positions(batch') : From[p] = q
  <2>1. PICK i, m, k : In(batch, i, m, k) /\ q = <<i, m, k>>
    BY PositionsAre
  <2>2. m \in Nat
    BY ONLY <1>1, <2>1, InNat
  <2> DEFINE j == IF i = i0 /\ m > j0 THEN m - 1 ELSE m
  <2>3. In(batch', i, j, k) /\ o(i, j) = m
    <3>1. CASE i = i0
      <4>1. m \in 1..N /\ m # j0 /\ j0 \in 1..N /\ N \in Nat
        BY <1>1, <1>5, <2>1, <3>1 DEF In
      <4>2. j \in 1..(N - 1) /\ (IF j >= j0 THEN j + 1 ELSE j) = m /\ o(i, j) = m
        BY ONLY <3>1, <4>1
      <4>3. QED
        BY ONLY <1>3, <2>1, <3>1, <4>2
    <3>2. CASE i # i0
      <4>1. j = m /\ o(i, m) = m
        BY ONLY <3>2
      <4>2. QED
        BY ONLY <1>3, <2>1, <3>2, <4>1
    <3>3. QED
      BY <3>1, <3>2
  <2>4. <<i, j, k>> \in Positions(batch')
    BY <2>3, PositionsAre
  <2>5. From[<<i, j, k>>] = <<i, o(i, j), k>>
    BY ONLY <2>4
  <2>6. QED
    BY <2>1, <2>3, <2>4, <2>5
<1>10. CursorInv'
  <2>1. AtResource'
    BY <1>1, <1>3, <1>4 DEF AtResource
  <2>2. QED
    BY <1>4, <2>1 DEF CursorInv
<1> HIDE DEF From
<1>11. /\ phase = "apply" /\ UNCHANGED walk /\ paid' = paid /\ batch' \in Seq(Envelope)
       /\ at' \in [{"resource", "scope", "record", "rule"} -> Nat \ {0}]
  BY ONLY <1>1, <1>3, <1>4
<1>12. QED
  BY <1>7, <1>8, <1>9, <1>10, <1>11, Removes

LEMMA ResourceOutStep ==
  ASSUME IInv, AtResource, ~AtScope, Resource.scopes = << >>, UNCHANGED <<walk, paid>>,
         batch' = RemoveAt(batch, at.resource), at' = [at EXCEPT !.scope = 1]
  PROVE  IInv'
<1> DEFINE i0 == at.resource
           N  == Len(batch)
           o(i) == IF i >= i0 THEN i + 1 ELSE i
           From == [p \in Positions(batch') |-> <<o(p[1]), p[2], p[3]>>]
<1>1. /\ batch \in Seq(Envelope) /\ phase = "apply" /\ phase' = "apply" /\ TypeInv
      /\ UNCHANGED walk /\ paid' = paid
      /\ i0 \in DOMAIN batch /\ i0 \in 1..N /\ i0 \in Nat \ {0} /\ N \in Nat
      /\ DOMAIN batch = 1..N /\ at.rule = 1 /\ at.record = 1
  <2>1. /\ phase = "apply" /\ i0 \in DOMAIN batch /\ ~AtRecord
        /\ UNCHANGED walk /\ paid' = paid /\ phase' = phase
    BY DEF AtResource, AtRecord, walk
  <2>2. /\ TypeInv /\ batch \in Seq(Envelope) /\ i0 \in Nat \ {0}
        /\ at.rule = 1 /\ at.record = 1
    BY <2>1, Beyond
  <2>3. N \in Nat /\ DOMAIN batch = 1..N
    BY <2>2, Levels
  <2>4. QED
    BY <2>1, <2>2, <2>3
<1>2. batch' = RemoveAt(batch, i0)
  OBVIOUS
<1>3. /\ batch' \in Seq(Envelope)
      /\ \A i, j, k : In(batch', i, j, k) <=> i \in 1..(N - 1) /\ In(batch, o(i), j, k)
      /\ \A i, j, k : In(batch', i, j, k) => X(batch', i, j, k) = X(batch, o(i), j, k)
  BY ONLY <1>1, <1>2, OutResourceIs
<1>4. /\ at' \in [{"resource", "scope", "record", "rule"} -> Nat \ {0}]
      /\ at'.resource = i0 /\ at'.scope = 1 /\ at'.record = 1 /\ at'.rule = 1
  <2>1. /\ at \in [{"resource", "scope", "record", "rule"} -> Nat \ {0}]
        /\ at' = [at EXCEPT !.scope = 1] /\ 1 \in Nat \ {0}
    BY <1>1 DEF TypeInv
  <2>2. at' \in [{"resource", "scope", "record", "rule"} -> Nat \ {0}]
    BY ONLY <2>1, Zenon
  <2>3. QED
    BY ONLY <1>1, <2>1, <2>2
<1>5. \A j, k : ~In(batch, i0, j, k)
  BY DEF In, Resource
<1>6. ASSUME NEW i, NEW j, NEW k, In(batch', i, j, k)
      PROVE  /\ i \in Nat /\ In(batch, o(i), j, k)
             /\ \A n \in DOMAIN ruleset : Passed(i, j, k, n)' => Passed(o(i), j, k, n)
  <2>1. k \in Nat /\ i \in Nat /\ j \in Nat
    BY ONLY <1>3, <1>6, InNat
  <2>2. In(batch, o(i), j, k)
    BY ONLY <1>3, <1>6
  <2>3. k \in Nat \ {0} /\ j \in Nat \ {0}
    BY <1>1, <2>2, Beyond
  <2>4. ASSUME NEW n \in DOMAIN ruleset, Passed(i, j, k, n)'
        PROVE  Passed(o(i), j, k, n)
    <3>1. n \in Nat \ {0}
      BY <1>1, RuleType
    <3>2. i < i0
      BY ONLY <1>1, <1>4, <2>1, <2>3, <2>4, <3>1 DEF Passed
    <3>3. o(i) = i
      BY ONLY <1>1, <2>1, <3>2
    <3>4. Passed(i, j, k, n)
      BY ONLY <3>2 DEF Passed
    <3>5. QED
      BY ONLY <3>3, <3>4
  <2>5. QED
    BY <2>1, <2>2, <2>4
<1>7. From \in Injection(Positions(batch'), Positions(batch))
  <2>1. ASSUME NEW p \in Positions(batch')
        PROVE  From[p] \in Positions(batch)
    <3>1. PICK i, j, k : In(batch', i, j, k) /\ p = <<i, j, k>>
      BY PositionsAre
    <3>2. From[p] = <<o(i), j, k>>
      BY ONLY <2>1, <3>1
    <3>3. In(batch, o(i), j, k)
      BY <1>6, <3>1
    <3> HIDE DEF From, o
    <3>4. QED
      BY <3>2, <3>3, PositionsAre
  <2>2. ASSUME NEW p \in Positions(batch'), NEW q \in Positions(batch'), From[p] = From[q]
        PROVE  p = q
    <3>1. PICK i, j, k : In(batch', i, j, k) /\ p = <<i, j, k>>
      BY PositionsAre
    <3>2. PICK l, m, r : In(batch', l, m, r) /\ q = <<l, m, r>>
      BY PositionsAre
    <3>3. <<o(i), j, k>> = <<o(l), m, r>>
      BY ONLY <2>2, <3>1, <3>2
    <3>4. o(i) = o(l) /\ j = m /\ k = r
      BY ONLY <3>3
    <3>5. i \in Nat /\ l \in Nat
      BY <1>6, <3>1, <3>2
    <3>6. i = l
      BY ONLY <1>1, <3>4, <3>5
    <3>7. QED
      BY ONLY <3>1, <3>2, <3>4, <3>6
  <2>3. From = [p \in Positions(batch') |-> From[p]]
    OBVIOUS
  <2> HIDE DEF From
  <2>4. QED
    BY ONLY <2>1, <2>2, <2>3 DEF Injection, IsInjective
<1>8. ASSUME NEW p \in Positions(batch')
      PROVE  /\ RecordAt(batch', p) = RecordAt(batch, From[p])
             /\ \A n \in DOMAIN ruleset :
                  Passed(p[1], p[2], p[3], n)' => Passed(From[p][1], From[p][2], From[p][3], n)
  <2>1. PICK i, j, k : In(batch', i, j, k) /\ p = <<i, j, k>>
    BY PositionsAre
  <2>2. From[p] = <<o(i), j, k>>
    BY ONLY <1>8, <2>1
  <2>3. X(batch', i, j, k) = X(batch, o(i), j, k)
    BY ONLY <1>3, <2>1
  <2>4. \A n \in DOMAIN ruleset : Passed(i, j, k, n)' => Passed(o(i), j, k, n)
    BY <1>6, <2>1
  <2> HIDE DEF From, o
  <2>5. RecordAt(batch', p) = X(batch', i, j, k) /\ RecordAt(batch, From[p]) = X(batch, o(i), j, k)
    BY ONLY <2>1, <2>2 DEF RecordAt, X
  <2>6. QED
    BY ONLY <2>1, <2>2, <2>3, <2>4, <2>5
<1>9. ASSUME NEW q \in Positions(batch)
      PROVE  \E p \in Positions(batch') : From[p] = q
  <2>1. PICK l, j, k : In(batch, l, j, k) /\ q = <<l, j, k>>
    BY PositionsAre
  <2>2. l \in 1..N /\ l # i0
    BY <1>1, <1>5, <2>1 DEF In
  <2> DEFINE i == IF l > i0 THEN l - 1 ELSE l
  <2>3. i \in 1..(N - 1) /\ o(i) = l
    BY ONLY <1>1, <2>2
  <2>4. In(batch', i, j, k)
    BY ONLY <1>3, <2>1, <2>3
  <2>5. <<i, j, k>> \in Positions(batch')
    BY <2>4, PositionsAre
  <2>6. From[<<i, j, k>>] = <<o(i), j, k>>
    BY ONLY <2>5
  <2>7. QED
    BY <2>1, <2>3, <2>5, <2>6
<1>10. CursorInv'
  BY <1>4 DEF CursorInv
<1> HIDE DEF From
<1>11. QED
  BY <1>1, <1>3, <1>4, <1>7, <1>8, <1>9, <1>10, Removes

-----------------------------------------------------------------------------
(* The call around the walk. *)

LEMMA EmptyBatch ==
  /\ << >> \in Seq(Envelope) /\ Positions(<< >>) = {} /\ Records(<< >>) = {}
  /\ IsFiniteSet(Positions(<< >>)) /\ Count(<< >>) = 0
<1>1. << >> \in Seq(Envelope)
  OBVIOUS
<1>2. DOMAIN << >> = {}
  OBVIOUS
<1>3. Positions(<< >>) = {}
  BY <1>2 DEF Positions
<1>4. Records(<< >>) = {}
  BY <1>3 DEF Records
<1>5. IsFiniteSet({}) /\ Cardinality({}) = 0
  BY FS_EmptySet
<1>6. QED
  BY <1>1, <1>3, <1>4, <1>5 DEF Count

LEMMA CountsType ==
  ASSUME TypeInv
  PROVE  Count(batch) \in Nat /\ Count(original) \in Nat /\ Count(batch) <= Count(original)
<1>1. original \in Seq(Envelope)
  <2>1. CASE original = << >>
    BY <2>1, EmptyBatch
  <2>2. CASE original \in Batch[signal]
    BY <2>2, InputAssumption, BatchType DEF TypeInv
  <2>3. QED
    BY <2>1, <2>2 DEF TypeInv
<1>2. QED
  BY <1>1, FiniteBatch, FS_CardinalityType DEF Count, TypeInv

\* Nothing that the walk has seen or will see changes.
LEMMA Keeps ==
  ASSUME IInv, UNCHANGED <<signal, ruleset, batch, original, paid>>,
         \A i, j, k : In(batch, i, j, k) =>
           \A n \in DOMAIN ruleset : Passed(i, j, k, n)' => Passed(i, j, k, n),
         phase' \in {"apply", "observe", "forward"} => phase \in {"apply", "observe", "forward"}
  PROVE  SameInv' /\ PassedInv' /\ LostInv'
<1>1. TypeInv /\ SameInv /\ PassedInv /\ LostInv
  BY DEF IInv
<1>2. SameInv' /\ PassedInv'
  BY <1>1, Carried, SurvivesReflexive
<1>3. LostInv'
  BY <1>1, Static DEF LostInv
<1>4. QED
  BY <1>2, <1>3

LEMMA EndBatchStep ==
  ASSUME IInv, EndBatch
  PROVE  IInv'
<1>1. /\ phase = "apply" /\ ~AtResource /\ phase' = "observe"
      /\ UNCHANGED <<signal, published, ruleset, batch, at, received, dropped, original, paid,
                     delivered, refused, publishes, batches, refusals>>
  BY DEF EndBatch, history, bounds
<1>2. SameInv' /\ PassedInv' /\ LostInv'
  <2>1. \A i, j, k : In(batch, i, j, k) => \A n \in DOMAIN ruleset : Passed(i, j, k, n)
    BY <1>1, Beyond DEF Passed
  <2>2. QED
    BY <1>1, <2>1, Keeps
<1>3. TypeInv' /\ RestInv' /\ CursorInv' /\ CountInv'
  BY <1>1 DEF IInv, TypeInv, RestInv, CursorInv, CountInv
<1>4. QED
  BY <1>2, <1>3 DEF IInv

LEMMA ObserveStep ==
  ASSUME IInv, Observe
  PROVE  IInv'
<1>1. /\ phase = "observe" /\ phase' = "forward"
      /\ received' = received + Count(original)
      /\ dropped' = dropped + (Count(original) - Count(batch))
      /\ UNCHANGED <<signal, published, ruleset, batch, at, original, paid,
                     delivered, refused, publishes, batches, refusals>>
  BY DEF Observe, history, bounds
<1>2. TypeInv /\ CountInv
  BY DEF IInv
<1>3. SameInv' /\ PassedInv' /\ LostInv'
  BY <1>1, Keeps DEF Passed
<1>4. /\ Count(batch) \in Nat /\ Count(original) \in Nat /\ Count(batch) <= Count(original)
      /\ received \in Nat /\ dropped \in Nat /\ delivered \in Nat /\ refused \in Nat
  BY <1>2, CountsType DEF TypeInv
<1>5. received = dropped + delivered + refused
  BY <1>1, <1>2, <1>4 DEF CountInv
<1>6. received' \in Nat /\ dropped' \in Nat
      /\ received' = dropped' + delivered + refused + Count(batch)
  BY <1>1, <1>4, <1>5
<1>7. TypeInv' /\ RestInv' /\ CursorInv'
  BY <1>1, <1>2, <1>6 DEF TypeInv, RestInv, CursorInv
<1>8. CountInv'
  BY <1>1, <1>6 DEF CountInv
<1>9. QED
  BY <1>3, <1>7, <1>8 DEF IInv

\* The call returns: the processor holds nothing.
LEMMA ReturnStep ==
  ASSUME IInv, phase = "forward", Return, phase' \in {"idle", "refused"},
         original' = IF phase' = "idle" THEN << >> ELSE original,
         phase' = "refused" => Count(batch) # 0,
         delivered' \in Nat, refused' \in Nat, refusals' \in 0..MaxRefusals[signal],
         delivered' + refused' = delivered + refused + Count(batch)
  PROVE  IInv'
<1>1. /\ batch' = << >> /\ ruleset' = << >> /\ at' = Start
      /\ UNCHANGED <<signal, published, received, dropped, publishes, batches>>
  BY DEF Return
<1>2. TypeInv /\ CountInv
  BY DEF IInv
<1>3. /\ Count(batch) \in Nat /\ Count(original) \in Nat /\ Count(batch) <= Count(original)
      /\ received \in Nat /\ dropped \in Nat /\ delivered \in Nat /\ refused \in Nat
  BY <1>2, CountsType DEF TypeInv
<1>4. original' \in Batch[signal] \cup {<< >>} /\ (phase' = "refused" => original' \in Batch[signal])
  <2>1. CASE phase' = "idle"
    BY <2>1
  <2>2. CASE phase' = "refused"
    <3>1. original' = original /\ Count(original) # 0
      BY <1>3, <2>2
    <3>2. original # << >>
      BY <3>1, EmptyBatch
    <3>3. QED
      BY <1>2, <3>1, <3>2 DEF TypeInv
  <2>3. QED
    BY <2>1, <2>2
<1>5. TypeInv'
  <2>1. /\ batch' \in Seq(Envelope) /\ IsFiniteSet(Positions(batch')) /\ Count(batch') = 0
    BY <1>1, EmptyBatch
  <2>2. Count(batch') <= Count(original')
    <3>1. original' = << >> \/ original' = original
      OBVIOUS
    <3>2. Count(original') \in Nat
      BY <1>3, <3>1, EmptyBatch
    <3>3. QED
      BY <2>1, <3>2
  <2>3. at' \in [{"resource", "scope", "record", "rule"} -> Nat \ {0}]
    BY <1>1 DEF Start
  <2>4. QED
    BY <1>1, <1>2, <1>4, <2>1, <2>2, <2>3 DEF TypeInv
<1>6. RestInv'
  BY <1>1, <1>4 DEF RestInv
<1>7. CursorInv' /\ LostInv'
  BY DEF CursorInv, LostInv
<1>8. SameInv' /\ PassedInv'
  <2>1. Records(batch') = {} /\ DOMAIN batch' = {}
    BY <1>1, EmptyBatch
  <2>2. QED
    BY <2>1 DEF SameInv, PassedInv
<1>9. CountInv'
  <2>1. received = dropped + delivered + refused + Count(batch)
    BY <1>2 DEF CountInv
  <2>2. received' = dropped' + delivered' + refused'
    <3>1. /\ delivered' \in Nat /\ refused' \in Nat
          /\ delivered' + refused' = delivered + refused + Count(batch)
          /\ received' = received /\ dropped' = dropped
      BY <1>1
    <3>2. QED
      BY ONLY <1>3, <2>1, <3>1
  <2>3. received' = dropped' + delivered' + refused' + 0
    BY <1>1, <1>3, <2>2
  <2>4. QED
    BY <2>3 DEF CountInv
<1>10. QED
  BY <1>5, <1>6, <1>7, <1>8, <1>9 DEF IInv

LEMMA ForwardStep ==
  ASSUME IInv, Forward \/ ForwardFails
  PROVE  IInv'
<1>1. TypeInv
  BY DEF IInv
<1>2. /\ Count(batch) \in Nat /\ delivered \in Nat /\ refused \in Nat
      /\ refusals \in 0..MaxRefusals[signal] /\ MaxRefusals[signal] \in Nat
  BY <1>1, CountsType, BoundsAssumption DEF TypeInv
<1>3. CASE Forward
  <2>1. /\ phase = "forward" /\ phase' = "idle" /\ original' = << >> /\ Return
        /\ delivered' = delivered + Count(batch) /\ refused' = refused /\ refusals' = refusals
    BY <1>3 DEF Forward
  <2>2. QED
    BY <1>2, <2>1, ReturnStep
<1>4. CASE ForwardFails
  <2>1. /\ phase = "forward" /\ phase' = "refused" /\ original' = original /\ Return
        /\ Count(batch) # 0 /\ refusals < MaxRefusals[signal]
        /\ refused' = refused + Count(batch) /\ delivered' = delivered /\ refusals' = refusals + 1
    BY <1>4 DEF ForwardFails
  <2>2. QED
    BY <1>2, <2>1, ReturnStep
<1>5. QED
  BY <1>3, <1>4

LEMMA GiveUpStep ==
  ASSUME IInv, GiveUp
  PROVE  IInv'
<1>1. /\ phase = "refused" /\ phase' = "idle" /\ original' = << >>
      /\ UNCHANGED <<signal, published, ruleset, batch, at, received, dropped, paid, delivered,
                     refused, publishes, batches, refusals>>
  BY DEF GiveUp, bounds
<1>2. TypeInv /\ batch = << >> /\ CountInv
  BY <1>1 DEF IInv, RestInv
<1>3. TypeInv' /\ RestInv'
  BY <1>1, <1>2, EmptyBatch DEF TypeInv, RestInv
<1>4. SameInv' /\ PassedInv'
  <2>1. Records(batch') = {} /\ DOMAIN batch' = {}
    BY <1>1, <1>2, EmptyBatch
  <2>2. QED
    BY <2>1 DEF SameInv, PassedInv
<1>5. CursorInv' /\ LostInv' /\ CountInv'
  BY <1>1, <1>2 DEF CursorInv, LostInv, CountInv
<1>6. QED
  BY <1>3, <1>4, <1>5 DEF IInv

\* The sync goroutine publishes, or nothing happens: the call does not notice.
LEMMA BesideStep ==
  ASSUME IInv, UNCHANGED <<signal, ruleset, work, received, dropped, history, batches, refusals>>,
         published' \in Ruleset[signal] \cup Republished[signal],
         publishes' \in 0..MaxPublishes[signal]
  PROVE  IInv'
<1>1. UNCHANGED <<signal, ruleset, phase, batch, at, received, dropped, original, paid,
                  delivered, refused, batches, refusals>>
  BY DEF work, history
<1>2. SameInv' /\ PassedInv' /\ LostInv'
  BY <1>1, Keeps DEF Passed
<1>3. TypeInv' /\ RestInv' /\ CountInv'
  BY <1>1 DEF IInv, TypeInv, RestInv, CountInv
<1>4. CursorInv'
  BY <1>1 DEF IInv, CursorInv, AtResource, AtScope, AtRecord, Resource, Scope
<1>5. QED
  BY <1>2, <1>3, <1>4 DEF IInv

\* A call begins: the ruleset is the one just published, and no rule has been
\* evaluated.
LEMMA ConsumeStep ==
  ASSUME IInv, phase \in {"idle", "refused"}, NEW b \in Batch[signal], Consume(b),
         batches' \in 0..MaxBatches
  PROVE  IInv'
<1>1. /\ ruleset' = published /\ batch' = b /\ original' = b /\ at' = Start /\ paid' = {}
      /\ phase' = IF published = << >> THEN "observe" ELSE "apply"
      /\ UNCHANGED <<signal, published, received, dropped, delivered, refused, publishes,
                     refusals>>
  BY DEF Consume
<1>2. TypeInv /\ CountInv
  BY DEF IInv
<1>3. b \in Seq(Envelope) /\ IsFiniteSet(Positions(b)) /\ Count(b) \in Nat
  <2>1. b \in Seq(Envelope)
    BY <1>2, InputAssumption, BatchType DEF TypeInv
  <2>2. QED
    BY <2>1, FiniteBatch, FS_CardinalityType DEF Count
<1>4. /\ at' \in [{"resource", "scope", "record", "rule"} -> Nat \ {0}]
      /\ at'.resource = 1 /\ at'.scope = 1 /\ at'.record = 1 /\ at'.rule = 1
  BY <1>1 DEF Start
<1>5. TypeInv'
  BY <1>1, <1>2, <1>3, <1>4 DEF TypeInv
<1>6. RestInv' /\ CursorInv'
  BY <1>1, <1>4 DEF RestInv, CursorInv
<1>7. SameInv'
  <2>1. \A x \in Records(batch') : x \in Records(original') /\ Same(x, x)'
    BY <1>1 DEF Same
  <2>2. QED
    BY <2>1 DEF SameInv
<1>8. PassedInv'
  <2>1. ASSUME NEW i, NEW j, NEW k, In(b, i, j, k), NEW n \in DOMAIN ruleset'
        PROVE  ~Passed(i, j, k, n)'
    <3>1. i \in Nat \ {0} /\ j \in Nat \ {0} /\ k \in Nat \ {0}
      <4>1. i \in DOMAIN b /\ j \in DOMAIN b[i].scopes /\ k \in DOMAIN b[i].scopes[j]
        BY <2>1 DEF In
      <4>2. i \in 1..Len(b) /\ j \in 1..Len(b[i].scopes) /\ k \in 1..Len(b[i].scopes[j])
        BY <1>3, <4>1, Levels
      <4>3. i \in Nat /\ j \in Nat /\ k \in Nat
        BY <1>3, <2>1, InNat
      <4>4. QED
        BY <4>2, <4>3
    <3>2. n \in Nat \ {0}
      <4>1. IsRuleset(published)
        BY <1>2, InputAssumption DEF TypeInv
      <4>2. DOMAIN published = 1..Len(published)
        BY <4>1, LenProperties DEF IsRuleset
      <4>3. QED
        BY <1>1, <2>1, <4>2
    <3>3. phase' = "apply"
      <4>1. published # << >>
        BY <1>1, <2>1
      <4>2. QED
        BY <1>1, <4>1
    <3>4. QED
      BY <1>4, <3>1, <3>2, <3>3 DEF Passed
  <2>2. \A i \in DOMAIN b : \A j \in DOMAIN b[i].scopes : \A k \in DOMAIN b[i].scopes[j] :
          In(b, i, j, k)
    BY DEF In
  <2>3. QED
    BY <1>1, <2>1, <2>2 DEF PassedInv
<1>9. LostInv'
  <2>1. \A y \in Records(original') : y.record.id \in Ids(batch')
    BY <1>1 DEF Ids
  <2>2. QED
    BY <2>1 DEF LostInv
<1>10. CountInv'
  BY <1>1, <1>2 DEF CountInv
<1>11. QED
  BY <1>5, <1>6, <1>7, <1>8, <1>9, <1>10 DEF IInv

LEMMA EvaluateStep ==
  ASSUME IInv, Evaluate
  PROVE  IInv'
<1>1. CASE SkipRule
  BY <1>1, SkipStep
<1>2. CASE Drop
  <2>1. Hit /\ Rule.action = "DROP" /\ RemoveRecord /\ UNCHANGED walk /\ paid' = paid
    BY <1>2 DEF Drop
  <2>2. QED
    BY <2>1, RemoveStep
<1>3. CASE Sample
  <2>1. Hit /\ Rule.action = "SAMPLE" /\ UNCHANGED walk /\ paid' = paid
    BY <1>3 DEF Sample
  <2>2. CASE SampledIn(Rule, Record)
    <3>1. NextRule /\ UNCHANGED <<batch, walk, paid>>
      BY <1>3, <2>1, <2>2 DEF Sample
    <3>2. QED
      BY <2>1, <3>1, SampleKeepStep
  <2>3. CASE ~SampledIn(Rule, Record)
    <3>1. RemoveRecord
      BY <1>3, <2>3 DEF Sample
    <3>2. QED
      BY <2>1, <3>1, RemoveStep
  <2>4. QED
    BY <2>2, <2>3
<1>4. CASE Throttle
  <2>1. /\ Hit /\ Rule.action = "THROTTLE" /\ UNCHANGED walk
        /\ \/ /\ NextRule /\ batch' = batch
              /\ paid' = paid \cup {<<Record.id, at.rule, ThrottleKey(Rule, Record, Resource.attrs)>>}
           \/ RemoveRecord /\ paid' = paid
    BY <1>4 DEF Throttle
  <2>2. CASE RemoveRecord /\ paid' = paid
    BY <2>1, <2>2, RemoveStep
  <2>3. CASE /\ NextRule /\ batch' = batch
             /\ paid' = paid \cup {<<Record.id, at.rule, ThrottleKey(Rule, Record, Resource.attrs)>>}
    <3>1. UNCHANGED <<batch, walk>>
      BY <2>1, <2>3
    <3>2. QED
      BY <2>1, <2>3, <3>1, ThrottlePayStep
  <2>4. QED
    BY <2>1, <2>2, <2>3
<1>5. CASE Redact
  BY <1>5, RedactStep
<1>6. CASE Route
  BY <1>6, RouteStep
<1>7. QED
  BY <1>1, <1>2, <1>3, <1>4, <1>5, <1>6 DEF Evaluate

LEMMA WalkStep ==
  ASSUME IInv, Walk
  PROVE  IInv'
<1>1. CASE Evaluate
  BY <1>1, EvaluateStep
<1>2. CASE KeepRecord
  BY <1>2, KeepRecordStep
<1>3. CASE EndScope
  <2>1. CASE Scope = << >>
    <3>1. /\ AtScope /\ ~AtRecord /\ UNCHANGED <<walk, paid>>
          /\ batch' = [batch EXCEPT ![at.resource].scopes = RemoveAt(@, at.scope)]
          /\ at' = [at EXCEPT !.record = 1]
      BY <1>3, <2>1 DEF EndScope
    <3>2. QED
      BY <2>1, <3>1, ScopeOutStep
  <2>2. CASE Scope # << >>
    <3>1. /\ AtScope /\ ~AtRecord /\ UNCHANGED <<walk, batch, paid>>
          /\ at' = [at EXCEPT !.scope = @ + 1, !.record = 1]
      BY <1>3, <2>2 DEF EndScope
    <3>2. QED
      BY <3>1, NextScopeStep
  <2>3. QED
    BY <2>1, <2>2
<1>4. CASE EndResource
  <2>1. CASE Resource.scopes = << >>
    <3>1. /\ AtResource /\ ~AtScope /\ UNCHANGED <<walk, paid>>
          /\ batch' = RemoveAt(batch, at.resource) /\ at' = [at EXCEPT !.scope = 1]
      BY <1>4, <2>1 DEF EndResource
    <3>2. QED
      BY <2>1, <3>1, ResourceOutStep
  <2>2. CASE Resource.scopes # << >>
    <3>1. /\ AtResource /\ ~AtScope /\ UNCHANGED <<walk, batch, paid>>
          /\ at' = [at EXCEPT !.resource = @ + 1, !.scope = 1]
      BY <1>4, <2>2 DEF EndResource
    <3>2. QED
      BY <3>1, NextResourceStep
  <2>3. QED
    BY <2>1, <2>2
<1>5. CASE EndBatch
  BY <1>5, EndBatchStep
<1>6. QED
  BY <1>1, <1>2, <1>3, <1>4, <1>5 DEF Walk

LEMMA InitIInv ==
  ASSUME Init
  PROVE  IInv
<1>1. TypeInv
  BY EmptyBatch, BoundsAssumption DEF Init, TypeInv, Start
<1>2. Records(batch) = {} /\ DOMAIN batch = {}
  BY EmptyBatch DEF Init
<1>3. RestInv /\ CursorInv /\ SameInv /\ PassedInv /\ LostInv /\ CountInv
  BY <1>2 DEF Init, RestInv, CursorInv, SameInv, PassedInv, LostInv, CountInv
<1>4. QED
  BY <1>1, <1>3 DEF IInv

LEMMA NextIInv ==
  ASSUME IInv, [Next]_vars
  PROVE  IInv'
<1>1. /\ TypeInv /\ publishes \in 0..MaxPublishes[signal] /\ MaxPublishes[signal] \in Nat
      /\ batches \in 0..MaxBatches /\ MaxBatches \in Nat
  BY BoundsAssumption DEF IInv, TypeInv
<1>2. CASE publishes < MaxPublishes[signal] /\ \E rules \in Republished[signal] : Publish(rules)
  <2>1. /\ UNCHANGED <<signal, ruleset, work, received, dropped, history, batches, refusals>>
        /\ published' \in Republished[signal] /\ publishes' = publishes + 1
    BY <1>2 DEF Publish
  <2>2. QED
    BY <1>1, <1>2, <2>1, BesideStep
<1>3. CASE Receive
  <2>1. PICK b \in Batch[signal] : Consume(b)
    BY <1>3 DEF Receive
  <2>2. phase = "idle" /\ batches' \in 0..MaxBatches
    BY <1>1, <1>3 DEF Receive
  <2>3. QED
    BY <2>1, <2>2, ConsumeStep
<1>4. CASE Retry
  <2>1. phase = "refused" /\ Consume(original) /\ batches' = batches
    BY <1>4 DEF Retry
  <2>2. PICK b \in Batch[signal] : b = original
    BY <2>1 DEF IInv, RestInv
  <2>3. QED
    BY <1>1, <2>1, <2>2, ConsumeStep
<1>5. CASE GiveUp
  BY <1>5, GiveUpStep
<1>6. CASE Walk
  BY <1>6, WalkStep
<1>7. CASE Observe
  BY <1>7, ObserveStep
<1>8. CASE Forward \/ ForwardFails
  BY <1>8, ForwardStep
<1>9. CASE UNCHANGED vars
  <2>1. /\ UNCHANGED <<signal, ruleset, work, received, dropped, history, batches, refusals>>
        /\ published' = published /\ publishes' = publishes
    BY <1>9 DEF vars, bounds
  <2>2. QED
    BY <1>1, <2>1, BesideStep DEF TypeInv
<1>10. QED
  BY <1>2, <1>3, <1>4, <1>5, <1>6, <1>7, <1>8, <1>9 DEF Next

\* The inductive invariant holds in every reachable state.
THEOREM Inductive == Spec => []IInv
<1>1. Init => IInv
  BY InitIInv
<1>2. IInv /\ [Next]_vars => IInv'
  BY NextIInv
<1>3. QED
  BY <1>1, <1>2, PTL DEF Spec

-----------------------------------------------------------------------------
(* Envelopes.  What a removal leaves moves up by one place at one level of    *)
(* the nesting, so that records keep their order and stay together; and the   *)
(* walk leaves no scope or resource behind it that holds nothing.             *)

OrderInv == SameOrder(batch, original)

\* A resource with something in it, and something in each of its scopes.
Solid(b, i) ==
  /\ DOMAIN b[i].scopes # {}
  /\ \A j \in DOMAIN b[i].scopes : DOMAIN b[i].scopes[j] # {}

SolidInv ==
  /\ phase = "apply" =>
       \A i \in DOMAIN batch :
         /\ i < at.resource => Solid(batch, i)
         /\ i = at.resource =>
              \A j \in DOMAIN batch[i].scopes : j < at.scope => DOMAIN batch[i].scopes[j] # {}
  /\ phase \in {"observe", "forward"} /\ ruleset # << >> =>
       \A i \in DOMAIN batch : Solid(batch, i)

Envelopes == OrderInv /\ SolidInv

LEMMA InOrderIs ==
  ASSUME NEW i, NEW j, NEW k, NEW l, NEW m, NEW o
  PROVE  /\ InOrder(<<i, j, k>>, <<l, m, o>>, 1) <=> i < l
         /\ InOrder(<<i, j, k>>, <<l, m, o>>, 2) <=> i = l /\ j < m
         /\ InOrder(<<i, j, k>>, <<l, m, o>>, 3) <=> i = l /\ j = m /\ k < o
<1>1. 1..(1 - 1) = {} /\ 1..(2 - 1) = {1} /\ 1..(3 - 1) = {1, 2}
  OBVIOUS
<1>2. /\ Together(<<i, j, k>>, <<l, m, o>>, 1 - 1)
      /\ Together(<<i, j, k>>, <<l, m, o>>, 2 - 1) <=> i = l
      /\ Together(<<i, j, k>>, <<l, m, o>>, 3 - 1) <=> i = l /\ j = m
  BY <1>1 DEF Together
<1>3. QED
  BY <1>2 DEF InOrder

\* The place before, at one level, an element was taken out at n.
Before(m, n) == IF m >= n THEN m + 1 ELSE m

LEMMA BeforeMonotone ==
  ASSUME NEW m \in Nat, NEW o \in Nat, NEW n \in Nat
  PROVE  /\ m < o <=> Before(m, n) < Before(o, n)
         /\ m = o <=> Before(m, n) = Before(o, n)
BY DEF Before

\* What a step does to any two records it leaves, it leaves in order.
LEMMA OrderKept ==
  ASSUME NEW b, NEW c, NEW d, SameOrder(b, d),
         \A p, q \in Positions(c) : \E r, s \in Positions(b) :
           /\ SameRecord(c, p, b, r) /\ SameRecord(c, q, b, s)
           /\ \A level \in 1..3 : InOrder(p, q, level) <=> InOrder(r, s, level)
  PROVE  SameOrder(c, d)
<1> SUFFICES ASSUME NEW p \in Positions(c), NEW q \in Positions(c),
                    NEW u \in Positions(d), NEW v \in Positions(d),
                    SameRecord(c, p, d, u), SameRecord(c, q, d, v), NEW level \in 1..3
             PROVE  InOrder(p, q, level) <=> InOrder(u, v, level)
  BY DEF SameOrder
<1>1. PICK r \in Positions(b), s \in Positions(b) :
        /\ SameRecord(c, p, b, r) /\ SameRecord(c, q, b, s)
        /\ InOrder(p, q, level) <=> InOrder(r, s, level)
  OBVIOUS
<1>2. SameRecord(b, r, d, u) /\ SameRecord(b, s, d, v)
  BY <1>1 DEF SameRecord
<1>3. InOrder(r, s, level) <=> InOrder(u, v, level)
  BY <1>2 DEF SameOrder
<1>4. QED
  BY <1>1, <1>3

LEMMA SameRecordIs ==
  ASSUME NEW b, NEW c, NEW i, NEW j, NEW k, NEW l, NEW m, NEW o,
         X(b, i, j, k).record.id = X(c, l, m, o).record.id
  PROVE  SameRecord(b, <<i, j, k>>, c, <<l, m, o>>)
BY DEF SameRecord, RecordAt, X

LEMMA RecordOutOrder ==
  ASSUME NEW b \in Seq(Envelope), NEW d, SameOrder(b, d),
         NEW i0, NEW j0, NEW k0, In(b, i0, j0, k0), NEW c, c = OutRecord(b, i0, j0, k0)
  PROVE  SameOrder(c, d)
<1> DEFINE N == Len(b[i0].scopes[j0])
           o(i, j, k) == IF i = i0 /\ j = j0 THEN Before(k, k0) ELSE k
<1>1. /\ c \in Seq(Envelope)
      /\ \A i, j, k : In(c, i, j, k) <=>
           IF i = i0 /\ j = j0 THEN k \in 1..(N - 1) ELSE In(b, i, j, k)
      /\ \A i, j, k : In(c, i, j, k) =>
           X(c, i, j, k) = X(b, i, j, IF i = i0 /\ j = j0 /\ k >= k0 THEN k + 1 ELSE k)
  BY OutRecordIs
<1>2. k0 \in 1..N /\ N \in Nat /\ k0 \in Nat /\ DOMAIN b[i0].scopes[j0] = 1..N
  BY Levels, InNat DEF In
<1> HIDE DEF N
<1>3. ASSUME NEW i, NEW j, NEW k, In(c, i, j, k)
      PROVE  /\ i \in Nat /\ j \in Nat /\ k \in Nat /\ In(b, i, j, o(i, j, k))
             /\ X(c, i, j, k) = X(b, i, j, o(i, j, k))
  <2>1. i \in Nat /\ j \in Nat /\ k \in Nat
    BY <1>1, <1>3, InNat
  <2>2. X(c, i, j, k) = X(b, i, j, o(i, j, k))
    BY <1>1, <1>3 DEF Before
  <2>3. CASE i = i0 /\ j = j0
    <3>1. k \in 1..(N - 1)
      BY <1>1, <1>3, <2>3
    <3>2. o(i, j, k) \in 1..N
      BY <1>2, <2>3, <3>1 DEF Before
    <3>3. QED
      BY <1>2, <2>1, <2>2, <2>3, <3>2 DEF In
  <2>4. CASE ~(i = i0 /\ j = j0)
    BY <1>1, <1>3, <2>1, <2>2, <2>4
  <2>5. QED
    BY <2>3, <2>4
<1>4. ASSUME NEW p \in Positions(c), NEW q \in Positions(c)
      PROVE  \E r, s \in Positions(b) :
               /\ SameRecord(c, p, b, r) /\ SameRecord(c, q, b, s)
               /\ \A level \in 1..3 : InOrder(p, q, level) <=> InOrder(r, s, level)
  <2>1. PICK i, j, k : In(c, i, j, k) /\ p = <<i, j, k>>
    BY PositionsAre
  <2>2. PICK l, m, n : In(c, l, m, n) /\ q = <<l, m, n>>
    BY PositionsAre
  <2> DEFINE r == <<i, j, o(i, j, k)>>
             s == <<l, m, o(l, m, n)>>
  <2>3. k \in Nat /\ n \in Nat /\ r \in Positions(b) /\ s \in Positions(b)
    BY <1>3, <2>1, <2>2, PositionsAre
  <2>4. SameRecord(c, p, b, r) /\ SameRecord(c, q, b, s)
    BY <1>3, <2>1, <2>2, SameRecordIs
  <2>5. i = l /\ j = m => (k < n <=> o(i, j, k) < o(l, m, n))
    BY <1>2, <2>3, BeforeMonotone
  <2>6. \A level \in 1..3 : InOrder(p, q, level) <=> InOrder(r, s, level)
    <3> HIDE DEF o
    <3>1. InOrder(p, q, 1) <=> InOrder(r, s, 1)
      BY <2>1, <2>2, InOrderIs
    <3>2. InOrder(p, q, 2) <=> InOrder(r, s, 2)
      BY <2>1, <2>2, InOrderIs
    <3>3. InOrder(p, q, 3) <=> InOrder(r, s, 3)
      BY <2>1, <2>2, <2>5, InOrderIs
    <3> HIDE DEF r, s
    <3>4. QED
      BY <3>1, <3>2, <3>3
  <2>7. QED
    BY <2>3, <2>4, <2>6
<1>5. QED
  BY <1>4, OrderKept

LEMMA ScopeOutOrder ==
  ASSUME NEW b \in Seq(Envelope), NEW d, SameOrder(b, d),
         NEW i0 \in DOMAIN b, NEW j0 \in DOMAIN b[i0].scopes, NEW c, c = OutScope(b, i0, j0)
  PROVE  SameOrder(c, d)
<1> DEFINE N == Len(b[i0].scopes)
           o(i, j) == IF i = i0 THEN Before(j, j0) ELSE j
<1>1. /\ c \in Seq(Envelope)
      /\ \A i, j, k : In(c, i, j, k) <=>
           IF i = i0
           THEN j \in 1..(N - 1) /\ In(b, i0, IF j >= j0 THEN j + 1 ELSE j, k)
           ELSE In(b, i, j, k)
      /\ \A i, j, k : In(c, i, j, k) =>
           X(c, i, j, k) = X(b, i, IF i = i0 /\ j >= j0 THEN j + 1 ELSE j, k)
  BY OutScopeIs
<1>2. j0 \in Nat
  BY Levels
<1>3. ASSUME NEW i, NEW j, NEW k, In(c, i, j, k)
      PROVE  /\ i \in Nat /\ j \in Nat /\ k \in Nat /\ In(b, i, o(i, j), k)
             /\ X(c, i, j, k) = X(b, i, o(i, j), k)
  <2>1. i \in Nat /\ j \in Nat /\ k \in Nat
    BY <1>1, <1>3, InNat
  <2>2. X(c, i, j, k) = X(b, i, o(i, j), k)
    BY <1>1, <1>3 DEF Before
  <2>3. In(b, i, o(i, j), k)
    BY <1>1, <1>3 DEF Before
  <2>4. QED
    BY <2>1, <2>2, <2>3
<1>4. ASSUME NEW p \in Positions(c), NEW q \in Positions(c)
      PROVE  \E r, s \in Positions(b) :
               /\ SameRecord(c, p, b, r) /\ SameRecord(c, q, b, s)
               /\ \A level \in 1..3 : InOrder(p, q, level) <=> InOrder(r, s, level)
  <2>1. PICK i, j, k : In(c, i, j, k) /\ p = <<i, j, k>>
    BY PositionsAre
  <2>2. PICK l, m, n : In(c, l, m, n) /\ q = <<l, m, n>>
    BY PositionsAre
  <2> DEFINE r == <<i, o(i, j), k>>
             s == <<l, o(l, m), n>>
  <2>3. j \in Nat /\ m \in Nat /\ r \in Positions(b) /\ s \in Positions(b)
    BY <1>3, <2>1, <2>2, PositionsAre
  <2>4. SameRecord(c, p, b, r) /\ SameRecord(c, q, b, s)
    BY <1>3, <2>1, <2>2, SameRecordIs
  <2>5. i = l => (j < m <=> o(i, j) < o(l, m)) /\ (j = m <=> o(i, j) = o(l, m))
    BY <1>2, <2>3, BeforeMonotone
  <2>6. \A level \in 1..3 : InOrder(p, q, level) <=> InOrder(r, s, level)
    <3> HIDE DEF o
    <3>1. InOrder(p, q, 1) <=> InOrder(r, s, 1)
      BY <2>1, <2>2, InOrderIs
    <3>2. InOrder(p, q, 2) <=> InOrder(r, s, 2)
      BY <2>1, <2>2, <2>5, InOrderIs
    <3>3. InOrder(p, q, 3) <=> InOrder(r, s, 3)
      BY <2>1, <2>2, <2>5, InOrderIs
    <3> HIDE DEF r, s
    <3>4. QED
      BY <3>1, <3>2, <3>3
  <2>7. QED
    BY <2>3, <2>4, <2>6
<1>5. QED
  BY <1>4, OrderKept

LEMMA ResourceOutOrder ==
  ASSUME NEW b \in Seq(Envelope), NEW d, SameOrder(b, d), NEW i0 \in DOMAIN b,
         NEW c, c = RemoveAt(b, i0)
  PROVE  SameOrder(c, d)
<1>1. /\ c \in Seq(Envelope)
      /\ \A i, j, k : In(c, i, j, k) <=>
           i \in 1..(Len(b) - 1) /\ In(b, IF i >= i0 THEN i + 1 ELSE i, j, k)
      /\ \A i, j, k : In(c, i, j, k) => X(c, i, j, k) = X(b, IF i >= i0 THEN i + 1 ELSE i, j, k)
  BY OutResourceIs
<1>2. i0 \in Nat
  BY Levels
<1>3. ASSUME NEW i, NEW j, NEW k, In(c, i, j, k)
      PROVE  /\ i \in Nat /\ In(b, Before(i, i0), j, k)
             /\ X(c, i, j, k) = X(b, Before(i, i0), j, k)
  <2>1. i \in Nat
    BY <1>1, <1>3, InNat
  <2>2. QED
    BY <1>1, <1>3, <2>1 DEF Before
<1>4. ASSUME NEW p \in Positions(c), NEW q \in Positions(c)
      PROVE  \E r, s \in Positions(b) :
               /\ SameRecord(c, p, b, r) /\ SameRecord(c, q, b, s)
               /\ \A level \in 1..3 : InOrder(p, q, level) <=> InOrder(r, s, level)
  <2>1. PICK i, j, k : In(c, i, j, k) /\ p = <<i, j, k>>
    BY PositionsAre
  <2>2. PICK l, m, n : In(c, l, m, n) /\ q = <<l, m, n>>
    BY PositionsAre
  <2> DEFINE r == <<Before(i, i0), j, k>>
             s == <<Before(l, i0), m, n>>
  <2>3. i \in Nat /\ l \in Nat /\ r \in Positions(b) /\ s \in Positions(b)
    BY <1>3, <2>1, <2>2, PositionsAre
  <2>4. SameRecord(c, p, b, r) /\ SameRecord(c, q, b, s)
    BY <1>3, <2>1, <2>2, SameRecordIs
  <2>5. /\ i < l <=> Before(i, i0) < Before(l, i0)
        /\ i = l <=> Before(i, i0) = Before(l, i0)
    BY <1>2, <2>3, BeforeMonotone
  <2>6. \A level \in 1..3 : InOrder(p, q, level) <=> InOrder(r, s, level)
    <3>1. InOrder(p, q, 1) <=> InOrder(r, s, 1)
      BY <2>1, <2>2, <2>5, InOrderIs
    <3>2. InOrder(p, q, 2) <=> InOrder(r, s, 2)
      BY <2>1, <2>2, <2>5, InOrderIs
    <3>3. InOrder(p, q, 3) <=> InOrder(r, s, 3)
      BY <2>1, <2>2, <2>5, InOrderIs
    <3> HIDE DEF r, s
    <3>4. QED
      BY <3>1, <3>2, <3>3
  <2>7. QED
    BY <2>3, <2>4, <2>6
<1>5. QED
  BY <1>4, OrderKept

\* Rewriting fields leaves every record where it is.
Alike(b, c) ==
  /\ DOMAIN c = DOMAIN b
  /\ \A i \in DOMAIN b :
       /\ DOMAIN c[i].scopes = DOMAIN b[i].scopes
       /\ \A j \in DOMAIN b[i].scopes :
            /\ DOMAIN c[i].scopes[j] = DOMAIN b[i].scopes[j]
            /\ \A k \in DOMAIN b[i].scopes[j] : c[i].scopes[j][k].id = b[i].scopes[j][k].id

LEMMA AlikeOrder ==
  ASSUME NEW b, NEW c, Alike(b, c), NEW d, SameOrder(b, d)
  PROVE  SameOrder(c, d)
<1>1. ASSUME NEW p \in Positions(c)
      PROVE  p \in Positions(b) /\ SameRecord(c, p, b, p)
  <2>1. PICK i, j, k : In(c, i, j, k) /\ p = <<i, j, k>>
    BY PositionsAre
  <2>2. In(b, i, j, k) /\ c[i].scopes[j][k].id = b[i].scopes[j][k].id
    BY <2>1 DEF In, Alike
  <2>3. X(c, i, j, k).record.id = X(b, i, j, k).record.id
    BY <2>2 DEF X
  <2>4. QED
    BY <2>1, <2>2, <2>3, PositionsAre, SameRecordIs
<1>2. QED
  BY <1>1, OrderKept

LEMMA PutRecordAlike ==
  ASSUME NEW b \in Seq(Envelope), NEW i0, NEW j0, NEW k0, In(b, i0, j0, k0),
         NEW q, q.id = b[i0].scopes[j0][k0].id
  PROVE  Alike(b, PutRecord(b, i0, j0, k0, q))
<1> DEFINE ss == b[i0].scopes
           s  == [ss[j0] EXCEPT ![k0] = q]
           tt == [ss EXCEPT ![j0] = s]
           c  == PutRecord(b, i0, j0, k0, q)
<1>1. i0 \in DOMAIN b /\ b[i0] \in Envelope /\ j0 \in DOMAIN ss /\ k0 \in DOMAIN ss[j0]
  BY Levels DEF In
<1>2. DOMAIN s = DOMAIN ss[j0] /\ \A k \in DOMAIN s : s[k].id = ss[j0][k].id
  BY <1>1
<1>3. [b[i0] EXCEPT !.scopes = tt].scopes = tt
  BY <1>1 DEF Envelope
<1>4. DOMAIN c = DOMAIN b /\ c[i0].scopes = tt /\ \A i \in DOMAIN b \ {i0} : c[i] = b[i]
  BY <1>1, <1>3 DEF PutRecord
<1> HIDE DEF s, c
<1>5. DOMAIN tt = DOMAIN ss /\ tt[j0] = s /\ \A j \in DOMAIN ss \ {j0} : tt[j] = ss[j]
  BY <1>1
<1> HIDE DEF tt
<1>6. Alike(b, c)
  BY <1>2, <1>4, <1>5 DEF Alike
<1>7. QED
  BY <1>6 DEF c

LEMMA PutAttrsAlike ==
  ASSUME NEW b \in Seq(Envelope), NEW i0 \in DOMAIN b, NEW m
  PROVE  Alike(b, PutAttrs(b, i0, m))
<1>1. [b[i0] EXCEPT !.attrs = m].scopes = b[i0].scopes
  BY Levels DEF Envelope
<1>2. QED
  BY <1>1 DEF Alike, PutAttrs

\* A sequence is empty if it has no index.
LEMMA Hollow ==
  ASSUME NEW b \in Seq(Envelope), NEW i \in DOMAIN b
  PROVE  /\ DOMAIN b[i].scopes = {} <=> b[i].scopes = << >>
         /\ \A j \in DOMAIN b[i].scopes :
              DOMAIN b[i].scopes[j] = {} <=> b[i].scopes[j] = << >>
<1>1. ASSUME NEW S, NEW s \in Seq(S)
      PROVE  DOMAIN s = {} <=> s = << >>
  <2>1. DOMAIN s = 1..Len(s) /\ Len(s) \in Nat
    BY LenProperties
  <2>2. DOMAIN s = {} <=> Len(s) = 0
    <3>1. ASSUME NEW n \in Nat
          PROVE  1..n = {} <=> n = 0
      <4>1. n # 0 => 1 \in 1..n
        OBVIOUS
      <4>2. n = 0 => 1..n = {}
        OBVIOUS
      <4>3. QED
        BY <4>1, <4>2
    <3>2. QED
      BY <2>1, <3>1
  <2>3. s # << >> => Len(s) # 0
    BY EmptySeq
  <2>4. s = << >> => Len(s) = 0
    BY EmptySeq
  <2>5. QED
    BY <2>2, <2>3, <2>4
<1>2. b[i].scopes \in Seq(Seq(Item)) /\ \A j \in DOMAIN b[i].scopes : b[i].scopes[j] \in Seq(Item)
  BY Levels
<1>3. DOMAIN b[i].scopes = {} <=> b[i].scopes = << >>
  BY <1>1, <1>2
<1>4. ASSUME NEW j \in DOMAIN b[i].scopes
      PROVE  DOMAIN b[i].scopes[j] = {} <=> b[i].scopes[j] = << >>
  <2>1. b[i].scopes[j] \in Seq(Item)
    BY <1>2
  <2>2. QED
    BY <1>1, <2>1
<1>5. QED
  BY <1>3, <1>4

\* The walk stays in the scope.
LEMMA SolidStays ==
  ASSUME SolidInv, phase = "apply", UNCHANGED <<phase, ruleset>>, Alike(batch, batch'),
         at'.resource = at.resource, at'.scope = at.scope
  PROVE  SolidInv'
<1>1. \A i \in DOMAIN batch : Solid(batch, i) => Solid(batch', i)
  BY DEF Alike, Solid
<1>2. QED
  BY <1>1 DEF SolidInv, Alike

\* The walk leaves a scope that holds something, or a resource.
LEMMA SolidScope ==
  ASSUME IInv, SolidInv, AtScope, Scope # << >>, UNCHANGED <<phase, ruleset, batch>>,
         at'.resource = at.resource, at'.scope = at.scope + 1
  PROVE  SolidInv'
<1>1. /\ phase = "apply" /\ batch \in Seq(Envelope) /\ at.resource \in DOMAIN batch
      /\ at.scope \in DOMAIN batch[at.resource].scopes
      /\ batch[at.resource].scopes[at.scope] # << >>
  BY DEF AtScope, AtResource, Scope, Resource, IInv, TypeInv
<1>2. at.scope \in Nat /\ \A j \in DOMAIN batch[at.resource].scopes : j \in Nat
  BY <1>1, Levels
<1>3. DOMAIN batch[at.resource].scopes[at.scope] # {}
  BY <1>1, Hollow
<1>4. \A j \in DOMAIN batch[at.resource].scopes :
        j < at.scope + 1 => DOMAIN batch[at.resource].scopes[j] # {}
  <2>1. \A j \in DOMAIN batch[at.resource].scopes : j < at.scope + 1 => j < at.scope \/ j = at.scope
    BY <1>2
  <2>2. QED
    BY <1>1, <1>3, <2>1 DEF SolidInv
<1>5. QED
  BY <1>1, <1>4 DEF SolidInv, Solid

LEMMA SolidResource ==
  ASSUME IInv, SolidInv, AtResource, ~AtScope, Resource.scopes # << >>,
         UNCHANGED <<phase, ruleset, batch>>,
         at'.resource = at.resource + 1, at'.scope = 1
  PROVE  SolidInv'
<1>1. /\ phase = "apply" /\ batch \in Seq(Envelope) /\ at.resource \in DOMAIN batch
      /\ at.scope \notin DOMAIN batch[at.resource].scopes /\ at.scope \in Nat \ {0}
      /\ batch[at.resource].scopes # << >>
  BY AtIs DEF AtScope, AtResource, Resource, IInv, TypeInv
<1>2. /\ at.resource \in Nat /\ \A i \in DOMAIN batch : i \in Nat
      /\ \A i \in DOMAIN batch : \A j \in DOMAIN batch[i].scopes : j \in Nat \ {0}
  BY <1>1, Levels
<1>3. \A j \in DOMAIN batch[at.resource].scopes : j < at.scope
  <2> DEFINE N == Len(batch[at.resource].scopes)
  <2>1. N \in Nat /\ DOMAIN batch[at.resource].scopes = 1..N
    BY <1>1, Levels
  <2> HIDE DEF N
  <2>2. QED
    BY <1>1, <2>1
<1>4. Solid(batch, at.resource)
  BY <1>1, <1>3, Hollow DEF SolidInv, Solid
<1>5. ASSUME NEW i \in DOMAIN batch
      PROVE  /\ i < at.resource + 1 => Solid(batch, i)
             /\ \A j \in DOMAIN batch[i].scopes : ~(j < 1)
  <2>1. i < at.resource + 1 => i < at.resource \/ i = at.resource
    BY <1>2
  <2>2. QED
    BY <1>1, <1>2, <1>4, <2>1 DEF SolidInv
<1>6. QED
  BY <1>1, <1>5 DEF SolidInv, Solid

\* What is removed is not behind the walk.
LEMMA SolidRecordOut ==
  ASSUME SolidInv, phase = "apply", UNCHANGED <<phase, ruleset>>, batch \in Seq(Envelope),
         In(batch, at.resource, at.scope, at.record), at.scope \in Nat, at.resource \in Nat,
         batch' = OutRecord(batch, at.resource, at.scope, at.record),
         at'.resource = at.resource, at'.scope = at.scope
  PROVE  SolidInv'
<1> DEFINE i0 == at.resource
           j0 == at.scope
           tt == [batch[i0].scopes EXCEPT ![j0] = RemoveAt(batch[i0].scopes[j0], at.record)]
<1>1. i0 \in DOMAIN batch /\ j0 \in DOMAIN batch[i0].scopes /\ batch[i0] \in Envelope
  BY Levels DEF In
<1>2. /\ DOMAIN tt = DOMAIN batch[i0].scopes
      /\ \A j \in DOMAIN tt \ {j0} : tt[j] = batch[i0].scopes[j]
  OBVIOUS
<1>3. /\ DOMAIN batch' = DOMAIN batch /\ batch'[i0].scopes = tt
      /\ \A i \in DOMAIN batch \ {i0} : batch'[i] = batch[i]
  <2>1. batch' = PutScopes(batch, i0, tt)
    BY DEF OutRecord
  <2> HIDE DEF tt
  <2>2. [batch[i0] EXCEPT !.scopes = tt].scopes = tt
    BY <1>1 DEF Envelope
  <2>3. QED
    BY <1>1, <2>1, <2>2 DEF PutScopes
<1> HIDE DEF tt
<1>4. ASSUME NEW i \in DOMAIN batch
      PROVE  /\ i < i0 => Solid(batch', i)
             /\ i = i0 => \A j \in DOMAIN batch'[i].scopes :
                            j < j0 => DOMAIN batch'[i].scopes[j] # {}
  <2>1. i < i0 => Solid(batch', i)
    BY <1>3 DEF SolidInv, Solid
  <2>2. \A j \in DOMAIN tt : j < j0 => DOMAIN tt[j] # {}
    BY <1>1, <1>2 DEF SolidInv
  <2>3. QED
    BY <1>3, <2>1, <2>2
<1>5. QED
  BY <1>3, <1>4 DEF SolidInv

LEMMA SolidScopeOut ==
  ASSUME SolidInv, phase = "apply", UNCHANGED <<phase, ruleset>>, batch \in Seq(Envelope),
         at.resource \in DOMAIN batch, at.scope \in DOMAIN batch[at.resource].scopes,
         batch' = OutScope(batch, at.resource, at.scope),
         at'.resource = at.resource, at'.scope = at.scope
  PROVE  SolidInv'
<1> DEFINE i0 == at.resource
           j0 == at.scope
           ss == batch[i0].scopes
           tt == RemoveAt(ss, j0)
           S  == Seq(Item)
<1>1. batch[i0] \in Envelope /\ ss \in Seq(S) /\ i0 \in Nat /\ j0 \in Nat
  BY Levels
<1>2. /\ \A j : j \in DOMAIN tt <=> j \in 1..(Len(ss) - 1)
      /\ \A j \in 1..(Len(ss) - 1) : tt[j] = IF j < j0 THEN ss[j] ELSE ss[j + 1]
  <2> HIDE DEF S, ss
  <2>1. j0 \in DOMAIN ss
    BY DEF ss
  <2>2. QED
    BY <1>1, <2>1, RemoveAtType
<1>3. /\ DOMAIN batch' = DOMAIN batch /\ batch'[i0].scopes = tt
      /\ \A i \in DOMAIN batch \ {i0} : batch'[i] = batch[i]
  <2>1. batch' = PutScopes(batch, i0, tt)
    BY DEF OutScope
  <2> HIDE DEF tt
  <2>2. [batch[i0] EXCEPT !.scopes = tt].scopes = tt
    BY <1>1 DEF Envelope
  <2>3. QED
    BY <1>1, <2>1, <2>2 DEF PutScopes
<1> HIDE DEF tt
<1>4. ASSUME NEW j \in DOMAIN tt, j < j0
      PROVE  DOMAIN tt[j] # {}
  <2>1. Len(ss) \in Nat /\ DOMAIN ss = 1..Len(ss)
    BY Levels
  <2> HIDE DEF ss
  <2>2. j \in 1..(Len(ss) - 1) /\ j \in DOMAIN ss
    BY <1>2, <1>4, <2>1
  <2>3. tt[j] = ss[j]
    BY <1>2, <1>4, <2>2
  <2>4. DOMAIN ss[j] # {}
    BY <1>4, <2>2 DEF SolidInv, ss
  <2>5. QED
    BY <2>3, <2>4
<1>5. ASSUME NEW i \in DOMAIN batch
      PROVE  i < i0 => Solid(batch', i)
  <2>1. i0 \in Nat
    BY <1>1, Levels
  <2>2. i < i0 => i \in DOMAIN batch \ {i0}
    BY <2>1
  <2>3. i < i0 => batch'[i] = batch[i]
    BY <1>3, <2>2
  <2>4. QED
    BY <2>3 DEF SolidInv, Solid
<1>6. QED
  BY <1>3, <1>4, <1>5 DEF SolidInv

LEMMA SolidResourceOut ==
  ASSUME SolidInv, phase = "apply", UNCHANGED <<phase, ruleset>>, batch \in Seq(Envelope),
         at.resource \in DOMAIN batch, batch' = RemoveAt(batch, at.resource),
         at'.resource = at.resource, at'.scope = 1
  PROVE  SolidInv'
<1> DEFINE i0 == at.resource
           N  == Len(batch)
<1>1. N \in Nat /\ DOMAIN batch = 1..N /\ i0 \in 1..N
  BY Levels
<1>2. /\ batch' \in Seq(Envelope)
      /\ \A i : i \in DOMAIN batch' <=> i \in 1..(N - 1)
      /\ \A i \in 1..(N - 1) : batch'[i] = IF i < i0 THEN batch[i] ELSE batch[i + 1]
  BY RemoveAtType
<1> HIDE DEF N
<1>3. ASSUME NEW i \in DOMAIN batch'
      PROVE  /\ i < i0 => Solid(batch', i)
             /\ \A j \in DOMAIN batch'[i].scopes : ~(j < 1)
  <2>1. i \in 1..(N - 1) /\ i \in DOMAIN batch
    BY <1>1, <1>2
  <2>2. i < i0 => batch'[i] = batch[i]
    BY <1>2, <2>1
  <2>3. i < i0 => Solid(batch', i)
    BY <2>1, <2>2 DEF SolidInv, Solid
  <2>4. \A j \in DOMAIN batch'[i].scopes : j \in Nat \ {0}
    BY <1>2, Levels
  <2>5. QED
    BY <2>3, <2>4
<1>4. QED
  BY <1>3 DEF SolidInv

\* The steps of the walk.
LEMMA StayEnvelopes ==
  ASSUME IInv, Envelopes, phase = "apply", UNCHANGED walk, Alike(batch, batch'),
         at'.resource = at.resource, at'.scope = at.scope
  PROVE  Envelopes'
<1>1. UNCHANGED <<phase, ruleset, original>>
  BY DEF walk
<1>2. SameOrder(batch', original)
  BY AlikeOrder DEF Envelopes, OrderInv
<1>3. QED
  BY <1>1, <1>2, SolidStays DEF Envelopes, OrderInv

LEMMA AlikeItself == \A b : Alike(b, b)
BY DEF Alike

LEMMA CursorMoves ==
  ASSUME TypeInv
  PROVE  /\ NextRule => at'.resource = at.resource /\ at'.scope = at.scope
         /\ at' = [at EXCEPT !.rule = 1] => at'.resource = at.resource /\ at'.scope = at.scope
         /\ at' = [at EXCEPT !.record = 1] => at'.resource = at.resource /\ at'.scope = at.scope
         /\ at' = [at EXCEPT !.record = @ + 1, !.rule = 1] =>
              at'.resource = at.resource /\ at'.scope = at.scope
         /\ at' = [at EXCEPT !.scope = @ + 1, !.record = 1] =>
              at'.resource = at.resource /\ at'.scope = at.scope + 1
         /\ at' = [at EXCEPT !.resource = @ + 1, !.scope = 1] =>
              at'.resource = at.resource + 1 /\ at'.scope = 1
         /\ at' = [at EXCEPT !.scope = 1] => at'.resource = at.resource /\ at'.scope = 1
<1>1. at \in [{"resource", "scope", "record", "rule"} -> Nat \ {0}]
  BY DEF TypeInv
<1>2. QED
  BY <1>1 DEF NextRule

LEMMA RedactAlike ==
  ASSUME IInv, Redact
  PROVE  Alike(batch, batch')
<1> DEFINE i0 == at.resource
           j0 == at.scope
           k0 == at.record
           a  == Resource.attrs
           f  == Rule.field
           t  == Resolve(f, Record, a)
           v  == Mask(Rule, t)
<1>1. /\ AtRule /\ Hit /\ batch \in Seq(Envelope)
      /\ In(batch, i0, j0, k0) /\ i0 \in DOMAIN batch
  <2>1. AtRule /\ Hit /\ TypeInv
    BY DEF Redact, Hit, IInv
  <2>2. QED
    BY <2>1, AtIs DEF TypeInv, In
<1>2. batch[i0].scopes[j0][k0] \in Item
  BY <1>1, InNat
<1>3. Place(f, Record, a) # "none"
  BY <1>1 DEF Hit, ConditionMatches
<1>4. CASE Place(f, Record, a) = "virtual"
  <2> DEFINE q == [Record EXCEPT !.virtual[f] = v]
  <2>1. batch' = PutRecord(batch, i0, j0, k0, q)
    BY <1>4, Zenon DEF Redact, PutRecord, Resource, Scope, Record
  <2>2. q.id = batch[i0].scopes[j0][k0].id
    BY <1>2 DEF Record, Scope, Resource, Item
  <2> HIDE DEF q
  <2>3. QED
    BY <1>1, <1>2, <2>1, <2>2, PutRecordAlike
<1>5. CASE Place(f, Record, a) = "record"
  <2> DEFINE q == [Record EXCEPT !.attrs[f] = v]
  <2>1. batch' = PutRecord(batch, i0, j0, k0, q)
    BY <1>5, Zenon DEF Redact, PutRecord, Resource, Scope, Record
  <2>2. q.id = batch[i0].scopes[j0][k0].id
    BY <1>2 DEF Record, Scope, Resource, Item
  <2> HIDE DEF q
  <2>3. QED
    BY <1>1, <1>2, <2>1, <2>2, PutRecordAlike
<1>6. CASE Place(f, Record, a) = "resource"
  <2>1. batch' = PutAttrs(batch, i0, [a EXCEPT ![f] = v])
    BY <1>6 DEF Redact, PutAttrs, Resource
  <2>2. QED
    BY <1>1, <2>1, PutAttrsAlike
<1>7. QED
  BY <1>3, <1>4, <1>5, <1>6, PlaceIs

LEMMA RewriteEnvelopes ==
  ASSUME IInv, Envelopes, Redact \/ Route
  PROVE  Envelopes'
<1>1. /\ AtRule /\ UNCHANGED walk /\ NextRule /\ TypeInv /\ batch \in Seq(Envelope)
  BY DEF Redact, Route, Hit, IInv, TypeInv
<1>2. /\ at.resource \in DOMAIN batch /\ phase = "apply"
      /\ at'.resource = at.resource /\ at'.scope = at.scope
  BY <1>1, AtIs, CursorMoves DEF In
<1>3. CASE Redact
  BY <1>1, <1>2, <1>3, RedactAlike, StayEnvelopes
<1>4. CASE Route
  <2>1. batch' = PutAttrs(batch, at.resource, PutStr(Resource.attrs, Destination, Rule.destination))
    BY <1>4 DEF Route, PutAttrs, Resource
  <2>2. Alike(batch, batch')
    BY <1>1, <1>2, <2>1, PutAttrsAlike
  <2>3. QED
    BY <1>1, <1>2, <2>2, StayEnvelopes
<1>5. QED
  BY <1>3, <1>4

LEMMA RemoveEnvelopes ==
  ASSUME IInv, Envelopes, Hit, RemoveRecord, UNCHANGED walk
  PROVE  Envelopes'
<1>1. AtRule /\ TypeInv /\ batch \in Seq(Envelope)
  BY DEF Hit, IInv, TypeInv
<1>2. /\ In(batch, at.resource, at.scope, at.record) /\ phase = "apply"
      /\ at.resource \in Nat /\ at.scope \in Nat
      /\ at'.resource = at.resource /\ at'.scope = at.scope
  BY <1>1, AtIs, CursorMoves DEF RemoveRecord
<1>3. batch' = OutRecord(batch, at.resource, at.scope, at.record)
  BY DEF RemoveRecord, OutRecord, PutScopes
<1>4. UNCHANGED <<phase, ruleset, original>>
  BY DEF walk
<1>5. SolidInv'
  BY <1>1, <1>2, <1>3, <1>4, SolidRecordOut DEF Envelopes
<1>6. SameOrder(batch', original)
  BY <1>1, <1>2, <1>3, RecordOutOrder DEF Envelopes, OrderInv
<1>7. QED
  BY <1>4, <1>5, <1>6 DEF Envelopes, OrderInv

LEMMA EvaluateEnvelopes ==
  ASSUME IInv, Envelopes, Evaluate
  PROVE  Envelopes'
<1>1. ASSUME AtRule, UNCHANGED walk, NextRule, UNCHANGED batch
      PROVE  Envelopes'
  <2>1. /\ phase = "apply" /\ at'.resource = at.resource /\ at'.scope = at.scope
    BY <1>1, CursorMoves DEF AtRule, AtRecord, AtScope, AtResource, IInv
  <2>2. Alike(batch, batch')
    BY <1>1, AlikeItself
  <2>3. QED
    BY <1>1, <2>1, <2>2, StayEnvelopes
<1>2. CASE SkipRule
  BY <1>1, <1>2 DEF SkipRule
<1>3. CASE Drop
  BY <1>3, RemoveEnvelopes DEF Drop
<1>4. CASE Sample
  BY <1>1, <1>4, RemoveEnvelopes DEF Sample, Hit
<1>5. CASE Throttle
  BY <1>1, <1>5, RemoveEnvelopes DEF Throttle, Hit
<1>6. CASE Redact \/ Route
  BY <1>6, RewriteEnvelopes
<1>7. QED
  BY <1>2, <1>3, <1>4, <1>5, <1>6 DEF Evaluate

LEMMA EndScopeEnvelopes ==
  ASSUME IInv, Envelopes, EndScope
  PROVE  Envelopes'
<1>1. TypeInv /\ batch \in Seq(Envelope) /\ UNCHANGED <<phase, ruleset, original>> /\ AtScope
  BY DEF IInv, TypeInv, EndScope, walk
<1>2. /\ phase = "apply" /\ at.resource \in DOMAIN batch
      /\ at.scope \in DOMAIN batch[at.resource].scopes
  BY <1>1, AtIs
<1>3. CASE Scope = << >>
  <2>1. /\ batch' = OutScope(batch, at.resource, at.scope)
        /\ at' = [at EXCEPT !.record = 1]
    BY <1>3 DEF EndScope, OutScope, PutScopes
  <2>2. SolidInv'
    BY <1>1, <1>2, <2>1, CursorMoves, SolidScopeOut DEF Envelopes
  <2>3. SameOrder(batch', original)
    BY <1>1, <1>2, <2>1, ScopeOutOrder DEF Envelopes, OrderInv
  <2>4. QED
    BY <1>1, <2>2, <2>3 DEF Envelopes, OrderInv
<1>4. CASE Scope # << >>
  <2>1. batch' = batch /\ at' = [at EXCEPT !.scope = @ + 1, !.record = 1]
    BY <1>4 DEF EndScope
  <2>2. SolidInv'
    BY <1>1, <1>4, <2>1, CursorMoves, SolidScope DEF Envelopes
  <2>3. QED
    BY <1>1, <2>1, <2>2 DEF Envelopes, OrderInv
<1>5. QED
  BY <1>3, <1>4

LEMMA EndResourceEnvelopes ==
  ASSUME IInv, Envelopes, EndResource
  PROVE  Envelopes'
<1>1. /\ TypeInv /\ batch \in Seq(Envelope) /\ UNCHANGED <<phase, ruleset, original>>
      /\ AtResource /\ ~AtScope
  BY DEF IInv, TypeInv, EndResource, walk
<1>2. phase = "apply" /\ at.resource \in DOMAIN batch
  BY <1>1, AtIs
<1>3. CASE Resource.scopes = << >>
  <2>1. batch' = RemoveAt(batch, at.resource) /\ at' = [at EXCEPT !.scope = 1]
    BY <1>3 DEF EndResource
  <2>2. SolidInv'
    BY <1>1, <1>2, <2>1, CursorMoves, SolidResourceOut DEF Envelopes
  <2>3. SameOrder(batch', original)
    BY <1>1, <1>2, <2>1, ResourceOutOrder DEF Envelopes, OrderInv
  <2>4. QED
    BY <1>1, <2>2, <2>3 DEF Envelopes, OrderInv
<1>4. CASE Resource.scopes # << >>
  <2>1. batch' = batch /\ at' = [at EXCEPT !.resource = @ + 1, !.scope = 1]
    BY <1>4 DEF EndResource
  <2>2. SolidInv'
    BY <1>1, <1>4, <2>1, CursorMoves, SolidResource DEF Envelopes
  <2>3. QED
    BY <1>1, <2>1, <2>2 DEF Envelopes, OrderInv
<1>5. QED
  BY <1>3, <1>4

LEMMA WalkEnvelopes ==
  ASSUME IInv, Envelopes, Walk
  PROVE  Envelopes'
<1>1. CASE Evaluate
  BY <1>1, EvaluateEnvelopes
<1>2. CASE KeepRecord
  <2>1. /\ phase = "apply" /\ UNCHANGED walk /\ batch' = batch
        /\ at' = [at EXCEPT !.record = @ + 1, !.rule = 1]
    BY <1>2 DEF KeepRecord, AtRecord, AtScope, AtResource
  <2>2. QED
    BY <2>1, AlikeItself, CursorMoves, StayEnvelopes DEF IInv
<1>3. CASE EndScope
  BY <1>3, EndScopeEnvelopes
<1>4. CASE EndResource
  BY <1>4, EndResourceEnvelopes
<1>5. CASE EndBatch
  <2>1. /\ phase = "apply" /\ ~AtResource /\ phase' = "observe" /\ UNCHANGED <<batch, original>>
        /\ batch \in Seq(Envelope) /\ at.resource \in Nat \ {0} /\ at.resource \notin DOMAIN batch
    BY <1>5, AtIs DEF EndBatch, history, AtResource, IInv, TypeInv
  <2>2. \A i \in DOMAIN batch : i < at.resource
    <3>1. Len(batch) \in Nat /\ DOMAIN batch = 1..Len(batch)
      BY <2>1, Levels
    <3>2. QED
      BY <2>1, <3>1
  <2>3. SolidInv'
    BY <2>1, <2>2 DEF Envelopes, SolidInv, Solid
  <2>4. QED
    BY <2>1, <2>3 DEF Envelopes, OrderInv
<1>6. QED
  BY <1>1, <1>2, <1>3, <1>4, <1>5 DEF Walk

\* A batch is in its own order, for its records are told apart.
LEMMA OwnOrder ==
  ASSUME NEW b, IsBatch(b)
  PROVE  SameOrder(b, b)
<1>1. \A p, u \in Positions(b) : SameRecord(b, p, b, u) => p = u
  BY DEF IsBatch, SameRecord
<1>2. QED
  BY <1>1 DEF SameOrder

LEMMA EmptyOrder == \A d : SameOrder(<< >>, d)
BY EmptyBatch DEF SameOrder

LEMMA ConsumeEnvelopes ==
  ASSUME IInv, phase \in {"idle", "refused"}, NEW b \in Batch[signal], Consume(b)
  PROVE  Envelopes'
<1>1. /\ batch' = b /\ original' = b /\ at' = Start /\ ruleset' = published
      /\ phase' = IF published = << >> THEN "observe" ELSE "apply"
  BY DEF Consume
<1>2. IsBatch(b) /\ b \in Seq(Envelope)
  BY InputAssumption, BatchType DEF IInv, TypeInv
<1>3. OrderInv'
  BY <1>1, <1>2, OwnOrder DEF OrderInv
<1>4. at'.resource = 1 /\ at'.scope = 1
  BY <1>1 DEF Start
<1>5. \A i \in DOMAIN b : ~(i < 1) /\ \A j \in DOMAIN b[i].scopes : ~(j < 1)
  BY <1>2, Levels
<1>6. SolidInv'
  BY <1>1, <1>4, <1>5 DEF SolidInv
<1>7. QED
  BY <1>3, <1>6 DEF Envelopes

LEMMA NextEnvelopes ==
  ASSUME IInv, Envelopes, [Next]_vars
  PROVE  Envelopes'
<1>1. ASSUME UNCHANGED <<phase, batch, original, ruleset, at>>
      PROVE  Envelopes'
  BY <1>1 DEF Envelopes, OrderInv, SolidInv, Solid
<1>2. CASE publishes < MaxPublishes[signal] /\ \E rules \in Republished[signal] : Publish(rules)
  BY <1>1, <1>2 DEF Publish, work, history
<1>3. CASE Receive
  BY <1>3, ConsumeEnvelopes DEF Receive
<1>4. CASE Retry
  BY <1>4, ConsumeEnvelopes DEF Retry, IInv, RestInv
<1>5. CASE GiveUp
  <2>1. batch' = << >> /\ phase' = "idle"
    BY <1>5 DEF GiveUp, IInv, RestInv
  <2>2. QED
    BY <2>1, EmptyOrder DEF Envelopes, OrderInv, SolidInv
<1>6. CASE Walk
  BY <1>6, WalkEnvelopes
<1>7. CASE Observe
  <2>1. phase = "observe" /\ phase' = "forward" /\ UNCHANGED <<batch, original, ruleset>>
    BY <1>7 DEF Observe, history
  <2>2. QED
    BY <2>1 DEF Envelopes, OrderInv, SolidInv, Solid
<1>8. CASE Forward \/ ForwardFails
  <2>1. batch' = << >> /\ phase' \in {"idle", "refused"}
    BY <1>8 DEF Forward, ForwardFails, Return
  <2>2. QED
    BY <2>1, EmptyOrder DEF Envelopes, OrderInv, SolidInv
<1>9. CASE UNCHANGED vars
  BY <1>1, <1>9 DEF vars, work, history
<1>10. QED
  BY <1>2, <1>3, <1>4, <1>5, <1>6, <1>7, <1>8, <1>9 DEF Next

LEMMA InitEnvelopes ==
  ASSUME Init
  PROVE  Envelopes
BY EmptyOrder DEF Init, Envelopes, OrderInv, SolidInv

LEMMA EnvelopesInductive == Spec => []Envelopes
<1>1. Init => Envelopes
  BY InitEnvelopes
<1>2. IInv /\ Envelopes /\ [Next]_vars => Envelopes'
  BY NextEnvelopes
<1>3. QED
  BY <1>1, <1>2, Inductive, PTL DEF Spec

-----------------------------------------------------------------------------
(* What it shows. *)

\* A record that survives is the same as the original with its id.
LEMMA SameAsOriginal ==
  ASSUME IInv, NEW x \in Records(batch), NEW y \in Records(original),
         x.record.id = y.record.id
  PROVE  Same(x, y)
<1>1. PICK z \in Records(original) : Same(x, z)
  BY DEF IInv, SameInv
<1>2. z.record.id = y.record.id
  BY <1>1 DEF Same
<1>3. z = y
  <2>1. original # << >>
    BY EmptyBatch
  <2>2. IsBatch(original)
    BY <2>1, InputAssumption DEF IInv, TypeInv
  <2>3. QED
    BY <1>2, <2>2 DEF IsBatch, Records
<1>4. QED
  BY <1>1, <1>3

\* Once the walk is over, every rule is obeyed on every record.
LEMMA AllObeyed ==
  ASSUME IInv, phase # "apply", NEW x \in Records(batch), NEW n \in DOMAIN ruleset
  PROVE  Obeyed(n, x, paid)
<1>1. PICK i, j, k : In(batch, i, j, k) /\ x = X(batch, i, j, k)
  BY RecordsAre
<1>2. Passed(i, j, k, n)
  BY DEF Passed
<1>3. QED
  BY <1>1, <1>2 DEF IInv, PassedInv, In, Obeyed

\* TypeOK, for batches and rulesets of any size: the walk stays within its
\* batch, which only ever loses records, and the counters only grow.
THEOREM TypeCorrect == Spec => []TypeOK
<1>1. ASSUME IInv PROVE TypeOK
  <2>1. Ids(batch) \subseteq Ids(original)
    <3>1. ASSUME NEW x \in Records(batch)
          PROVE  x.record.id \in Ids(original)
      BY <1>1 DEF IInv, SameInv, Same, Ids
    <3>2. QED
      BY <3>1 DEF Ids
  <2>2. signal \in Signal
    BY <1>1, InputAssumption DEF IInv, TypeInv
  <2>3. QED
    BY <1>1, <2>1, <2>2 DEF IInv, TypeInv, TypeOK
<1>2. QED
  BY <1>1, Inductive, PTL

\* evaluateSpan and its siblings: whatever the order of the rules, whatever is
\* published during the call and whichever records are removed around it, a
\* record that a DROP rule matched when it came is gone, if no other rule
\* rewrites the rule's field; and if no other rule can remove records, nothing
\* else is.
THEOREM DropsIndependent == Spec => []DropsAreIndependentFilters
<1>1. ASSUME IInv PROVE DropsAreIndependentFilters
  <2> SUFFICES ASSUME Finished
               PROVE  LET drops == Untouched(Acting({"DROP"}))
                          hit   == {x.record.id : x \in {y \in Records(original) :
                                                           \E r \in drops : Matches(r, y)}}
                      IN  /\ hit \cap Ids(batch) = {}
                          /\ Acting({"DROP", "SAMPLE", "THROTTLE"}) = drops =>
                               Ids(batch) = Ids(original) \ hit
    BY DEF DropsAreIndependentFilters
  <2> DEFINE drops == Untouched(Acting({"DROP"}))
             hit   == {x.record.id : x \in {y \in Records(original) :
                                              \E r \in drops : Matches(r, y)}}
  <2>1. TypeInv /\ LostInv /\ phase = "forward"
    BY <1>1 DEF IInv, Finished
  <2>2. ASSUME NEW x \in Records(batch), NEW y \in Records(original),
               x.record.id = y.record.id, NEW r \in drops, Matches(r, y)
        PROVE  FALSE
    <3>1. Same(x, y)
      BY <1>1, <2>2, SameAsOriginal
    <3>2. PICK n \in DOMAIN ruleset : r = ruleset[n]
      BY ActingAre DEF Untouched
    <3>3. ~Matches(r, x)
      BY <1>1, <2>1, <3>2, AllObeyed DEF Obeyed, Undropped
    <3>4. r.field \in STRING \ Written
      BY <2>1, <3>2, RuleType DEF Untouched
    <3>5. QED
      BY <2>2, <3>1, <3>3, <3>4, SameMatches
  <2>3. hit \cap Ids(batch) = {}
    BY <2>2 DEF Ids
  <2>4. Ids(batch) \subseteq Ids(original)
    BY <1>1 DEF IInv, SameInv, Same, Ids
  <2>5. ASSUME Acting({"DROP", "SAMPLE", "THROTTLE"}) = drops, NEW y \in Records(original),
               y.record.id \notin hit
        PROVE  y.record.id \in Ids(batch)
    <3>1. ~Removable(y)
      BY <2>5 DEF Removable
    <3>2. QED
      BY <2>1, <3>1 DEF LostInv
  <2>6. Acting({"DROP", "SAMPLE", "THROTTLE"}) = drops => Ids(batch) = Ids(original) \ hit
    <3> HIDE DEF hit, drops
    <3>1. ASSUME Acting({"DROP", "SAMPLE", "THROTTLE"}) = drops
          PROVE  Ids(original) \ hit \subseteq Ids(batch)
      BY <2>5, <3>1 DEF Ids
    <3>2. QED
      BY <2>3, <2>4, <3>1
  <2>7. QED
    BY <2>3, <2>6
<1>2. QED
  BY <1>1, Inductive, PTL

\* redactAttribute and redactLogField: no record leaves with a field that an
\* enforced REDACT rule matches, unless it is the mask, and no field moves.
THEOREM RedactedForGood == Spec => []MaskedWhereResolved
<1>1. ASSUME IInv PROVE MaskedWhereResolved
  <2>1. ASSUME Finished, NEW x \in Records(batch), NEW rule \in Acting({"REDACT"}),
               rule.field = Destination => Acting({"ROUTE"}) = {}
        PROVE  /\ MasksUnnamed /\ Matches(rule, x) =>
                    Resolve(rule.field, x.record, x.attrs) = Redacted
               /\ \A y \in Records(original) :
                    y.record.id = x.record.id =>
                      Place(rule.field, x.record, x.attrs) = Place(rule.field, y.record, y.attrs)
    <3>1. PICK n \in DOMAIN ruleset : rule = ruleset[n]
      BY ActingAre
    <3>2. Fixed(rule.field) /\ rule.field \in STRING
      BY <1>1, <2>1, <3>1, RuleType DEF Fixed, IInv
    <3>3. Masked(n, x)
      BY <1>1, <2>1, AllObeyed DEF Finished, Obeyed
    <3>4. ASSUME NEW y \in Records(original), y.record.id = x.record.id
          PROVE  Place(rule.field, x.record, x.attrs) = Place(rule.field, y.record, y.attrs)
      <4>1. Same(x, y)
        BY <1>1, <3>4, SameAsOriginal
      <4>2. QED
        BY <3>2, <4>1 DEF Same
    <3>5. QED
      BY <3>1, <3>2, <3>3, <3>4 DEF Masked
  <2>2. QED
    BY <2>1 DEF MaskedWhereResolved
<1>2. QED
  BY <1>1, Inductive, PTL

\* throttleKey and throttleKeyMetric: a record that matches an enforced THROTTLE
\* rule on a field no rule rewrites leaves only for a token of that rule; the
\* bucket is the one of the group it arrived with, whatever names the group -
\* an attribute, the metric's name, nothing - unless a rule rewrites that.
THEOREM ThrottledByGroup == Spec => []NobodyDodgesThrottle
<1>1. ASSUME IInv PROVE NobodyDodgesThrottle
  <2>1. ASSUME Finished, NEW y \in Records(original), NEW n \in DOMAIN ruleset,
               ruleset[n] \in Untouched(Acting({"THROTTLE"})), Matches(ruleset[n], y),
               y.record.id \in Ids(batch)
        PROVE  \E token \in paid :
                 /\ token[1] = y.record.id /\ token[2] = n
                 /\ ruleset[n].groupBy \notin Written => token[3] = Group(ruleset[n].groupBy, y)
    <3>1. PICK x \in Records(batch) : x.record.id = y.record.id
      BY <2>1 DEF Ids
    <3>2. Same(x, y)
      BY <1>1, <3>1, SameAsOriginal
    <3>3. (Due(n, x) <=> Due(n, y)) /\ \A key : Charged(n, x, key) <=> Charged(n, y, key)
      BY <1>1, <3>2, SameObligations DEF IInv
    <3>4. Due(n, y)
      BY <2>1 DEF Due
    <3>5. PICK key : <<x.record.id, n, key>> \in paid /\ Charged(n, x, key)
      BY <1>1, <2>1, <3>3, <3>4, AllObeyed DEF Finished, Obeyed
    <3>6. Charged(n, y, key) /\ <<y.record.id, n, key>> \in paid
      BY <3>1, <3>3, <3>5
    <3>7. QED
      BY <3>6 DEF Charged
  <2>2. QED
    BY <2>1 DEF NobodyDodgesThrottle
<1>2. QED
  BY <1>1, Inductive, PTL

\* applyRulesToSpan and its siblings, and the RemoveIf around them: whatever was
\* removed, by whatever rules, what is left holds no hollow resource or scope,
\* and its records are together and in order as they were when they arrived.
THEOREM EnvelopesAreKept == Spec => []EnvelopesKept
<1>1. ASSUME IInv, Envelopes PROVE EnvelopesKept
  <2> SUFFICES ASSUME Finished, ruleset # << >>
               PROVE  /\ \A i \in DOMAIN batch :
                           /\ batch[i].scopes # << >>
                           /\ \A s \in ToSet(batch[i].scopes) : s # << >>
                      /\ SameOrder(batch, original)
    BY DEF EnvelopesKept
  <2>1. batch \in Seq(Envelope)
    BY <1>1 DEF IInv, TypeInv
  <2>2. ASSUME NEW i \in DOMAIN batch
        PROVE  batch[i].scopes # << >> /\ \A s \in ToSet(batch[i].scopes) : s # << >>
    <3>1. /\ DOMAIN batch[i].scopes # {}
          /\ \A j \in DOMAIN batch[i].scopes : DOMAIN batch[i].scopes[j] # {}
      BY <1>1 DEF Envelopes, SolidInv, Solid, Finished
    <3>2. /\ batch[i].scopes # << >>
          /\ \A j \in DOMAIN batch[i].scopes : batch[i].scopes[j] # << >>
      BY <2>1, <3>1, Hollow
    <3>3. QED
      BY <3>2 DEF ToSet
  <2>3. QED
    BY <1>1, <2>2 DEF Envelopes, OrderInv
<1>2. QED
  BY <1>1, Inductive, EnvelopesInductive, PTL

\* observeTraces / Logs / Metrics: between two calls what was received was
\* dropped, delivered or refused, however many batches were refused and retried.
THEOREM CountedOnce == Spec => []CountsAddUp
<1>1. ASSUME IInv PROVE CountsAddUp
  <2>1. ASSUME phase \in {"idle", "refused"}
        PROVE  received = dropped + delivered + refused
    <3>1. received = dropped + delivered + refused + 0
      BY <1>1, <2>1 DEF IInv, CountInv
    <3>2. dropped \in Nat /\ delivered \in Nat /\ refused \in Nat
      BY <1>1 DEF IInv, TypeInv
    <3>3. QED
      BY ONLY <3>1, <3>2
  <2>2. QED
    BY <2>1 DEF CountsAddUp
<1>2. QED
  BY <1>1, Inductive, PTL
=============================================================================
