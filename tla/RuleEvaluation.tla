--------------------------- MODULE RuleEvaluation ---------------------------
(***************************************************************************)
(* One consume call of a signal processor (ConsumeTraces / Logs /          *)
(* Metrics): it takes the published ruleset once, walks the batch record   *)
(* by record and rule by rule, removes records, rewrites fields on records *)
(* and on their shared resource, prunes what it emptied, counts, and hands *)
(* the rest on.  The sync goroutine may publish another ruleset between    *)
(* any two steps.  One module for the three signals: they differ in where  *)
(* a field lives and in which actions they enforce.                        *)
(***************************************************************************)
EXTENDS Rules, Sequences, FiniteSets, SequencesExt

CONSTANTS
  Ruleset,      \* per signal, rulesets the control plane may serve
  Batch,        \* per signal, batches the receiver may hand over
  Number,       \* atoms that are numerals -> their value
  Bucket,       \* trace ID -> traceIDBucket, in 0..99
  Republished,  \* per signal, rulesets served later
  MaxPublishes, \* bound per signal: rulesets published while batches are evaluated
  MaxBatches,   \* bound: batches received
  MaxRefusals   \* bound per signal: batches the next consumer refuses

Destination == "pulse.routing.destination"
Redacted        == {"[REDACTED]"}
RedactedPattern == "[REDACTED_PATTERN]"
DefaultKey == {"default"}

VARIABLES
  signal,     \* the signal of this processor
  published,  \* the engine's ruleset
  ruleset,    \* the snapshot this call evaluates
  phase,      \* where the call is
  batch,      \* resources, their scopes, their records
  at,         \* resource, scope, record and rule under evaluation
  received, dropped,  \* the interval counters of the signal
  original,   \* history: the batch as it arrived
  paid,       \* history: tokens taken, per record, rule and bucket
  delivered,  \* history: records the next consumer took
  refused,    \* history: records the next consumer refused
  publishes, batches, refusals

work    == <<phase, batch, at>>
history == <<original, paid, delivered, refused>>
bounds  == <<publishes, batches, refusals>>
vars    == <<signal, published, ruleset, work, received, dropped, history, bounds>>

Start  == [resource |-> 1, scope |-> 1, record |-> 1, rule |-> 1]

\* Where the records of a batch are - resource, scope, index - and each record
\* with the attributes of its resource.
Positions(b) ==
  UNION {UNION {{<<i, j, k>> : k \in DOMAIN b[i].scopes[j]} : j \in DOMAIN b[i].scopes}
           : i \in DOMAIN b}
RecordAt(b, p) == [record |-> b[p[1]].scopes[p[2]][p[3]], attrs |-> b[p[1]].attrs]
Count(b) == Cardinality(Positions(b))

\* Go's types, names and texts being strings and sets of them; the id of a
\* record only tells it from the others.
Text == SUBSET STRING
IsMap(f) == DOMAIN f \subseteq STRING /\ f \in [DOMAIN f -> Text]
IsRecord(r) ==
  /\ r = [id |-> r.id, trace |-> r.trace, virtual |-> r.virtual, attrs |-> r.attrs]
  /\ r.id \in Nat /\ r.trace \in DOMAIN Bucket /\ IsMap(r.virtual) /\ IsMap(r.attrs)
IsResource(res) ==
  /\ res = [attrs |-> res.attrs, scopes |-> res.scopes]
  /\ IsMap(res.attrs) /\ res.scopes \in Seq(ToSet(res.scopes))
  /\ \A s \in ToSet(res.scopes) : s \in Seq(ToSet(s)) /\ \A r \in ToSet(s) : IsRecord(r)
IsBatch(b) ==
  /\ b \in Seq(ToSet(b)) /\ \A res \in ToSet(b) : IsResource(res)
  /\ \A p, q \in Positions(b) : RecordAt(b, p).record.id = RecordAt(b, q).record.id => p = q
IsRuleset(rules) ==
  /\ rules \in Seq(ToSet(rules))
  /\ \A rule \in ToSet(rules) :
       {rule.field, rule.groupBy} \subseteq STRING /\ {rule.value, rule.destination} \subseteq Text

ASSUME InputAssumption ==
  /\ DOMAIN Ruleset \subseteq Signal
  /\ DOMAIN Batch = DOMAIN Ruleset /\ DOMAIN Republished = DOMAIN Ruleset
  /\ \A sig \in DOMAIN Ruleset :
       /\ \A rules \in Ruleset[sig] \cup Republished[sig] : IsRuleset(rules)
       /\ \A b \in Batch[sig] : IsBatch(b)
ASSUME NumberAssumption ==
  Number \in [DOMAIN Number -> Int] /\ DOMAIN Number \cap (Redacted \cup {RedactedPattern}) = {}
ASSUME BucketAssumption == \A t \in DOMAIN Bucket : Bucket[t] \in 0..99
ASSUME BoundsAssumption ==
  /\ MaxBatches \in Nat
  /\ MaxPublishes \in [DOMAIN Ruleset -> Nat] /\ MaxRefusals \in [DOMAIN Ruleset -> Nat]

Init ==
  /\ signal \in DOMAIN Ruleset /\ published \in Ruleset[signal] /\ ruleset = << >>
  /\ phase = "idle" /\ batch = << >> /\ at = Start
  /\ received = 0 /\ dropped = 0
  /\ original = << >> /\ paid = {} /\ delivered = 0 /\ refused = 0
  /\ publishes = 0 /\ batches = 0 /\ refusals = 0

-----------------------------------------------------------------------------
(* What a rule means. *)

\* ruleApplies of this processor's signal.
Applies(rule) == AppliesTo(rule, signal)

IsNumber(text) == \E a \in DOMAIN Number : text = {a}
AsFloat(text)  == Number[CHOOSE a \in DOMAIN Number : text = {a}]

\* matchConditionValue / matchConditionString; an unknown operator never matches.
MatchValue(rule, text) ==
  \/ rule.op = "EXISTS"
  \/ rule.op = "EQUALS" /\ text = rule.value
  \/ rule.op = "CONTAINS" /\ rule.value \subseteq text
  \/ /\ rule.op = "GREATER_THAN" /\ IsNumber(text) /\ IsNumber(rule.value)
     /\ AsFloat(text) > AsFloat(rule.value)
  \/ HasRegex(rule) /\ text \cap rule.value # {}

\* Fields a record has beside its attributes; they hide attributes of the same
\* name and never fall back to the resource.
Virtual ==
  CASE signal = "TRACES"  -> {}
    [] signal = "LOGS"    -> {"log.severity", "log.body"}
    [] signal = "METRICS" -> {"metric.name"}

\* Where a condition field is found: on the record, else on its resource.
Place(field, record, attrs) ==
  CASE field \in Virtual -> IF field \in DOMAIN record.virtual THEN "virtual" ELSE "none"
    [] field \notin Virtual ->
         IF signal # "METRICS" /\ field \in DOMAIN record.attrs THEN "record"
         ELSE IF field \in DOMAIN attrs THEN "resource" ELSE "none"

Resolve(field, record, attrs) ==
  LET place == Place(field, record, attrs) IN
  CASE place = "virtual"  -> record.virtual[field]
    [] place = "record"   -> record.attrs[field]
    [] place = "resource" -> attrs[field]

\* evaluateCondition / logConditionMatches / metricConditionMatches.
ConditionMatches(rule, record, attrs) ==
  /\ Place(rule.field, record, attrs) # "none"
  /\ MatchValue(rule, Resolve(rule.field, record, attrs))

\* The keep decision of a SAMPLE rule.
SampledIn(rule, record) == Bucket[record.trace] < Threshold(rule.sampleRate)

\* No field to group by: all records pay from one bucket.
NoGroup == ""

\* Mutant: metrics are grouped by what their resource says alone.
MutantKeyOfResource(rule, record, attrs) ==
  LET g   == rule.groupBy
      own == IF signal # "METRICS" THEN record.attrs ELSE << >>
  IN  CASE g = NoGroup -> DefaultKey
        [] g # NoGroup /\ g \in DOMAIN own -> own[g]
        [] g # NoGroup /\ g \in DOMAIN attrs \ DOMAIN own -> attrs[g]
        [] OTHER -> DefaultKey

\* throttleKey / throttleKeyMetric.  For spans and logs a group is an attribute
\* whatever its name; for metrics "metric.name" is the name.
ThrottleKey(rule, record, attrs) ==
  LET g      == rule.groupBy
      own    == IF signal # "METRICS" THEN record.attrs
                ELSE [f \in DOMAIN record.virtual \cap {"metric.name"} |-> record.virtual[f]]
      shared == [f \in DOMAIN attrs \ (Virtual \cap {"metric.name"}) |-> attrs[f]]
  IN  CASE g = NoGroup -> DefaultKey
        [] g # NoGroup /\ g \in DOMAIN own -> own[g]
        [] g # NoGroup /\ g \in DOMAIN shared \ DOMAIN own -> shared[g]
        [] OTHER -> DefaultKey

\* The value a REDACT rule leaves: matches masked, or the whole value.
Mask(rule, text) ==
  IF rule.op = "REGEX_MATCH" THEN (text \ rule.value) \cup {RedactedPattern} ELSE Redacted

PutStr(attrs, field, text) ==
  [f \in DOMAIN attrs \cup {field} |-> IF f = field THEN text ELSE attrs[f]]

-----------------------------------------------------------------------------
(* The engine and the consume call. *)

\* syncOnce swaps the shared ruleset.
Publish(rules) ==
  /\ rules # published
  /\ published' = rules /\ publishes' = publishes + 1
  /\ UNCHANGED <<signal, ruleset, work, received, dropped, history, batches, refusals>>

\* Consume, on an idle processor: snapshotRules, then the walk if there is any rule.
Consume(b) ==
  /\ ruleset' = published
  /\ batch' = b /\ original' = b /\ at' = Start /\ paid' = {}
  /\ phase' = IF published = << >> THEN "observe" ELSE "apply"
  /\ UNCHANGED <<signal, published, received, dropped, delivered, refused, publishes, refusals>>

\* The receiver passes on a new batch ...
Receive ==
  /\ phase = "idle" /\ batches < MaxBatches
  /\ batches' = batches + 1
  /\ \E b \in Batch[signal] : Consume(b)

\* ... or, after an error, the sender's copy once more, or never.
Retry  == phase = "refused" /\ Consume(original) /\ UNCHANGED batches
GiveUp ==
  /\ phase = "refused"
  /\ phase' = "idle" /\ original' = << >>
  /\ UNCHANGED <<signal, published, ruleset, batch, at, received, dropped, paid,
                 delivered, refused, bounds>>

AtResource == phase = "apply" /\ at.resource \in DOMAIN batch
Resource   == batch[at.resource]
AtScope    == AtResource /\ at.scope \in DOMAIN Resource.scopes
Scope      == Resource.scopes[at.scope]
AtRecord   == AtScope /\ at.record \in DOMAIN Scope
Record     == Scope[at.record]
AtRule     == AtRecord /\ at.rule \in DOMAIN ruleset
\* Mutant: the walk reads the shared ruleset, not its snapshot.
MutantLiveRule == IF at.rule \in DOMAIN published THEN published[at.rule] ELSE ruleset[at.rule]
Rule       == ruleset[at.rule]

Hit == AtRule /\ Applies(Rule) /\ ConditionMatches(Rule, Record, Resource.attrs)

walk == <<signal, published, ruleset, phase, received, dropped, original,
          delivered, refused, bounds>>

NextRule == at' = [at EXCEPT !.rule = @ + 1]

\* RemoveIf drops the record; the one behind it takes its place.
RemoveRecord ==
  /\ batch' = [batch EXCEPT ![at.resource].scopes[at.scope] = RemoveAt(@, at.record)]
  /\ at' = [at EXCEPT !.rule = 1]

\* A rule that is not enforced or does not match.
SkipRule == AtRule /\ ~Hit /\ NextRule /\ UNCHANGED <<walk, batch, paid>>

Drop == Hit /\ Rule.action = "DROP" /\ RemoveRecord /\ UNCHANGED <<walk, paid>>

Sample ==
  /\ Hit /\ Rule.action = "SAMPLE"
  /\ IF SampledIn(Rule, Record) THEN NextRule /\ UNCHANGED batch ELSE RemoveRecord
  /\ UNCHANGED <<walk, paid>>

\* limiterGroup.allow may answer either way: other goroutines use the buckets.
Throttle ==
  LET key == ThrottleKey(Rule, Record, Resource.attrs) IN
  /\ Hit /\ Rule.action = "THROTTLE"
  /\ \/ NextRule /\ paid' = paid \cup {<<Record.id, at.rule, key>>} /\ UNCHANGED batch
     \/ RemoveRecord /\ UNCHANGED paid
  /\ UNCHANGED walk

\* Mutant: the mask always goes to the record.
MutantMaskOnRecord ==
  LET f == Rule.field IN
  /\ Hit /\ Rule.action = "REDACT"
  /\ batch' = [batch EXCEPT ![at.resource].scopes[at.scope][at.record].attrs =
                 PutStr(@, f, Mask(Rule, Resolve(f, Record, Resource.attrs)))]
  /\ NextRule /\ UNCHANGED <<walk, paid>>

\* redactAttribute / redactLogField: rewrite the field where it was found.
Redact ==
  LET f    == Rule.field
      mask == Mask(Rule, Resolve(f, Record, Resource.attrs))
      masked ==
        CASE Place(f, Record, Resource.attrs) = "virtual" ->
               [Resource EXCEPT !.scopes[at.scope][at.record].virtual[f] = mask]
          [] Place(f, Record, Resource.attrs) = "record" ->
               [Resource EXCEPT !.scopes[at.scope][at.record].attrs[f] = mask]
          [] OTHER -> [Resource EXCEPT !.attrs[f] = mask]
  IN
  /\ Hit /\ Rule.action = "REDACT"
  /\ batch' = [batch EXCEPT ![at.resource] = masked]
  /\ NextRule /\ UNCHANGED <<walk, paid>>

\* Stamp the resource.
Route ==
  /\ Hit /\ Rule.action = "ROUTE"
  /\ batch' = [batch EXCEPT ![at.resource].attrs =
                 PutStr(@, Destination, Rule.destination)]
  /\ NextRule /\ UNCHANGED <<walk, paid>>

\* Mutant: the next record starts at rule 0.
MutantKeepFromZero ==
  /\ AtRecord /\ ~AtRule
  /\ at' = [at EXCEPT !.record = @ + 1, !.rule = 0]
  /\ UNCHANGED <<walk, batch, paid>>

\* No rule removed the record.
KeepRecord ==
  /\ AtRecord /\ ~AtRule
  /\ at' = [at EXCEPT !.record = @ + 1, !.rule = 1]
  /\ UNCHANGED <<walk, batch, paid>>

\* Mutant: empty scopes stay.
MutantKeepHollow ==
  /\ AtScope /\ ~AtRecord
  /\ at' = [at EXCEPT !.scope = @ + 1, !.record = 1]
  /\ UNCHANGED <<walk, batch, paid>>

\* RemoveIf on scopes and on resources: prune what is empty.
EndScope ==
  /\ AtScope /\ ~AtRecord
  /\ IF Scope = << >>
     THEN /\ batch' = [batch EXCEPT ![at.resource].scopes = RemoveAt(@, at.scope)]
          /\ at' = [at EXCEPT !.record = 1]
     ELSE at' = [at EXCEPT !.scope = @ + 1, !.record = 1] /\ UNCHANGED batch
  /\ UNCHANGED <<walk, paid>>

EndResource ==
  /\ AtResource /\ ~AtScope
  /\ IF Resource.scopes = << >>
     THEN batch' = RemoveAt(batch, at.resource) /\ at' = [at EXCEPT !.scope = 1]
     ELSE at' = [at EXCEPT !.resource = @ + 1, !.scope = 1] /\ UNCHANGED batch
  /\ UNCHANGED <<walk, paid>>

EndBatch ==
  /\ phase = "apply" /\ ~AtResource
  /\ phase' = "observe"
  /\ UNCHANGED <<signal, published, ruleset, batch, at, received, dropped,
                 history, bounds>>

\* Mutant: the batch is counted after the rules have run.
MutantCountAfter ==
  /\ phase = "observe"
  /\ received' = received + Count(batch)
  /\ dropped'  = dropped + (Count(original) - Count(batch))
  /\ phase' = "forward"
  /\ UNCHANGED <<signal, published, ruleset, batch, at, history, bounds>>

\* observeTraces / Logs / Metrics.
Observe ==
  /\ phase = "observe"
  /\ received' = received + Count(original)
  /\ dropped'  = dropped + (Count(original) - Count(batch))
  /\ phase' = "forward"
  /\ UNCHANGED <<signal, published, ruleset, batch, at, history, bounds>>

\* The consume call returns.
Return ==
  /\ batch' = << >> /\ paid' = {} /\ ruleset' = << >> /\ at' = Start
  /\ UNCHANGED <<signal, published, received, dropped, publishes, batches>>

\* Hand the survivors on, unless there are none: nil means acknowledged.
Forward ==
  /\ phase = "forward"
  /\ delivered' = delivered + Count(batch)
  /\ phase' = "idle" /\ original' = << >>
  /\ Return /\ UNCHANGED <<refused, refusals>>

\* The next consumer fails: its error goes back to the sender.
ForwardFails ==
  /\ phase = "forward" /\ Count(batch) # 0 /\ refusals < MaxRefusals[signal]
  /\ refused' = refused + Count(batch) /\ refusals' = refusals + 1
  /\ phase' = "refused"
  /\ Return /\ UNCHANGED <<original, delivered>>

-----------------------------------------------------------------------------
Evaluate == SkipRule \/ Drop \/ Sample \/ Throttle \/ Redact \/ Route

Walk == Evaluate \/ KeepRecord \/ EndScope \/ EndResource \/ EndBatch

Next ==
  \/ publishes < MaxPublishes[signal] /\ \E rules \in Republished[signal] : Publish(rules)
  \/ Receive \/ Retry \/ GiveUp
  \/ Walk \/ Observe \/ Forward \/ ForwardFails

Spec == Init /\ [][Next]_vars

-----------------------------------------------------------------------------
(* Properties. *)

Finished == phase = "forward"
Enforced == {rule \in {ruleset[n] : n \in DOMAIN ruleset} : Applies(rule)}
Acting(actions) == {rule \in Enforced : rule.action \in actions}

Records(b) == {RecordAt(b, p) : p \in Positions(b)}
Ids(b) == {x.record.id : x \in Records(b)}
Matches(rule, x) == ConditionMatches(rule, x.record, x.attrs)

\* The fields that enforced rules rewrite.
Written ==
  {rule.field : rule \in Acting({"REDACT"})}
    \cup (IF Acting({"ROUTE"}) = {} THEN {} ELSE {Destination})
Untouched(rules) == {rule \in rules : rule.field \notin Written}

\* No REDACT rule looks for a mask.
MasksUnnamed ==
  \A rule \in Acting({"REDACT"}) : rule.value \cap (Redacted \cup {RedactedPattern}) = {}

\* An attribute of a span or log record, its own or its resource's.
Attribute(name, x) ==
  CASE name \in DOMAIN x.record.attrs -> x.record.attrs[name]
    [] name \in DOMAIN x.attrs \ DOMAIN x.record.attrs -> x.attrs[name]
    [] OTHER -> DefaultKey

\* The bucket of a record: what conditions find under the name of its group, or
\* else the default one.  "The same precedence conditions resolve with"
\* (throttleKey) fails for a log record's severity and body: conditions look at
\* the record, the group is an attribute that happens to have that name.
Group(name, x) ==
  CASE name = NoGroup -> DefaultKey
    [] name # NoGroup /\ signal = "LOGS" /\ name \in Virtual -> Attribute(name, x)
    [] name # NoGroup /\ ~(signal = "LOGS" /\ name \in Virtual) ->
         IF Place(name, x.record, x.attrs) = "none" THEN DefaultKey
         ELSE Resolve(name, x.record, x.attrs)

\* Type correctness: the walk stays within its batch, which only ever loses
\* records.
TypeOK ==
  /\ signal \in Signal
  /\ phase \in {"idle", "apply", "observe", "forward", "refused"}
  /\ Count(batch) <= Count(original) /\ Ids(batch) \subseteq Ids(original)
  /\ at \in [{"resource", "scope", "record", "rule"} -> Nat \ {0}]
  /\ received \in Nat /\ dropped \in Nat /\ delivered \in Nat /\ refused \in Nat
  /\ publishes \in 0..MaxPublishes[signal] /\ batches \in 0..MaxBatches
  /\ refusals \in 0..MaxRefusals[signal]

\* "Rules are independent filters: a span survives only if no rule drops it"
\* (evaluateSpan), for DROP rules whose field no other rule rewrites: whatever
\* their order, whatever is published meanwhile and whichever records are
\* removed around it, a record of the batch that matches one is gone; and when
\* no other rule can remove a record, the ones that match none are all there.
DropsAreIndependentFilters ==
  Finished =>
    LET drops == Untouched(Acting({"DROP"}))
        hit   == {x.record.id : x \in {y \in Records(original) : \E r \in drops : Matches(r, y)}}
    IN  /\ hit \cap Ids(batch) = {}
        /\ Acting({"DROP", "SAMPLE", "THROTTLE"}) = drops => Ids(batch) = Ids(original) \ hit

\* REDACT: no record leaves with a field that an enforced REDACT rule matches,
\* looked up the way the rule looks it up, unless it is the mask - even where
\* several records share the field on their resource; and the mask replaces the
\* value where the value was, "the attribute exists once".  (A ROUTE rule may
\* write the destination attribute again, and a rule that looks for a mask may
\* mask it.)
MaskedWhereResolved ==
  Finished =>
    \A x \in Records(batch), rule \in Acting({"REDACT"}) :
      (rule.field = Destination => Acting({"ROUTE"}) = {}) =>
        /\ MasksUnnamed /\ Matches(rule, x) => Resolve(rule.field, x.record, x.attrs) = Redacted
        /\ \A y \in Records(original) :
             y.record.id = x.record.id =>
               Place(rule.field, x.record, x.attrs) = Place(rule.field, y.record, y.attrs)

\* THROTTLE: "a producer cannot dodge its tenant's limit by simply not sending
\* tenant_id" (throttleKey), nor a nameless metric (throttleKeyMetric).  A record
\* that matches an enforced THROTTLE rule whose field no rule rewrites leaves
\* only for a token of that rule; and unless the group is rewritten, the token
\* is from the bucket of the group the record arrived with - its metric name,
\* its own attribute, its resource's, or the default bucket if it has none or
\* the rule names none.
NobodyDodgesThrottle ==
  Finished =>
    \A x \in Records(original), n \in DOMAIN ruleset :
      LET rule == ruleset[n] IN
      /\ rule \in Untouched(Acting({"THROTTLE"})) /\ Matches(rule, x)
      /\ x.record.id \in Ids(batch)
      => \E token \in paid :
           /\ token[1] = x.record.id /\ token[2] = n
           /\ rule.groupBy \notin Written => token[3] = Group(rule.groupBy, x)

\* What is left keeps its place: no hollow scope or resource stays, records of
\* one resource or scope still share it, those of two still do not, and
\* resources, scopes and records follow each other as they did when they
\* arrived.  (Two positions are together down to a level of the nesting, and in
\* order at the next.)
Together(p, q, level) == \A m \in 1..level : p[m] = q[m]
InOrder(p, q, level)  == Together(p, q, level - 1) /\ p[level] < q[level]
SameRecord(b, p, c, u) == RecordAt(b, p).record.id = RecordAt(c, u).record.id

SameOrder(b, c) ==
  \A p, q \in Positions(b), u, v \in Positions(c) :
    SameRecord(b, p, c, u) /\ SameRecord(b, q, c, v) =>
      \A level \in 1..3 : InOrder(p, q, level) <=> InOrder(u, v, level)

EnvelopesKept ==
  Finished /\ ruleset # << >> =>
    /\ \A i \in DOMAIN batch :
         batch[i].scopes # << >> /\ \A s \in ToSet(batch[i].scopes) : s # << >>
    /\ SameOrder(batch, original)

\* The heartbeat adds up: between two calls, what was received was dropped,
\* delivered or refused, whatever was published or failed meanwhile: an empty
\* batch is swallowed without being lost, and every attempt of a sender to get
\* a refused batch through is counted by what it alone brought and dropped.
CountsAddUp == phase \in {"idle", "refused"} => received = dropped + delivered + refused

\* SAMPLE (evaluateSpan): "traces are kept or dropped whole - never split into
\* orphaned children".
TracesKeptWhole ==
  Finished /\ Acting({"DROP", "THROTTLE"}) = {} =>
    \A x, y \in Records(original) :
      x.record.trace = y.record.trace =>
        (x.record.id \in Ids(batch) <=> y.record.id \in Ids(batch))

\* TestRouteLastMatchWins: "when two ROUTE rules match records under one resource
\* the destination reflects the later rule in sync order".
DestinationFromLaterRule ==
  Finished =>
    \A i \in DOMAIN batch, m, n \in DOMAIN ruleset :
      LET routes(k) ==
            /\ ruleset[k] \in Acting({"ROUTE"})
            /\ \E r \in UNION {ToSet(s) : s \in ToSet(batch[i].scopes)} :
                 ConditionMatches(ruleset[k], r, batch[i].attrs)
      IN  m < n /\ routes(m) /\ routes(n)
          /\ ruleset[m].destination # ruleset[n].destination =>
            batch[i].attrs[Destination] # ruleset[m].destination
=============================================================================
