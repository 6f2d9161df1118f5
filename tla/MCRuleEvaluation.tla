-------------------------- MODULE MCRuleEvaluation --------------------------
(* Small rulesets and batches for RuleEvaluation. *)
EXTENDS RuleEvaluation

\* An enforceable rule; the fields of its action are filled in where needed.
Base == [active |-> TRUE, signal |-> "TRACES", action |-> "DROP", sampleRate |-> Nil,
         destination |-> {}, throttleRate |-> Nil, groupBy |-> "", field |-> "user",
         op |-> "EXISTS", value |-> {}, compiles |-> TRUE]

Has(rule, a)    == [rule EXCEPT !.op = "CONTAINS", !.value = {a}]
Is(rule, text)  == [rule EXCEPT !.op = "EQUALS", !.value = text]
Like(rule, a)   == [rule EXCEPT !.op = "REGEX_MATCH", !.value = {a}]
On(rule, field) == [rule EXCEPT !.field = field]
DropRule     == Base
RedactRule   == [Base EXCEPT !.action = "REDACT"]
SampleRule(rate) == [Base EXCEPT !.action = "SAMPLE", !.sampleRate = rate]
RouteRule(d) == [Base EXCEPT !.action = "ROUTE", !.destination = {d}]
ThrottleRule(rate, g) ==
  [Base EXCEPT !.action = "THROTTLE", !.throttleRate = rate, !.groupBy = g]

AnySignal ==
  { Is(DropRule, {"a"}), Like(DropRule, "ssn"), On(DropRule, Destination),
    [Is(DropRule, {"7"}) EXCEPT !.op = "GREATER_THAN", !.value = {"5"}],
    [DropRule EXCEPT !.op = "NEWER_OPERATOR"],
    [Like(DropRule, "a") EXCEPT !.compiles = FALSE],
    RedactRule, Like(RedactRule, "ssn"),
    Has(RouteRule("hot"), "a"), RouteRule("cold"), [Base EXCEPT !.action = "ROUTE"],
    ThrottleRule(1, "user"), Has(ThrottleRule(1, "tenant"), "ssn"), ThrottleRule(1, ""),
    ThrottleRule(0, "") }

TracesOnly ==
  { SampleRule(500), Has(SampleRule(1500), "a"), Has(SampleRule(Nil), "a") }
LogsOnly ==
  { Like(On(RedactRule, "log.body"), "ssn"), Has(On(DropRule, "log.body"), "ssn"),
    On(ThrottleRule(1, "log.body"), "log.body") }
MetricsOnly ==
  { Is(On(DropRule, "metric.name"), {"ssn"}), On(ThrottleRule(1, "metric.name"), "metric.name") }

For(sig, rules) == {[rule EXCEPT !.signal = sig] : rule \in rules}
RulesOf ==
  [TRACES  |-> For("TRACES", AnySignal \cup TracesOnly),
   LOGS    |-> For("LOGS", AnySignal \cup LogsOnly),
   METRICS |-> For("METRICS", AnySignal \cup MetricsOnly)]

Others(sig) == For(CHOOSE other \in DOMAIN RulesOf : other # sig, {DropRule})
PairsFor(sig) == {<<r, t>> : r \in RulesOf[sig], t \in RulesOf[sig]} \cup {<<r>> : r \in Others(sig)}
MCRulesets ==
  [TRACES |-> PairsFor("TRACES"), LOGS |-> PairsFor("LOGS"), METRICS |-> PairsFor("METRICS")]

\* Published while metrics are evaluated, refused and retried.
MCRepublished ==
  [TRACES |-> {}, LOGS |-> {},
   METRICS |-> {<< >>} \cup {<<r>> : r \in For("METRICS",
     {Is(On(DropRule, "metric.name"), {"ssn"}), Is(DropRule, {"ssn"})})}]
MCPublishes == [TRACES |-> 0, LOGS |-> 0, METRICS |-> 2]
MCRefusals  == [TRACES |-> 0, LOGS |-> 0, METRICS |-> 1]

\* Attributes: absent, or one of a few texts.  One resource has attributes with
\* the names of virtual fields, and one without a name.
User(texts) == {<< >>} \cup {[user |-> t] : t \in texts}
OnRecord   == User({{"a"}, {"a", "ssn"}, {"7"}})
Odd        == [name \in {"", "log.body", "metric.name"} |-> {"x"}]
OnResource == User({{"ssn"}}) \cup {Odd @@ [tenant |-> {"x"}, user |-> {"a", "ssn"}]}

VirtualOf ==
  [TRACES  |-> {<< >>},
   LOGS    |-> {<< >>, ("log.body" :> {"a", "ssn"})},
   METRICS |-> {("metric.name" :> {"ssn"}), << >>}]

Rec(id, trace, virtual, attrs) ==
  [id |-> id, trace |-> trace, virtual |-> virtual, attrs |-> attrs]
Res(attrs, scopes) == [attrs |-> attrs, scopes |-> scopes]

\* Two records of one trace, one of another; in one scope, or spread over scopes
\* and resources, with an envelope that is hollow from the start.
Layouts(r1, r2, r3, a, b) ==
  { << Res(a, <<<<r1, r2>>, << >>, <<r3>>>>) >>,
    << Res(a, <<<<r1>>>>), Res(b, <<<<r2, r3>>>>) >> }

BatchesOf(sig) ==
  LET attrs == IF sig = "METRICS" THEN {<< >>} ELSE OnRecord
  IN  UNION { Layouts(Rec(1, "t1", v, p), Rec(2, "t1", << >>, q), Rec(3, "t2", v, p), a, << >>) :
                p \in attrs, q \in attrs, v \in VirtualOf[sig], a \in OnResource }

MCBatches ==
  [TRACES |-> BatchesOf("TRACES"), LOGS |-> BatchesOf("LOGS"), METRICS |-> BatchesOf("METRICS")]

MCNumber == [n \in {"5", "7"} |-> IF n = "5" THEN 5 ELSE 7]
MCBucket == [t \in {"t1", "t2"} |-> IF t = "t1" THEN 70 ELSE 30]
=============================================================================
