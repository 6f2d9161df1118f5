-------------------------------- MODULE Rules --------------------------------
(***************************************************************************)
(* What a compiled rule means to the data plane, for every component that  *)
(* handles rules: the processors that enforce them and the dashboard that  *)
(* says which of them are enforced.  A text is the set of the atoms it     *)
(* contains; sampling rates are in thousandths.                            *)
(***************************************************************************)
EXTENDS Integers

CONSTANT Nil  \* a JSON null

Signal == {"TRACES", "LOGS", "METRICS"}

\* compileRules: a pattern RE2 rejects leaves no regex, a THROTTLE rule without
\* a positive rate no limiters.
HasRegex(rule)    == rule.op = "REGEX_MATCH" /\ rule.compiles
HasLimiters(rule) == rule.throttleRate # Nil /\ rule.throttleRate > 0

ConditionUsable(rule) == rule.op # "REGEX_MATCH" \/ HasRegex(rule)

\* Mutant: metrics are not routed.
MutantMetricsNotRouted(rule, signal) ==
  /\ rule.active /\ rule.signal = signal /\ ConditionUsable(rule)
  /\ \/ rule.action = "DROP"
     \/ rule.action = "REDACT" /\ signal # "METRICS"
     \/ rule.action = "SAMPLE" /\ signal = "TRACES" /\ rule.sampleRate # Nil
     \/ rule.action = "ROUTE" /\ signal # "METRICS" /\ rule.destination # {}
     \/ rule.action = "THROTTLE" /\ HasLimiters(rule)

\* ruleAppliesTraces / Logs / Metrics.
AppliesTo(rule, signal) ==
  /\ rule.active /\ rule.signal = signal /\ ConditionUsable(rule)
  /\ \/ rule.action = "DROP"
     \/ rule.action = "REDACT" /\ signal # "METRICS"
     \/ rule.action = "SAMPLE" /\ signal = "TRACES" /\ rule.sampleRate # Nil
     \/ rule.action = "ROUTE" /\ rule.destination # {}
     \/ rule.action = "THROTTLE" /\ HasLimiters(rule)

\* Mutant: the rate is truncated to whole percent.
MutantTruncatedThreshold(rate) ==
  IF rate <= 0 THEN 0 ELSE IF rate >= 1000 THEN 100 ELSE rate \div 10

\* sampleKeepThreshold: how many of the 100 buckets a SAMPLE rule keeps.
Threshold(rate) == IF rate <= 0 THEN 0 ELSE IF rate >= 1000 THEN 100 ELSE (rate + 5) \div 10
=============================================================================
