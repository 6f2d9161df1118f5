--------------------------- MODULE MCControlPlane ---------------------------
(* Every action on every signal, with conditions and parameters on either    *)
(* side of each check of createRule.                                         *)
EXTENDS ControlPlane, TLC

Conditions ==
  { [op |-> "EXISTS",      value |-> {},    compilesInJS |-> TRUE,  compiles |-> TRUE],
    [op |-> "EQUALS",      value |-> {},    compilesInJS |-> TRUE,  compiles |-> TRUE],
    [op |-> "REGEX_MATCH", value |-> {"a"}, compilesInJS |-> TRUE,  compiles |-> TRUE],
    [op |-> "REGEX_MATCH", value |-> {"a"}, compilesInJS |-> TRUE,  compiles |-> FALSE],
    [op |-> "REGEX_MATCH", value |-> {"a"}, compilesInJS |-> FALSE, compiles |-> TRUE] }

\* The fields of the other actions are left from before.
Left == [action |-> "DROP", sampleRate |-> 500, destination |-> {"cold"},
         throttleRate |-> 2000, groupBy |-> {"tenant"}]

Parameters ==
  {Left, [Left EXCEPT !.action = "REDACT"]}
    \cup {[Left EXCEPT !.action = "SAMPLE", !.sampleRate = r] : r \in {0, 4, 255, 1000, 1500}}
    \cup {[Left EXCEPT !.action = "ROUTE", !.destination = d] : d \in {{}, {"cold"}, {"?"}}}
    \cup {[Left EXCEPT !.action = "THROTTLE", !.throttleRate = r, !.groupBy = g] :
            r \in {0, 500, 2000, MaxThrottle + 1000}, g \in {{}, {"tenant"}, {"?"}}}

MCForm == {c @@ p @@ [signal |-> s] : c \in Conditions, p \in Parameters, s \in Signal}
MCIdentifier == {{"cold"}, {"tenant"}}
MCSeed ==
  [active |-> TRUE, signal |-> "TRACES", action |-> "DROP", op |-> "EQUALS", compiles |-> TRUE,
   sampleRate |-> Nil, destination |-> {}, throttleRate |-> Nil, groupBy |-> {}]
=============================================================================
