------------------------------ MODULE RuleCache ------------------------------
(***************************************************************************)
(* What a rule engine promises about the ruleset it enforces, whatever     *)
(* the polling protocol looks like: the cache is empty or holds a ruleset  *)
(* the control plane stored for the fleet the engine was pointed at; per   *)
(* fleet it only moves forward; and only a process exit empties it.        *)
(***************************************************************************)
EXTENDS Integers

CONSTANTS
  Fleet,  \* fleets of the control plane
  Nil     \* no fleet, no ruleset

VARIABLES
  head,    \* per fleet, the number of edits of its stored ruleset
  source,  \* the fleet the engine polls, or Nil
  cache,   \* the enforced ruleset: which edit of which fleet, or Nil
  newest,  \* per fleet, the latest edit ever cached
  exits    \* process exits

cacheVars == <<head, source, cache, newest, exits>>

Entry == [fleet : Fleet, version : Nat]

Init ==
  /\ head = [f \in Fleet |-> 0]
  /\ source \in Fleet \cup {Nil}
  /\ cache = Nil
  /\ newest = [f \in Fleet |-> 0]
  /\ exits = 0

\* The operator edits a fleet's rules.
Edit(f) ==
  /\ head' = [head EXCEPT ![f] = @ + 1]
  /\ UNCHANGED <<source, cache, newest, exits>>

\* The engine is configured for another fleet, or for none.
Repoint(s) ==
  /\ source' = s
  /\ UNCHANGED <<head, cache, newest, exits>>

\* The engine caches a ruleset of its fleet that is no older than any it has
\* cached for that fleet before.
Refresh(v) ==
  /\ cache' = [fleet |-> source, version |-> v]
  /\ newest' = [newest EXCEPT ![source] = v]
  /\ UNCHANGED <<head, source, exits>>

\* The process exits: nothing is persisted.
Forget ==
  /\ cache' = Nil /\ exits' = exits + 1
  /\ UNCHANGED <<head, source, newest>>

Next ==
  \/ \E f \in Fleet : Edit(f)
  \/ \E s \in Fleet \cup {Nil} : Repoint(s)
  \/ source \in Fleet /\ \E v \in newest[source]..head[source] : Refresh(v)
  \/ Forget

Spec == Init /\ [][Next]_cacheVars
=============================================================================
