----------------------------- MODULE PolicySync -----------------------------
(***************************************************************************)
(* The policy sync of one rule engine: the sync goroutine polls GET        *)
(* /api/v1/policies/:fleetId with the ETag of the last body it could       *)
(* parse (syncOnce), the route reads the fleet's rules and answers 200 or  *)
(* 304, and a changed body is compiled and published.  Dashboard edits,    *)
(* network failures, damaged and oversized bodies, engine stop / start     *)
(* with a new configuration and process exits happen between any steps.    *)
(***************************************************************************)
EXTENDS Integers

CONSTANTS
  Fleet,       \* fleets of the control plane
  Policy,      \* contents a fleet's rule table can have
  TooLarge,    \* those whose body exceeds maxSyncResponseBytes
  Nil,         \* no endpoint, no ruleset, no tag, no message
  MaxEdits,    \* bound: edits per fleet
  MaxFailures  \* bound: failed polls and process exits

Body == [fleet : Fleet, policy : Policy]
Read == [body : Body, version : Nat]  \* a body and (history) the edit it shows

\* SHA-256 of the body bytes, taken as collision-free: the ETag of the route
\* and the change detector of the engine are this same digest.
Digest(body) == <<"sha256", body>>
Tag == {Digest(body) : body \in Body}

Request  == [kind : {"GET"}, fleet : Fleet, ifNoneMatch : Tag \cup {Nil}]
Response ==
  [kind : {"200"}, read : Read, etag : Tag \cup {Nil}, intact : BOOLEAN]
    \cup [kind : {"304"}, read : Read]
    \cup [kind : {"error"}]

ASSUME PolicyAssumption == TooLarge \subseteq Policy

ASSUME NilAssumption ==
  /\ Nil \notin Fleet
  /\ \A f \in Fleet, p \in Policy :
       Nil # [fleet |-> f, policy |-> p] /\ Nil # Digest([fleet |-> f, policy |-> p])

ASSUME BoundsAssumption == MaxEdits \in Nat /\ MaxFailures \in Nat

VARIABLES
  db,         \* control plane: what findMany returns per fleet
  cfg,        \* the fleet of SyncEndpoint; Nil when the endpoint is empty
  started,    \* some processor holds the engine started
  cancelled,  \* the sync goroutine's context is cancelled
  loop,       \* where the sync goroutine is
  wire,       \* the request or response under way
  pending,    \* the accepted body being compiled
  rules,      \* published ruleset
  rulesHash,  \* lastRulesHash
  lastETag,
  failures,   \* failures so far
  head,       \* history: edits per fleet
  published,  \* history: the edit the published ruleset was read at
  newest,     \* history: per fleet, the latest edit ever published
  exits       \* history: process exits

engine  == <<cancelled, loop, pending, rules, rulesHash, lastETag>>
history == <<published, newest, exits>>
vars    == <<db, cfg, started, engine, wire, failures, head, history>>

Loop == {"off", "poll", "wait", "compile", "select"}

Init ==
  /\ db \in [Fleet -> Policy]
  /\ cfg \in Fleet \cup {Nil}
  /\ started = FALSE /\ cancelled = FALSE /\ loop = "off"
  /\ wire = Nil /\ pending = Nil
  /\ rules = Nil /\ rulesHash = Nil /\ lastETag = Nil
  /\ failures = 0
  /\ head = [f \in Fleet |-> 0] /\ newest = [f \in Fleet |-> 0] /\ published = 0
  /\ exits = 0

-----------------------------------------------------------------------------
(* Control plane and network. *)

\* createRule, toggleRuleActive, deleteRule: the stored rules change.
EditRules(f, p) ==
  /\ head[f] < MaxEdits /\ p # db[f]
  /\ db' = [db EXCEPT ![f] = p]
  /\ head' = [head EXCEPT ![f] = @ + 1]
  /\ UNCHANGED <<cfg, started, engine, wire, failures, history>>

\* GET: serialise the rules, compare the digest with If-None-Match.  A proxy
\* on the way may strip the ETag header of the answer.
ServePolicies ==
  LET body == [fleet |-> wire.fleet, policy |-> db[wire.fleet]]
      read == [body |-> body, version |-> head[wire.fleet]]
  IN
  /\ wire # Nil /\ wire.kind = "GET"
  /\ IF wire.ifNoneMatch = Digest(body)
     THEN wire' = [kind |-> "304", read |-> read]
     ELSE \E etag \in {Digest(body), Nil} :
            wire' = [kind |-> "200", read |-> read, etag |-> etag, intact |-> TRUE]
  /\ UNCHANGED <<db, cfg, started, engine, failures, head, history>>

\* 400 / 401 of authenticateFleet, or a 5xx.
RefusePolicies ==
  /\ wire # Nil /\ wire.kind = "GET"
  /\ failures < MaxFailures /\ failures' = failures + 1
  /\ wire' = [kind |-> "error"]
  /\ UNCHANGED <<db, cfg, started, engine, head, history>>

\* The body of a 200 is cut short or is no longer JSON; its headers survive.
DamageBody ==
  /\ wire # Nil /\ wire.kind = "200" /\ wire.intact
  /\ failures < MaxFailures /\ failures' = failures + 1
  /\ wire' = [wire EXCEPT !.intact = FALSE]
  /\ UNCHANGED <<db, cfg, started, engine, head, history>>

-----------------------------------------------------------------------------
(* The sync goroutine: runSyncLoop, syncOnce. *)

\* A tick; the select may still take it after a cancellation.
Tick ==
  /\ loop = "select"
  /\ loop' = "poll"
  /\ UNCHANGED <<db, cfg, started, cancelled, wire, pending, rules, rulesHash,
                 lastETag, failures, head, history>>

\* Send the conditional GET; under a cancelled context Do fails at once.
Poll ==
  /\ loop = "poll"
  /\ IF cancelled
     THEN loop' = "select" /\ UNCHANGED wire
     ELSE /\ loop' = "wait"
          /\ wire' = [kind |-> "GET", fleet |-> cfg, ifNoneMatch |-> lastETag]
  /\ UNCHANGED <<db, cfg, started, cancelled, pending, rules, rulesHash,
                 lastETag, failures, head, history>>

\* Do or ReadAll returns an error: timeout or transport failure at any point
\* of the exchange, or cancellation.  The last known-good ruleset stays.
PollFails ==
  /\ loop = "wait"
  /\ \/ cancelled /\ UNCHANGED failures
     \/ ~cancelled /\ failures < MaxFailures /\ failures' = failures + 1
  /\ loop' = "select" /\ wire' = Nil
  /\ UNCHANGED <<db, cfg, started, cancelled, pending, rules, rulesHash,
                 lastETag, head, history>>

\* Mutant: an error status empties the rule cache.
MutantForgetOnError ==
  /\ loop = "wait" /\ wire.kind \in {"304", "error"}
  /\ loop' = "select" /\ wire' = Nil
  /\ IF wire.kind = "304" THEN UNCHANGED <<rules, rulesHash, lastETag>>
     ELSE rules' = Nil /\ rulesHash' = Nil /\ lastETag' = Nil
  /\ UNCHANGED <<db, cfg, started, cancelled, pending, failures, head, history>>

\* 304, or a status that is neither 200 nor 304.
KeepRules ==
  /\ loop = "wait" /\ wire.kind \in {"304", "error"}
  /\ loop' = "select" /\ wire' = Nil
  /\ UNCHANGED <<db, cfg, started, cancelled, pending, rules, rulesHash,
                 lastETag, failures, head, history>>

\* Mutant: the ETag is taken from the headers before the body is looked at.
MutantAdoptTagFirst ==
  /\ loop = "wait" /\ wire.kind = "200"
  /\ ~wire.intact \/ wire.read.body.policy \in TooLarge
  /\ lastETag' = wire.etag
  /\ loop' = "select" /\ wire' = Nil
  /\ UNCHANGED <<db, cfg, started, cancelled, pending, rules, rulesHash,
                 failures, head, history>>

\* A 200 whose body is damaged or over the cap: its ETag is not adopted.
RejectBody ==
  /\ loop = "wait" /\ wire.kind = "200"
  /\ ~wire.intact \/ wire.read.body.policy \in TooLarge
  /\ loop' = "select" /\ wire' = Nil
  /\ UNCHANGED <<db, cfg, started, cancelled, pending, rules, rulesHash,
                 lastETag, failures, head, history>>

\* A 200 that parses: adopt its ETag (or the lack of one), then compare the
\* digest with that of the published body.
AcceptBody ==
  /\ loop = "wait" /\ wire.kind = "200"
  /\ wire.intact /\ wire.read.body.policy \notin TooLarge
  /\ lastETag' = wire.etag
  /\ wire' = Nil
  /\ IF Digest(wire.read.body) = rulesHash
     THEN loop' = "select" /\ UNCHANGED pending
     ELSE loop' = "compile" /\ pending' = wire.read
  /\ UNCHANGED <<db, cfg, started, cancelled, rules, rulesHash, failures, head,
                 history>>

\* Mutant: the hash is that of the decoded rules, not of the body.
MutantHashOfRules ==
  /\ loop = "compile"
  /\ rules' = pending.body
  /\ rulesHash' = Digest(pending.body.policy)
  /\ published' = pending.version
  /\ newest' = [newest EXCEPT ![pending.body.fleet] = pending.version]
  /\ loop' = "select" /\ pending' = Nil
  /\ UNCHANGED <<db, cfg, started, cancelled, wire, lastETag, failures, head, exits>>

\* Publish the compiled rules and their hash under one write lock.
Publish ==
  /\ loop = "compile"
  /\ rules' = pending.body
  /\ rulesHash' = Digest(pending.body)
  /\ published' = pending.version
  /\ newest' = [newest EXCEPT ![pending.body.fleet] = pending.version]
  /\ loop' = "select" /\ pending' = Nil
  /\ UNCHANGED <<db, cfg, started, cancelled, wire, lastETag, failures, head, exits>>

-----------------------------------------------------------------------------
(* Lifecycle, as far as the sync goroutine sees it. *)

\* First start; an empty SyncEndpoint spawns no sync goroutine.
Start ==
  /\ ~started
  /\ started' = TRUE
  /\ loop' = IF cfg = Nil THEN "off" ELSE "poll"
  /\ UNCHANGED <<db, cfg, cancelled, wire, pending, rules, rulesHash, lastETag,
                 failures, head, history>>

\* Last stop: cancel ...
Cancel ==
  /\ started /\ ~cancelled
  /\ cancelled' = TRUE
  /\ UNCHANGED <<db, cfg, started, loop, wire, pending, rules, rulesHash,
                 lastETag, failures, head, history>>

ExitLoop ==
  /\ loop = "select" /\ cancelled
  /\ loop' = "off"
  /\ UNCHANGED <<db, cfg, started, cancelled, wire, pending, rules, rulesHash,
                 lastETag, failures, head, history>>

\* ... and wait until the goroutine has left.  The rule cache is kept.
StopReturns ==
  /\ started /\ cancelled /\ loop = "off"
  /\ started' = FALSE /\ cancelled' = FALSE
  /\ UNCHANGED <<db, cfg, loop, wire, pending, rules, rulesHash, lastETag,
                 failures, head, history>>

\* A collector config reload: adoptConfigIfIdle.
AdoptConfig(c) ==
  /\ ~started /\ c # cfg
  /\ cfg' = c
  /\ UNCHANGED <<db, started, engine, wire, failures, head, history>>

\* The process exits; the next one starts from an empty engine.
ProcessExit ==
  /\ failures < MaxFailures /\ failures' = failures + 1
  /\ started' = FALSE /\ cancelled' = FALSE /\ loop' = "off"
  /\ wire' = Nil /\ pending' = Nil
  /\ rules' = Nil /\ rulesHash' = Nil /\ lastETag' = Nil /\ published' = 0
  /\ exits' = exits + 1
  /\ UNCHANGED <<db, cfg, head, newest>>

-----------------------------------------------------------------------------
ControlPlane ==
  \/ \E f \in Fleet, p \in Policy : EditRules(f, p)
  \/ ServePolicies \/ RefusePolicies \/ DamageBody

Sync == Tick \/ Poll \/ KeepRules \/ RejectBody \/ AcceptBody \/ Publish

Lifecycle ==
  \/ Start \/ Cancel \/ ExitLoop \/ StopReturns \/ ProcessExit
  \/ \E c \in Fleet \cup {Nil} : AdoptConfig(c)

Next == ControlPlane \/ Sync \/ PollFails \/ Lifecycle

Spec == Init /\ [][Next]_vars

\* The ticker of a running loop keeps firing, the goroutine keeps stepping and
\* the route answers the request it received.
Fairness == WF_vars(Sync) /\ WF_vars(ServePolicies)

FairSpec == Spec /\ Fairness

-----------------------------------------------------------------------------
(* Properties. *)

\* Type correctness: requests, answers, the pending body and the three fields
\* of the rule cache, whose hash and tag are digests of whole bodies.
TypeOK ==
  /\ db \in [Fleet -> Policy] /\ cfg \in Fleet \cup {Nil}
  /\ started \in BOOLEAN /\ cancelled \in BOOLEAN
  /\ loop \in Loop
  /\ wire \in Request \cup Response \cup {Nil}
  /\ pending \in Read \cup {Nil}
  /\ rules \in Body \cup {Nil}
  /\ rulesHash \in Tag \cup {Nil} /\ lastETag \in Tag \cup {Nil}
  /\ failures \in 0..MaxFailures
  /\ head \in [Fleet -> 0..MaxEdits] /\ newest \in [Fleet -> 0..MaxEdits]
  /\ published \in 0..MaxEdits /\ exits \in Nat

\* A conditional poll never asks about a ruleset the engine does not enforce:
\* the tag it sends is that of the published body.  Otherwise a 304 would
\* freeze the engine on a ruleset the control plane does not serve any more
\* (comment at the adoption of the ETag in syncOnce).
TagIsPublished ==
  /\ loop # "compile" /\ lastETag # Nil => rules # Nil /\ lastETag = Digest(rules)
  /\ wire # Nil /\ wire.kind = "GET" => wire.ifNoneMatch = lastETag

\* "The control plane confirmed our ruleset is current": when a 304 arrives the
\* published ruleset is, byte for byte, the body the route read for it.
NotModifiedMeansCurrent ==
  wire # Nil /\ wire.kind = "304" => rules = wire.read.body

\* The same promise without the protocol: RuleCache.
Cached == IF rules = Nil THEN Nil ELSE [fleet |-> rules.fleet, version |-> published]

Cache == INSTANCE RuleCache WITH source <- cfg, cache <- Cached

\* Every step of the polling protocol is a step or a stutter of the cache:
\* own fleet only, never backwards, never emptied by a failure.
ImplementsRuleCache == Cache!Spec

\* An engine that stays started on a fleet whose rules fit the cap ends up
\* enforcing what the control plane stores, when failures are finite.
EventuallyEnforced ==
  \A f \in Fleet :
    <>[](started /\ ~cancelled /\ cfg = f /\ db[f] \notin TooLarge) =>
      <>[](rules = [fleet |-> f, policy |-> db[f]])

\* Config.SyncEndpoint: "Empty disables syncing entirely: the processor runs as
\* a static pass-through, exactly like Phase 1".
EmptyEndpointPassesThrough == started /\ cfg = Nil => rules = Nil
=============================================================================
