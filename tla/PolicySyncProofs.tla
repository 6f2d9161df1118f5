-------------------------- MODULE PolicySyncProofs --------------------------
(***************************************************************************)
(* The conditional-polling protocol is right for any fleets, rulesets,     *)
(* edits and failures: a 304 always confirms the published ruleset, and    *)
(* the protocol implements RuleCache.                                      *)
(***************************************************************************)
EXTENDS PolicySync, TLAPS

\* rules and lastRulesHash are published together.
HashInv == rulesHash = IF rules = Nil THEN Nil ELSE Digest(rules)

\* The adopted tag is that of the body accepted last.
TagInv ==
  IF loop = "compile"
  THEN lastETag \in {Nil, Digest(pending.body)}
  ELSE lastETag # Nil => rules # Nil /\ lastETag = Digest(rules)

\* A body under way is of the configured fleet, and no older than any
\* published for it.
Fresh(read) ==
  /\ read.body.fleet = cfg
  /\ newest[cfg] <= read.version /\ read.version <= head[cfg]

WireInv ==
  /\ loop # "wait" => wire = Nil
  /\ loop = "wait" =>
       /\ wire \in Request \cup Response
       /\ wire.kind = "GET" => wire.fleet = cfg /\ wire.ifNoneMatch = lastETag
       /\ wire.kind = "304" => rules = wire.read.body
       /\ wire.kind = "200" =>
            Fresh(wire.read) /\ wire.etag \in {Nil, Digest(wire.read.body)}

PendingInv == loop = "compile" => pending \in Read /\ Fresh(pending)

\* The goroutine only lives while the engine is started on some fleet: a
\* configuration is never swapped under it.
LoopInv == loop # "off" => started /\ cfg \in Fleet

HeadInv == \A f \in Fleet : newest[f] <= head[f]

IInv ==
  /\ TypeOK /\ HashInv /\ TagInv /\ WireInv /\ PendingInv /\ LoopInv /\ HeadInv

-----------------------------------------------------------------------------
LEMMA DigestInjective ==
  ASSUME NEW a, NEW b, Digest(a) = Digest(b)
  PROVE  a = b
BY DEF Digest

LEMMA NilIsNoBody ==
  ASSUME NEW b \in Body
  PROVE  b # Nil /\ Digest(b) # Nil /\ Digest(b) \in Tag
<1>1. PICK f \in Fleet, p \in Policy : b = [fleet |-> f, policy |-> p]
  BY DEF Body
<1>2. QED
  BY <1>1, NilAssumption DEF Tag

LEMMA InitIInv == Init => IInv
<1>1. SUFFICES ASSUME Init PROVE IInv
  OBVIOUS
<1>2. 0 \in 0..MaxEdits /\ 0 \in 0..MaxFailures
  BY BoundsAssumption
<1>3. TypeOK
  BY <1>1, <1>2 DEF Init, TypeOK, Loop
<1>4. HashInv /\ TagInv /\ WireInv /\ PendingInv /\ LoopInv /\ HeadInv
  BY <1>1 DEF Init, HashInv, TagInv, WireInv, PendingInv, LoopInv, HeadInv
<1>5. QED
  BY <1>3, <1>4 DEF IInv

\* An edit only makes bodies under way older; it leaves the engine alone.
LEMMA EditStep ==
  ASSUME IInv, NEW f \in Fleet, NEW p \in Policy, EditRules(f, p)
  PROVE  IInv'
<1>1. /\ head \in [Fleet -> 0..MaxEdits] /\ newest \in [Fleet -> 0..MaxEdits]
      /\ head' = [head EXCEPT ![f] = head[f] + 1] /\ head[f] < MaxEdits
      /\ newest' = newest
  BY DEF IInv, TypeOK, EditRules, history
<1>2. /\ head' \in [Fleet -> 0..MaxEdits]
      /\ \A g \in Fleet : head[g] <= head'[g] /\ head[g] \in Nat /\ newest[g] \in Nat
  BY <1>1, BoundsAssumption
<1>3. TypeOK'
  BY <1>2 DEF IInv, TypeOK, EditRules, engine, history
<1>4. HashInv' /\ TagInv' /\ LoopInv'
  BY DEF IInv, HashInv, TagInv, LoopInv, EditRules, engine
<1>5. ASSUME NEW read \in Read, cfg \in Fleet, Fresh(read)
      PROVE  Fresh(read)'
  BY <1>1, <1>2, <1>5 DEF Fresh, EditRules, Read
<1>6. WireInv'
  <2>1. UNCHANGED <<loop, wire, cfg, lastETag, rules>>
    BY DEF EditRules, engine
  <2>2. ASSUME loop = "wait", wire.kind = "200" PROVE wire.read \in Read /\ cfg \in Fleet
    BY <2>2 DEF IInv, WireInv, LoopInv, Request, Response
  <2>3. QED
    BY <2>1, <2>2, <1>5 DEF IInv, WireInv
<1>7. PendingInv'
  BY <1>5 DEF IInv, PendingInv, LoopInv, EditRules, engine
<1>8. HeadInv'
  BY <1>1, <1>2 DEF IInv, HeadInv
<1>9. QED
  BY <1>3, <1>4, <1>6, <1>7, <1>8 DEF IInv

\* The route answers with what it reads: 304 exactly when that is the body
\* whose tag, hence whose ruleset, the engine has.
LEMMA ServeStep == ASSUME IInv, ServePolicies PROVE IInv'
<1> DEFINE body == [fleet |-> wire.fleet, policy |-> db[wire.fleet]]
           read == [body |-> body, version |-> head[wire.fleet]]
<1>1. loop = "wait" /\ wire \in Request /\ wire.fleet = cfg /\ wire.ifNoneMatch = lastETag
  BY DEF IInv, WireInv, ServePolicies, Request, Response
<1>2. cfg \in Fleet /\ body \in Body /\ read \in Read
  BY <1>1, BoundsAssumption DEF IInv, TypeOK, LoopInv, Body, Read
<1>3. UNCHANGED <<db, cfg, started, cancelled, loop, pending, rules, rulesHash,
                  lastETag, failures, head, published, newest, exits>>
  BY DEF ServePolicies, engine, history
<1>4. Fresh(read)
  BY <1>1, <1>2, BoundsAssumption DEF IInv, HeadInv, TypeOK, Fresh
<1>5. CASE lastETag = Digest(body)
  <2>1. wire' = [kind |-> "304", read |-> read]
    BY <1>1, <1>5 DEF ServePolicies
  <2>2. rules = body
    <3>1. lastETag = Digest(rules)
      BY <1>1, <1>2, <1>5, NilIsNoBody DEF IInv, TagInv
    <3>2. QED
      BY <3>1, <1>5, DigestInjective
  <2>3. wire' \in Response
    BY <1>2, <2>1 DEF Response
  <2>4. WireInv'
    BY <1>1, <1>3, <2>1, <2>2, <2>3 DEF WireInv
  <2>5. QED
    BY <1>3, <2>3, <2>4
    DEF IInv, TypeOK, HashInv, TagInv, PendingInv, LoopInv, HeadInv, Fresh
<1>6. CASE lastETag # Digest(body)
  <2>1. PICK etag \in {Digest(body), Nil} :
          wire' = [kind |-> "200", read |-> read, etag |-> etag, intact |-> TRUE]
    BY <1>1, <1>6 DEF ServePolicies
  <2>2. wire' \in Response
    BY <1>2, <2>1, NilIsNoBody DEF Response
  <2>3. WireInv'
    BY <1>1, <1>3, <1>4, <2>1, <2>2 DEF WireInv, Fresh
  <2>4. QED
    BY <1>3, <2>2, <2>3
    DEF IInv, TypeOK, HashInv, TagInv, PendingInv, LoopInv, HeadInv, Fresh
<1>7. QED
  BY <1>5, <1>6

\* Refused and damaged answers change the message only.
LEMMA FailStep == ASSUME IInv, RefusePolicies \/ DamageBody PROVE IInv'
<1>1. loop = "wait" /\ wire \in Request \cup Response
  BY DEF IInv, WireInv, RefusePolicies, DamageBody
<1>2. UNCHANGED <<db, cfg, started, cancelled, loop, pending, rules, rulesHash,
                  lastETag, head, published, newest, exits>>
  BY DEF RefusePolicies, DamageBody, engine, history
<1>3. failures' \in 0..MaxFailures
  BY BoundsAssumption DEF IInv, TypeOK, RefusePolicies, DamageBody
<1>4. WireInv' /\ wire' \in Response
  <2>1. CASE RefusePolicies
    BY <1>1, <1>2, <2>1 DEF WireInv, RefusePolicies, Response
  <2>2. CASE DamageBody
    <3>1. wire \in [kind : {"200"}, read : Read, etag : Tag \cup {Nil}, intact : BOOLEAN]
      BY <1>1, <2>2 DEF DamageBody, Request, Response
    <3>2. /\ wire' \in [kind : {"200"}, read : Read, etag : Tag \cup {Nil}, intact : BOOLEAN]
          /\ wire'.kind = "200" /\ wire'.read = wire.read /\ wire'.etag = wire.etag
      BY <3>1, <2>2 DEF DamageBody
    <3>3. QED
      BY <1>1, <1>2, <2>2, <3>1, <3>2 DEF IInv, WireInv, Fresh, Response
  <2>3. QED
    BY <2>1, <2>2
<1>5. QED
  BY <1>2, <1>3, <1>4
  DEF IInv, TypeOK, HashInv, TagInv, PendingInv, LoopInv, HeadInv, Fresh

\* Between two answers the goroutine only moves and sends its tag.
LEMMA PollStep ==
  ASSUME IInv, Tick \/ Poll \/ PollFails \/ KeepRules \/ RejectBody
  PROVE  IInv'
<1>1. UNCHANGED <<db, cfg, started, cancelled, pending, rules, rulesHash, lastETag,
                  head, published, newest, exits>>
  BY DEF Tick, Poll, PollFails, KeepRules, RejectBody, history
<1>2. failures' \in 0..MaxFailures
  BY BoundsAssumption
  DEF IInv, TypeOK, Tick, Poll, PollFails, KeepRules, RejectBody
<1>3. /\ loop \notin {"off", "compile"} /\ loop' \in {"poll", "select", "wait"}
      /\ loop' # "wait" => wire' = Nil
      /\ loop' = "wait" =>
           wire' = [kind |-> "GET", fleet |-> cfg, ifNoneMatch |-> lastETag]
  BY DEF IInv, WireInv, Tick, Poll, PollFails, KeepRules, RejectBody
<1>4. cfg \in Fleet /\ started
  BY <1>3 DEF IInv, LoopInv
<1>5. wire' \in Request \cup {Nil} /\ loop' \in Loop
  BY <1>3, <1>4 DEF IInv, TypeOK, Request, Loop
<1>6. WireInv'
  BY <1>1, <1>3, <1>4 DEF IInv, TypeOK, WireInv, Request
<1>7. TypeOK'
  BY <1>1, <1>2, <1>5 DEF IInv, TypeOK
<1>8. (HashInv /\ TagInv /\ PendingInv /\ LoopInv /\ HeadInv)'
  BY <1>1, <1>3, <1>4 DEF IInv, HashInv, TagInv, PendingInv, LoopInv, HeadInv
<1>9. QED
  BY <1>6, <1>7, <1>8 DEF IInv

\* The tag is adopted only with a body that is, or is about to be, published.
LEMMA AcceptStep == ASSUME IInv, AcceptBody PROVE IInv'
<1>1. /\ wire \in [kind : {"200"}, read : Read, etag : Tag \cup {Nil}, intact : BOOLEAN]
      /\ wire.etag \in {Nil, Digest(wire.read.body)} /\ Fresh(wire.read)
  BY DEF IInv, WireInv, AcceptBody, Request, Response
<1>2. UNCHANGED <<db, cfg, started, cancelled, rules, rulesHash, failures, head,
                  published, newest, exits>>
  BY DEF AcceptBody, history
<1>3. /\ wire.read \in Read /\ wire.read.body \in Body /\ wire.etag \in Tag \cup {Nil}
      /\ lastETag' = wire.etag /\ wire' = Nil /\ loop = "wait"
  BY <1>1 DEF AcceptBody, Read
<1>4. CASE Digest(wire.read.body) = rulesHash
  <2>1. loop' = "select" /\ pending' = pending
    BY <1>4 DEF AcceptBody
  <2>2. rules # Nil /\ rules = wire.read.body
    BY <1>3, <1>4, NilIsNoBody, DigestInjective DEF IInv, HashInv
  <2>3. QED
    BY <1>1, <1>2, <1>3, <2>1, <2>2
    DEF IInv, TypeOK, HashInv, TagInv, WireInv, PendingInv, LoopInv, HeadInv, Loop
<1>5. CASE Digest(wire.read.body) # rulesHash
  <2>1. loop' = "compile" /\ pending' = wire.read
    BY <1>5 DEF AcceptBody
  <2>2. QED
    BY <1>1, <1>2, <1>3, <2>1
    DEF IInv, TypeOK, HashInv, TagInv, WireInv, PendingInv, LoopInv, HeadInv, Loop, Fresh
<1>6. QED
  BY <1>4, <1>5

LEMMA PublishStep == ASSUME IInv, Publish PROVE IInv'
<1>1. /\ pending \in Read /\ pending.body \in Body /\ pending.version \in Nat
      /\ cfg \in Fleet /\ started
      /\ pending.body.fleet = cfg
      /\ newest[cfg] <= pending.version /\ pending.version <= head[cfg]
  BY DEF IInv, PendingInv, LoopInv, Publish, Fresh, Read
<1>2. pending.version \in 0..MaxEdits
  BY <1>1, BoundsAssumption DEF IInv, TypeOK
<1>3. UNCHANGED <<db, cfg, started, cancelled, wire, lastETag, failures, head, exits>>
  BY DEF Publish
<1>4. /\ rules' = pending.body /\ rulesHash' = Digest(pending.body)
      /\ published' = pending.version /\ loop = "compile"
      /\ newest' = [newest EXCEPT ![cfg] = pending.version]
      /\ loop' = "select" /\ pending' = Nil
  BY <1>1 DEF Publish
<1>5. newest' \in [Fleet -> 0..MaxEdits]
  BY <1>2, <1>4 DEF IInv, TypeOK
<1>6. TypeOK'
  BY <1>1, <1>2, <1>3, <1>4, <1>5, NilIsNoBody DEF IInv, TypeOK, Loop
<1>7. HashInv' /\ TagInv'
  BY <1>1, <1>3, <1>4, NilIsNoBody DEF IInv, HashInv, TagInv
<1>8. WireInv' /\ PendingInv' /\ LoopInv'
  BY <1>1, <1>3, <1>4 DEF IInv, WireInv, PendingInv, LoopInv
<1>9. HeadInv'
  BY <1>1, <1>3, <1>4 DEF IInv, TypeOK, HeadInv
<1>10. QED
  BY <1>6, <1>7, <1>8, <1>9 DEF IInv

\* Starting, stopping and adopting a configuration keep the rule cache.
LEMMA LifecycleStep ==
  ASSUME IInv,
         \/ Start \/ Cancel \/ ExitLoop \/ StopReturns
         \/ \E c \in Fleet \cup {Nil} : AdoptConfig(c)
  PROVE  IInv'
<1>1. UNCHANGED <<db, wire, pending, rules, rulesHash, lastETag, failures, head,
                  published, newest, exits>>
  BY DEF Start, Cancel, ExitLoop, StopReturns, AdoptConfig, engine, history
<1>2. started' \in BOOLEAN /\ cancelled' \in BOOLEAN /\ cfg' \in Fleet \cup {Nil}
  BY DEF IInv, TypeOK, Start, Cancel, ExitLoop, StopReturns, AdoptConfig, engine
<1>3. /\ (loop = "wait" \/ loop' = "wait") => loop' = loop /\ cfg' = cfg
      /\ (loop = "compile" \/ loop' = "compile") => loop' = loop /\ cfg' = cfg
      /\ loop' # "off" => started' /\ cfg' \in Fleet
      /\ loop' \in Loop
  BY DEF IInv, TypeOK, LoopInv, Start, Cancel, ExitLoop, StopReturns, AdoptConfig,
         engine, Loop
<1>4. TypeOK' /\ HashInv' /\ HeadInv' /\ LoopInv'
  BY <1>1, <1>2, <1>3 DEF IInv, TypeOK, HashInv, HeadInv, LoopInv
<1>5. WireInv'
  BY <1>1, <1>3 DEF IInv, WireInv, Fresh
<1>6. TagInv' /\ PendingInv'
  BY <1>1, <1>3 DEF IInv, TagInv, PendingInv, Fresh
<1>7. QED
  BY <1>4, <1>5, <1>6 DEF IInv

LEMMA ExitStep == ASSUME IInv, ProcessExit PROVE IInv'
<1>1. failures' \in 0..MaxFailures /\ published' \in 0..MaxEdits /\ exits' \in Nat
  BY BoundsAssumption DEF IInv, TypeOK, ProcessExit
<1>2. TypeOK'
  <2>1. /\ UNCHANGED <<db, cfg, head, newest>>
        /\ started' = FALSE /\ cancelled' = FALSE /\ loop' = "off"
        /\ wire' = Nil /\ pending' = Nil
        /\ rules' = Nil /\ rulesHash' = Nil /\ lastETag' = Nil
    BY DEF ProcessExit
  <2>2. QED
    BY <1>1, <2>1 DEF IInv, TypeOK, Loop
<1>3. QED
  BY <1>2
  DEF IInv, HashInv, TagInv, WireInv, PendingInv, LoopInv, HeadInv, ProcessExit

LEMMA NextIInv == IInv /\ [Next]_vars => IInv'
<1>1. SUFFICES ASSUME IInv, [Next]_vars PROVE IInv'
  OBVIOUS
<1>2. CASE ControlPlane
  BY <1>1, <1>2, EditStep, ServeStep, FailStep DEF ControlPlane
<1>3. CASE Sync \/ PollFails
  BY <1>1, <1>3, PollStep, AcceptStep, PublishStep DEF Sync
<1>4. CASE Lifecycle
  BY <1>1, <1>4, LifecycleStep, ExitStep DEF Lifecycle
<1>5. CASE UNCHANGED vars
  BY <1>1, <1>5
  DEF IInv, TypeOK, HashInv, TagInv, WireInv, PendingInv, LoopInv, HeadInv, Fresh,
      vars, engine, history
<1>6. QED
  BY <1>1, <1>2, <1>3, <1>4, <1>5 DEF Next

LEMMA InductiveInvariant == Spec => []IInv
BY InitIInv, NextIInv, PTL DEF Spec

-----------------------------------------------------------------------------
(* Theorems. *)

\* Every reachable state is well typed.
THEOREM TypeCorrect == Spec => []TypeOK
<1>1. IInv => TypeOK
  BY DEF IInv
<1>2. QED
  BY <1>1, InductiveInvariant, PTL

\* syncOnce asks If-None-Match only about the ruleset it enforces.
THEOREM PollsAboutPublished == Spec => []TagIsPublished
<1>1. IInv => TagIsPublished
  BY DEF IInv, TagInv, WireInv, TagIsPublished
<1>2. QED
  BY <1>1, InductiveInvariant, PTL

\* A 304 means the published ruleset is what the control plane had stored.
THEOREM NotModifiedIsCurrent == Spec => []NotModifiedMeansCurrent
<1>1. IInv => NotModifiedMeansCurrent
  BY DEF IInv, WireInv, NotModifiedMeansCurrent
<1>2. QED
  BY <1>1, InductiveInvariant, PTL

LEMMA CacheInit == Init => Cache!Init
BY DEF Init, Cache!Init, Cached

\* Publish refreshes, an edit edits, a reload repoints, an exit forgets, and
\* every other step leaves the cache alone.
LEMMA CacheStep == IInv /\ [Next]_vars => [Cache!Next]_(Cache!cacheVars)
<1>1. SUFFICES ASSUME IInv, [Next]_vars
               PROVE  Cache!Next \/ UNCHANGED <<head, cfg, Cached, newest, exits>>
  BY DEF Cache!cacheVars
<1>2. ASSUME NEW f \in Fleet, NEW p \in Policy, EditRules(f, p)
      PROVE  Cache!Next
  BY <1>2 DEF EditRules, engine, history, Cache!Next, Cache!Edit, Cached
<1>3. CASE Publish
  <2>1. /\ cfg \in Fleet /\ pending.body \in Body /\ pending.body.fleet = cfg
        /\ newest[cfg] <= pending.version /\ pending.version <= head[cfg]
        /\ pending.version \in Nat /\ newest[cfg] \in Nat /\ head[cfg] \in Nat
    BY <1>1, <1>3, BoundsAssumption
    DEF IInv, TypeOK, PendingInv, LoopInv, Publish, Fresh, Read
  <2>2. pending.version \in newest[cfg]..head[cfg]
    BY <2>1
  <2>3. Cached' = [fleet |-> cfg, version |-> pending.version]
    BY <1>3, <2>1, NilIsNoBody DEF Publish, Cached
  <2>4. Cache!Refresh(pending.version)
    BY <1>3, <2>1, <2>3 DEF Publish, Cache!Refresh
  <2>5. QED
    BY <2>1, <2>2, <2>4 DEF Cache!Next
<1>4. ASSUME NEW c \in Fleet \cup {Nil}, AdoptConfig(c)
      PROVE  Cache!Next
  BY <1>4 DEF AdoptConfig, engine, history, Cache!Next, Cache!Repoint, Cached
<1>5. CASE ProcessExit
  BY <1>5 DEF ProcessExit, Cache!Next, Cache!Forget, Cached
<1>6. CASE ServePolicies \/ RefusePolicies \/ DamageBody
  BY <1>6 DEF ServePolicies, RefusePolicies, DamageBody, engine, history, Cached
<1>7. CASE Tick \/ Poll \/ PollFails \/ KeepRules \/ RejectBody \/ AcceptBody
  BY <1>7 DEF Tick, Poll, PollFails, KeepRules, RejectBody, AcceptBody, history, Cached
<1>8. CASE Start \/ Cancel \/ ExitLoop \/ StopReturns
  BY <1>8 DEF Start, Cancel, ExitLoop, StopReturns, history, Cached
<1>9. CASE UNCHANGED vars
  BY <1>9 DEF vars, engine, history, Cached
<1>10. QED
  BY <1>1, <1>2, <1>3, <1>4, <1>5, <1>6, <1>7, <1>8, <1>9
  DEF Next, ControlPlane, Sync, Lifecycle

\* The polling protocol implements the abstract rule cache: own fleet only,
\* never backwards, emptied by nothing but a process exit.
THEOREM RefinesRuleCache == Spec => ImplementsRuleCache
BY CacheInit, CacheStep, InductiveInvariant, PTL
DEF Spec, ImplementsRuleCache, Cache!Spec
=============================================================================
