---------------------------- MODULE ControlPlane ----------------------------
(***************************************************************************)
(* The dashboard: the policy rules of a fleet, and operators who look at   *)
(* the page they were last sent while others change the rules.  A click    *)
(* runs one Server Action, whose database statements interleave with those *)
(* of other operators; if none throws, the page is rendered anew.  A tab   *)
(* runs its actions and refreshes one at a time.  Rates of a form are in   *)
(* thousandths, 0 if left blank.                                           *)
(***************************************************************************)
EXTENDS Rules, FiniteSets, Functions

CONSTANTS
  Operator,    \* dashboard tabs
  None,        \* no operator
  Seed,        \* the rule the fleet starts with
  Form,        \* what an operator may submit
  Identifier,  \* texts that look like an identifier
  MaxThrottle, \* highest throttle rate, in thousandths
  MaxRules,    \* bound: rules ever stored
  MaxClicks    \* bound: toggles and deletions

ASSUME DashboardAssumption ==
  /\ IsFiniteSet(Operator) /\ None \notin Operator
  /\ MaxThrottle \in Nat /\ MaxRules \in Nat \ {0} /\ MaxClicks \in Nat
  /\ {} \notin Identifier

VARIABLES
  rows,    \* PolicyRule rows of the fleet by id; ids in the order of createdAt
  nextId,
  view,    \* the rows on each operator's page
  action,  \* the Server Action each operator waits for
  clicks,  \* toggles and deletions so far
  writer   \* history: who wrote, or deleted, each row last

vars == <<rows, nextId, view, action, clicks, writer>>

RuleId == 1..MaxRules
Idle   == [step |-> "idle"]

\* A function with x bound to y, and without x.
With(f, x, y) == [z \in DOMAIN f \cup {x} |-> IF z = x THEN y ELSE f[z]]
Without(f, x) == Restrict(f, DOMAIN f \ {x})

-----------------------------------------------------------------------------
(* createRule. *)

PolicyAction == {"DROP", "SAMPLE", "REDACT", "ROUTE", "THROTTLE"}
ConditionOp  == {"EQUALS", "GREATER_THAN", "CONTAINS", "EXISTS", "REGEX_MATCH"}

ThrottleAccepted(form) ==
  /\ form.throttleRate \in 1..MaxThrottle /\ form.throttleRate % 1000 = 0
  /\ form.groupBy \in Identifier \cup {{}}

\* The checks before the insertion.
Accepted(form) ==
  /\ form.op = "EXISTS" \/ form.value # {}
  /\ form.op = "REGEX_MATCH" => form.compilesInJS
  /\ form.action = "SAMPLE" => form.sampleRate \in 1..1000
  /\ form.action = "ROUTE" => form.destination \in Identifier
  /\ form.action = "THROTTLE" => ThrottleAccepted(form)

\* Mutant: the parameters left in the form are stored with any action.
MutantStrayParameters(form) ==
  [active |-> TRUE, signal |-> form.signal, action |-> form.action,
   op |-> form.op, compiles |-> form.compiles,
   sampleRate |-> form.sampleRate, destination |-> form.destination,
   throttleRate |-> form.throttleRate \div 1000, groupBy |-> form.groupBy]

\* The row: a parameter is stored for its own action only.  A destination that
\* is NULL is the empty text to the data plane.
Row(form) ==
  [active |-> TRUE, signal |-> form.signal, action |-> form.action,
   op |-> form.op, compiles |-> form.compiles,
   sampleRate   |-> IF form.action = "SAMPLE" THEN form.sampleRate ELSE Nil,
   destination  |-> IF form.action = "ROUTE" THEN form.destination ELSE {},
   throttleRate |-> IF form.action = "THROTTLE" THEN form.throttleRate \div 1000 ELSE Nil,
   groupBy      |-> IF form.action = "THROTTLE" THEN form.groupBy ELSE {}]

\* A row, "NULL for every other action" (schema.prisma).
IsStored(rule) ==
  rule \in
    [active : BOOLEAN, signal : Signal, action : PolicyAction, op : ConditionOp,
     compiles : BOOLEAN,
     sampleRate   : IF rule.action = "SAMPLE" THEN 1..1000 ELSE {Nil},
     destination  : IF rule.action = "ROUTE" THEN Identifier ELSE {{}},
     throttleRate : IF rule.action = "THROTTLE" THEN 1..(MaxThrottle \div 1000) ELSE {Nil},
     groupBy      : {{}} \cup IF rule.action = "THROTTLE" THEN Identifier ELSE {}]

\* isEnumValue checked the names in the form; the seed script's rule is one that
\* createRule stores.
ASSUME RuleAssumption ==
  /\ IsStored(Seed)
  /\ \A form \in Form :
       /\ form.signal \in Signal /\ form.action \in PolicyAction
       /\ form.op \in ConditionOp /\ form.compiles \in BOOLEAN

-----------------------------------------------------------------------------
(* The page. *)

\* ruleEnforced of the dashboard.
RuleEnforced(rule) ==
  \/ rule.action = "ROUTE" /\ rule.destination # {}
  \/ rule.action = "THROTTLE" /\ rule.throttleRate # Nil /\ rule.throttleRate > 0
  \/ rule.action = "DROP"
  \/ rule.action = "REDACT" /\ rule.signal \in {"TRACES", "LOGS"}
  \/ rule.action = "SAMPLE" /\ rule.signal = "TRACES" /\ rule.sampleRate # Nil

\* A card that is neither "paused" nor "not enforced yet".
ShownEnforced(rule) == rule.active /\ RuleEnforced(rule)

\* "SAMPLE n%", Math.round.
Percent(rate) == (rate + 5) \div 10

-----------------------------------------------------------------------------
(* Actions. *)

Init ==
  /\ rows = [id \in {1} |-> Seed] /\ nextId = 2
  /\ view = [o \in Operator |-> rows] /\ action = [o \in Operator |-> Idle]
  /\ clicks = 0 /\ writer = [id \in RuleId |-> None]

\* The action got through: revalidatePath, the page is rendered next.
Wrote(o, id) ==
  /\ action' = [action EXCEPT ![o] = [step |-> "render"]]
  /\ writer' = [writer EXCEPT ![id] = o]

CreateRule(o, form) ==
  /\ action[o] = Idle /\ nextId \in RuleId /\ Accepted(form)
  /\ rows' = With(rows, nextId, Row(form))
  /\ nextId' = nextId + 1
  /\ Wrote(o, nextId)
  /\ UNCHANGED <<view, clicks>>

\* toggleRuleActive, findUnique.  The button says "Pause" on an active rule.
ReadToggle(o, id) ==
  /\ action[o] = Idle /\ id \in DOMAIN view[o] \cap DOMAIN rows /\ clicks < MaxClicks
  /\ clicks' = clicks + 1
  /\ action' = [action EXCEPT ![o] =
       [step |-> "update", id |-> id, isActive |-> rows[id].active, label |-> view[o][id].active]]
  /\ UNCHANGED <<rows, nextId, view, writer>>

\* update throws for a row that is gone.
Updates(id) == id \in DOMAIN rows

\* toggleRuleActive, update.
WriteToggle(o) ==
  LET call == action[o] IN
  /\ call.step = "update" /\ Updates(call.id)
  /\ rows' = With(rows, call.id, [rows[call.id] EXCEPT !.active = ~call.isActive])
  /\ Wrote(o, call.id)
  /\ UNCHANGED <<nextId, view, clicks>>

ToggleThrows(o) ==
  /\ action[o].step = "update" /\ ~Updates(action[o].id)
  /\ action' = [action EXCEPT ![o] = Idle]
  /\ UNCHANGED <<rows, nextId, view, clicks, writer>>

DeleteRule(o, id) ==
  /\ action[o] = Idle /\ id \in DOMAIN view[o] \cap DOMAIN rows /\ clicks < MaxClicks
  /\ clicks' = clicks + 1
  /\ rows' = Without(rows, id)
  /\ Wrote(o, id)
  /\ UNCHANGED <<nextId, view>>

\* Mutant: the page is not rendered after an action.
MutantNoRevalidate(o) == view

\* The page o gets is read from the database now.
Rendered(o) == [view EXCEPT ![o] = rows]

Render(o) ==
  /\ action[o].step = "render"
  /\ view' = Rendered(o)
  /\ action' = [action EXCEPT ![o] = Idle]
  /\ UNCHANGED <<rows, nextId, clicks, writer>>

\* AutoRefresh: router.refresh, every ten seconds.
Refresh(o) ==
  /\ action[o] = Idle
  /\ view' = [view EXCEPT ![o] = rows]
  /\ UNCHANGED <<rows, nextId, action, clicks, writer>>

Next ==
  \E o \in Operator :
    \/ \E form \in Form : CreateRule(o, form)
    \/ \E id \in RuleId : ReadToggle(o, id) \/ DeleteRule(o, id)
    \/ WriteToggle(o) \/ ToggleThrows(o) \/ Render(o) \/ Refresh(o)

Spec == Init /\ [][Next]_vars

-----------------------------------------------------------------------------
(* Properties. *)

Actions ==
  {Idle, [step |-> "render"]}
    \cup [step : {"update"}, id : RuleId, isActive : BOOLEAN, label : BOOLEAN]

\* Type correctness: every parameter belongs to the rule's action.
TypeOK ==
  /\ nextId \in 2..(MaxRules + 1)
  /\ \A f \in {rows} \cup {view[o] : o \in Operator} :
       DOMAIN f \subseteq 1..(nextId - 1) /\ \A id \in DOMAIN f : IsStored(f[id])
  /\ action \in [Operator -> Actions]
  /\ clicks \in 0..MaxClicks
  /\ writer \in [RuleId -> Operator \cup {None}]

\* "Mirrors ruleAppliesTraces()/ruleAppliesLogs()/ruleAppliesMetrics() in the
\* Go data plane": a rule is enforced by the processor of the signal its card
\* names, and by no other, exactly if the card has neither a "paused" nor a "not
\* enforced yet" badge and RE2 takes the rule's pattern - whatever was stored and
\* toggled in between.  The badge does not know of the latter: a rule whose
\* pattern only JavaScript takes is shown as enforced, and nobody enforces it.
BadgeMirrorsDataPlane ==
  \A o \in Operator : \A id \in DOMAIN view[o] : \A signal \in Signal :
    LET rule == view[o][id] IN
    AppliesTo(rule, signal) <=>
      rule.signal = signal /\ ShownEnforced(rule) /\ ConditionUsable(rule)

\* The percentage on a SAMPLE card is the number of the 100 buckets the data
\* plane keeps, for every rate createRule accepts - also for a rate that rounds
\* to none or to all of them.
PercentIsKept ==
  \A id \in DOMAIN rows :
    rows[id].action = "SAMPLE" => Percent(rows[id].sampleRate) = Threshold(rows[id].sampleRate)

\* "the RSC payload returned by the action already reflects the new database
\* state": an operator who waits for nothing sees every change nobody has
\* overwritten since.
SeesOwnChanges ==
  \A o \in Operator, id \in RuleId :
    action[o] = Idle /\ writer[id] = o =>
      /\ id \in DOMAIN rows <=> id \in DOMAIN view[o]
      /\ id \in DOMAIN rows => view[o][id] = rows[id]

\* toggleRuleActive writes the negation of what it reads, not what the button
\* said: a rule ends up other than its "Pause" or "Activate" only if another
\* operator wrote it since it was last written from this tab.
ClickDoesWhatItSays ==
  [][\A o \in Operator :
       action[o].step = "update" /\ action'[o].step = "render" =>
         LET id == action[o].id IN
         rows'[id].active = ~action[o].label \/ writer[id] \notin {o, None}]_vars
=============================================================================
