-------------------------- MODULE ControlPlaneProofs --------------------------
(***************************************************************************)
(* The dashboard for any number of operators, rules and forms: what the    *)
(* cards say is what the data plane does, and what a click does is what    *)
(* its button said.  The argument is about who wrote a row last: a row     *)
(* that its last writer looks at, or that nobody ever wrote, is the row    *)
(* stored.                                                                 *)
(***************************************************************************)
EXTENDS ControlPlane, TLAPS

\* Unless the page is about to be rendered, an operator's page shows every row
\* this operator wrote last as it is stored.
OwnInv ==
  \A o \in Operator, id \in RuleId :
    writer[id] = o /\ action[o].step # "render" =>
      /\ id \in DOMAIN rows <=> id \in DOMAIN view[o]
      /\ id \in DOMAIN rows => view[o][id] = rows[id]

\* A page that shows a row nobody wrote shows it as it is stored.
SeedInv ==
  \A o \in Operator, id \in RuleId :
    writer[id] = None /\ id \in DOMAIN rows \cap DOMAIN view[o] => view[o][id] = rows[id]

\* What a toggle read is what its button said, or another operator has written
\* the row.
ClickInv ==
  \A o \in Operator :
    action[o].step = "update" =>
      \/ action[o].isActive = action[o].label
      \/ writer[action[o].id] \notin {o, None}

ViewInv == view = [o \in Operator |-> view[o]]

IInv == TypeOK /\ ViewInv /\ OwnInv /\ SeedInv /\ ClickInv

-----------------------------------------------------------------------------
(* Rules and pages. *)

LEMMA WithType ==
  ASSUME NEW f, NEW x, NEW y
  PROVE  /\ DOMAIN With(f, x, y) = DOMAIN f \cup {x}
         /\ With(f, x, y)[x] = y
         /\ \A z \in DOMAIN f \ {x} : With(f, x, y)[z] = f[z]
BY DEF With

LEMMA WithoutType ==
  ASSUME NEW f, NEW x
  PROVE  /\ DOMAIN Without(f, x) = DOMAIN f \ {x}
         /\ \A z \in DOMAIN f \ {x} : Without(f, x)[z] = f[z]
BY DEF Without, Restrict

\* A page, or the table itself: stored rules by id.
IsPage(f, n) == DOMAIN f \subseteq 1..(n - 1) /\ \A id \in DOMAIN f : IsStored(f[id])

LEMMA RowIsStored ==
  ASSUME NEW form \in Form, Accepted(form)
  PROVE  IsStored(Row(form))
<1>1. /\ form.signal \in Signal /\ form.action \in PolicyAction
      /\ form.op \in ConditionOp /\ form.compiles \in BOOLEAN
  BY RuleAssumption
<1>2. form.action = "SAMPLE" => form.sampleRate \in 1..1000
  BY DEF Accepted
<1>3. form.action = "ROUTE" => form.destination \in Identifier
  BY DEF Accepted
<1>4. form.action = "THROTTLE" =>
        /\ form.throttleRate \div 1000 \in 1..(MaxThrottle \div 1000)
        /\ form.groupBy \in Identifier \cup {{}}
  <2> SUFFICES ASSUME form.action = "THROTTLE"
               PROVE  /\ form.throttleRate \div 1000 \in 1..(MaxThrottle \div 1000)
                      /\ form.groupBy \in Identifier \cup {{}}
    OBVIOUS
  <2> DEFINE r == form.throttleRate
  <2>1. /\ r \in 1..MaxThrottle /\ r % 1000 = 0 /\ MaxThrottle \in Nat
        /\ form.groupBy \in Identifier \cup {{}}
    BY DashboardAssumption DEF Accepted, ThrottleAccepted
  <2> HIDE DEF r
  <2>2. r \div 1000 \in 1..(MaxThrottle \div 1000)
    BY <2>1
  <2>3. QED
    BY <2>1, <2>2 DEF r
<1> DEFINE Rates     == IF form.action = "SAMPLE" THEN 1..1000 ELSE {Nil}
           Places    == IF form.action = "ROUTE" THEN Identifier ELSE {{}}
           Throttles == IF form.action = "THROTTLE" THEN 1..(MaxThrottle \div 1000) ELSE {Nil}
           Keys      == {{}} \cup IF form.action = "THROTTLE" THEN Identifier ELSE {}
           rule      == Row(form)
<1>5. /\ rule.sampleRate \in Rates /\ rule.destination \in Places
      /\ rule.throttleRate \in Throttles
  <2>1. rule.sampleRate \in Rates
    BY <1>2 DEF Row
  <2>2. rule.destination \in Places
    BY <1>3 DEF Row
  <2>3. rule.throttleRate \in Throttles
    <3> DEFINE r == form.throttleRate \div 1000
               n == MaxThrottle \div 1000
    <3>1. form.action = "THROTTLE" => r \in 1..n
      BY <1>4
    <3>2. rule.throttleRate = IF form.action = "THROTTLE" THEN r ELSE Nil
      BY DEF Row
    <3> HIDE DEF r, n, rule
    <3>3. rule.throttleRate \in IF form.action = "THROTTLE" THEN 1..n ELSE {Nil}
      BY <3>1, <3>2
    <3>4. QED
      BY <3>3 DEF n
  <2>4. QED
    BY <2>1, <2>2, <2>3
<1>6. rule.groupBy \in Keys
  <2>1. CASE form.action = "THROTTLE"
    BY <2>1, <1>4 DEF Row
  <2>2. CASE form.action # "THROTTLE"
    BY <2>2 DEF Row
  <2>3. QED
    BY <2>1, <2>2
<1>7. /\ rule = [active |-> TRUE, signal |-> form.signal, action |-> form.action,
                 op |-> form.op, compiles |-> form.compiles,
                 sampleRate |-> rule.sampleRate, destination |-> rule.destination,
                 throttleRate |-> rule.throttleRate, groupBy |-> rule.groupBy]
      /\ rule.action = form.action
  BY DEF Row
<1> HIDE DEF rule, Rates, Places, Throttles, Keys
<1>8. rule \in [active : BOOLEAN, signal : Signal, action : PolicyAction, op : ConditionOp,
                compiles : BOOLEAN, sampleRate : Rates, destination : Places,
                throttleRate : Throttles, groupBy : Keys]
  <2> DEFINE s == rule.sampleRate
             d == rule.destination
             t == rule.throttleRate
             g == rule.groupBy
  <2>1. rule = [active |-> TRUE, signal |-> form.signal, action |-> form.action,
                op |-> form.op, compiles |-> form.compiles,
                sampleRate |-> s, destination |-> d, throttleRate |-> t, groupBy |-> g]
    BY <1>7
  <2>2. s \in Rates /\ d \in Places /\ t \in Throttles /\ g \in Keys
    BY <1>5, <1>6
  <2> HIDE DEF s, d, t, g
  <2>3. QED
    BY <1>1, <2>1, <2>2
<1>9. IsStored(rule)
  BY <1>7, <1>8 DEF IsStored, Rates, Places, Throttles, Keys
<1>10. QED
  BY <1>9 DEF rule

LEMMA ToggledIsStored ==
  ASSUME NEW rule, IsStored(rule), NEW active \in BOOLEAN
  PROVE  /\ IsStored([rule EXCEPT !.active = active])
         /\ [rule EXCEPT !.active = active].active = active
BY DEF IsStored

\* Who enforces a rule that createRule stores, by its card and its pattern.
LEMMA CardsAreTrue ==
  ASSUME NEW rule, IsStored(rule), NEW signal \in Signal
  PROVE  AppliesTo(rule, signal) <=>
           rule.signal = signal /\ ShownEnforced(rule) /\ ConditionUsable(rule)
BY DEF IsStored, Signal, ConditionUsable, ShownEnforced, RuleEnforced, AppliesTo, HasLimiters

LEMMA PercentIsThreshold ==
  ASSUME NEW rate \in 1..1000
  PROVE  Percent(rate) = Threshold(rate)
BY DEF Percent, Threshold

-----------------------------------------------------------------------------
(* The inductive invariant. *)

LEMMA InitIInv == Init => IInv
<1>1. SUFFICES ASSUME Init PROVE IInv
  OBVIOUS
<1>2. /\ DOMAIN rows = {1} /\ rows[1] = Seed
      /\ \A o \in Operator : view[o] = rows /\ action[o] = Idle
      /\ \A id \in RuleId : writer[id] = None
  BY <1>1 DEF Init
<1>3. TypeOK
  BY <1>1, <1>2, RuleAssumption, DashboardAssumption DEF Init, TypeOK, Actions, RuleId
<1>4. ViewInv
  BY <1>1 DEF Init, ViewInv
<1>5. OwnInv /\ SeedInv /\ ClickInv
  BY <1>2 DEF OwnInv, SeedInv, ClickInv, Idle
<1>6. QED
  BY <1>3, <1>4, <1>5 DEF IInv

\* What TypeOK says of each table.
LEMMA Pages ==
  ASSUME TypeOK
  PROVE  /\ IsPage(rows, nextId) /\ \A o \in Operator : IsPage(view[o], nextId)
         /\ nextId \in Nat /\ MaxRules \in Nat
         /\ \A id : id \in 1..(nextId - 1) => id \in RuleId
BY DashboardAssumption DEF TypeOK, IsPage, RuleId

LEMMA TypeFromPages ==
  ASSUME TypeOK, IsPage(rows', nextId'), \A o \in Operator : IsPage(view'[o], nextId'),
         nextId' \in 2..(MaxRules + 1), action' \in [Operator -> Actions],
         clicks' \in 0..MaxClicks, writer' \in [RuleId -> Operator \cup {None}]
  PROVE  TypeOK'
<1>1. \A f \in {rows'} \cup {view'[o] : o \in Operator} :
        DOMAIN f \subseteq 1..(nextId' - 1) /\ \A id \in DOMAIN f : IsStored(f[id])
  BY DEF IsPage
<1>2. QED
  BY <1>1 DEF TypeOK, Actions, RuleId, Idle

\* A statement that writes, or deletes, one row: the others and every page stay
\* as they are, and the writer is about to see the change.
LEMMA WriteStep ==
  ASSUME IInv, NEW o \in Operator, NEW id \in RuleId, Wrote(o, id),
         action[o].step # "render", UNCHANGED view,
         DOMAIN rows' \ {id} = DOMAIN rows \ {id},
         \A k \in DOMAIN rows \ {id} : rows'[k] = rows[k]
  PROVE  ViewInv' /\ OwnInv' /\ SeedInv' /\ ClickInv'
<1>0. TypeOK /\ ViewInv /\ OwnInv /\ SeedInv /\ ClickInv
  BY DEF IInv
<1>1. /\ action'[o].step = "render"
      /\ \A p \in Operator \ {o} : action'[p] = action[p]
      /\ writer'[id] = o
      /\ \A k \in RuleId \ {id} : writer'[k] = writer[k]
  BY <1>0 DEF Wrote, TypeOK
<1>2. ViewInv'
  BY <1>0 DEF ViewInv
<1>3. OwnInv'
  <2> SUFFICES ASSUME NEW p \in Operator, NEW k \in RuleId,
                      writer'[k] = p, action'[p].step # "render"
               PROVE  /\ k \in DOMAIN rows' <=> k \in DOMAIN view[p]
                      /\ k \in DOMAIN rows' => view[p][k] = rows'[k]
    BY DEF OwnInv
  <2>1. p # o /\ k # id
    BY <1>1
  <2>2. QED
    BY <2>1, <1>0, <1>1 DEF OwnInv
<1>4. SeedInv'
  <2> SUFFICES ASSUME NEW p \in Operator, NEW k \in RuleId,
                      writer'[k] = None, k \in DOMAIN rows' \cap DOMAIN view[p]
               PROVE  view[p][k] = rows'[k]
    BY DEF SeedInv
  <2>1. k # id
    BY <1>1, DashboardAssumption
  <2>2. QED
    BY <2>1, <1>0, <1>1 DEF SeedInv
<1>5. ClickInv'
  <2> SUFFICES ASSUME NEW p \in Operator, action'[p].step = "update"
               PROVE  \/ action'[p].isActive = action'[p].label
                      \/ writer'[action'[p].id] \notin {p, None}
    BY DEF ClickInv
  <2>1. p # o /\ action'[p] = action[p]
    BY <1>1
  <2>2. action[p].id \in RuleId
    BY <2>1, <1>0 DEF TypeOK, Actions, Idle
  <2>3. CASE action[p].id = id
    BY <2>1, <2>3, <1>1, DashboardAssumption
  <2>4. CASE action[p].id # id
    BY <2>1, <2>2, <2>4, <1>0, <1>1 DEF ClickInv
  <2>5. QED
    BY <2>3, <2>4
<1>6. QED
  BY <1>2, <1>3, <1>4, <1>5

LEMMA WroteType ==
  ASSUME TypeOK, NEW o \in Operator, NEW id \in RuleId, Wrote(o, id)
  PROVE  action' \in [Operator -> Actions] /\ writer' \in [RuleId -> Operator \cup {None}]
BY DEF TypeOK, Wrote, Actions

LEMMA CreateRuleStep ==
  ASSUME IInv, NEW o \in Operator, NEW form \in Form, CreateRule(o, form)
  PROVE  IInv'
<1>0. TypeOK
  BY DEF IInv
<1>1. /\ nextId \in RuleId /\ Accepted(form) /\ nextId' = nextId + 1
      /\ rows' = With(rows, nextId, Row(form)) /\ Wrote(o, nextId)
      /\ UNCHANGED <<view, clicks>> /\ action[o].step # "render"
  BY DEF CreateRule, Idle
<1>2. /\ DOMAIN rows' = DOMAIN rows \cup {nextId} /\ rows'[nextId] = Row(form)
      /\ \A id \in DOMAIN rows \ {nextId} : rows'[id] = rows[id]
  BY <1>1 DEF With
<1>3. IsPage(rows', nextId')
  <2>1. IsStored(Row(form)) /\ IsPage(rows, nextId) /\ nextId \in Nat
    BY <1>0, <1>1, Pages, RowIsStored
  <2>2. nextId \in 1..(nextId' - 1)
    BY <2>1, <1>1 DEF RuleId
  <2>3. QED
    BY <2>1, <2>2, <1>1, <1>2 DEF IsPage
<1>4. \A p \in Operator : IsPage(view'[p], nextId')
  BY <1>0, <1>1, Pages DEF IsPage
<1>5. nextId' \in 2..(MaxRules + 1) /\ clicks' \in 0..MaxClicks
  BY <1>0, <1>1, DashboardAssumption DEF TypeOK, RuleId
<1>6. TypeOK'
  BY <1>0, <1>1, <1>3, <1>4, <1>5, WroteType, TypeFromPages
<1>7. ViewInv' /\ OwnInv' /\ SeedInv' /\ ClickInv'
  BY <1>1, <1>2, WriteStep
<1>8. QED
  BY <1>6, <1>7 DEF IInv

LEMMA WriteToggleStep ==
  ASSUME IInv, NEW o \in Operator, WriteToggle(o)
  PROVE  IInv'
<1> DEFINE id == action[o].id
           rule == [rows[id] EXCEPT !.active = ~action[o].isActive]
<1>0. TypeOK
  BY DEF IInv
<1>1. /\ id \in DOMAIN rows /\ rows' = With(rows, id, rule) /\ Wrote(o, id)
      /\ UNCHANGED <<nextId, view, clicks>> /\ action[o].step = "update"
  BY DEF WriteToggle, Updates
<1>2. id \in RuleId /\ action[o].isActive \in BOOLEAN
  BY <1>0, <1>1 DEF TypeOK, Actions, Idle
<1>3. IsStored(rule)
  BY <1>0, <1>1, <1>2, Pages, ToggledIsStored DEF IsPage
<1> HIDE DEF id, rule
<1>4. /\ DOMAIN rows' = DOMAIN rows /\ rows'[id] = rule
      /\ \A k \in DOMAIN rows \ {id} : rows'[k] = rows[k]
  BY <1>1 DEF With
<1>5. IsPage(rows', nextId') /\ \A p \in Operator : IsPage(view'[p], nextId')
  BY <1>0, <1>1, <1>3, <1>4, Pages DEF IsPage
<1>6. nextId' \in 2..(MaxRules + 1) /\ clicks' \in 0..MaxClicks
  BY <1>0, <1>1 DEF TypeOK
<1>7. TypeOK'
  BY <1>0, <1>1, <1>2, <1>5, <1>6, WroteType, TypeFromPages
<1>8. ViewInv' /\ OwnInv' /\ SeedInv' /\ ClickInv'
  BY <1>1, <1>2, <1>4, WriteStep
<1>9. QED
  BY <1>7, <1>8 DEF IInv

LEMMA DeleteRuleStep ==
  ASSUME IInv, NEW o \in Operator, NEW id \in RuleId, DeleteRule(o, id)
  PROVE  IInv'
<1>0. TypeOK
  BY DEF IInv
<1>1. /\ rows' = Without(rows, id) /\ Wrote(o, id) /\ UNCHANGED <<nextId, view>>
      /\ action[o].step # "render" /\ clicks < MaxClicks /\ clicks' = clicks + 1
  BY DEF DeleteRule, Idle
<1>2. /\ DOMAIN rows' = DOMAIN rows \ {id}
      /\ \A k \in DOMAIN rows \ {id} : rows'[k] = rows[k]
  BY <1>1, WithoutType
<1>3. IsPage(rows', nextId') /\ \A p \in Operator : IsPage(view'[p], nextId')
  BY <1>0, <1>1, <1>2, Pages DEF IsPage
<1>4. nextId' \in 2..(MaxRules + 1) /\ clicks' \in 0..MaxClicks
  BY <1>0, <1>1, DashboardAssumption DEF TypeOK
<1>5. TypeOK'
  BY <1>0, <1>1, <1>3, <1>4, WroteType, TypeFromPages
<1>6. ViewInv' /\ OwnInv' /\ SeedInv' /\ ClickInv'
  BY <1>1, <1>2, WriteStep
<1>7. QED
  BY <1>5, <1>6 DEF IInv

\* The steps that write nothing: an operator's action moves on.
LEMMA ReadToggleStep ==
  ASSUME IInv, NEW o \in Operator, NEW id \in RuleId, ReadToggle(o, id)
  PROVE  IInv'
<1>0. TypeOK /\ ViewInv /\ OwnInv /\ SeedInv /\ ClickInv
  BY DEF IInv
<1> DEFINE call == [step |-> "update", id |-> id, isActive |-> rows[id].active,
                    label |-> view[o][id].active]
<1>1. /\ action[o].step # "render" /\ id \in DOMAIN view[o] /\ id \in DOMAIN rows
      /\ clicks < MaxClicks /\ clicks' = clicks + 1
      /\ action' = [action EXCEPT ![o] = call] /\ UNCHANGED <<rows, nextId, view, writer>>
  BY DEF ReadToggle, Idle
<1>2. call \in Actions
  <2>1. IsStored(rows[id]) /\ IsStored(view[o][id])
    BY <1>0, <1>1, Pages DEF IsPage
  <2>2. rows[id].active \in BOOLEAN /\ view[o][id].active \in BOOLEAN
    BY <2>1 DEF IsStored
  <2>3. QED
    BY <2>2 DEF Actions
<1>3. call.isActive = call.label \/ writer[id] \notin {o, None}
  BY <1>0, <1>1 DEF OwnInv, SeedInv
<1>4. /\ call.step = "update" /\ call.id = id
      /\ action'[o] = call /\ \A p \in Operator \ {o} : action'[p] = action[p]
  BY <1>0, <1>1 DEF TypeOK
<1> HIDE DEF call
<1>5. action' \in [Operator -> Actions] /\ clicks' \in 0..MaxClicks
  BY <1>0, <1>1, <1>2, DashboardAssumption DEF TypeOK
<1>6. TypeOK'
  BY <1>0, <1>1, <1>5, Pages, TypeFromPages DEF TypeOK
<1>7. ViewInv' /\ SeedInv'
  BY <1>0, <1>1 DEF ViewInv, SeedInv
<1>8. OwnInv'
  <2> SUFFICES ASSUME NEW p \in Operator, NEW k \in RuleId,
                      writer[k] = p, action'[p].step # "render"
               PROVE  /\ k \in DOMAIN rows <=> k \in DOMAIN view[p]
                      /\ k \in DOMAIN rows => view[p][k] = rows[k]
    BY <1>1 DEF OwnInv
  <2>1. action[p].step # "render"
    BY <1>1, <1>4
  <2>2. QED
    BY <2>1, <1>0 DEF OwnInv
<1>9. ClickInv'
  BY <1>0, <1>1, <1>3, <1>4 DEF ClickInv
<1>10. QED
  BY <1>6, <1>7, <1>8, <1>9 DEF IInv

LEMMA ToggleThrowsStep ==
  ASSUME IInv, NEW o \in Operator, ToggleThrows(o)
  PROVE  IInv'
<1>0. TypeOK /\ ViewInv /\ OwnInv /\ SeedInv /\ ClickInv
  BY DEF IInv
<1>1. /\ action[o].step = "update" /\ action' = [action EXCEPT ![o] = Idle]
      /\ UNCHANGED <<rows, nextId, view, clicks, writer>>
  BY DEF ToggleThrows
<1>2. /\ action'[o] = Idle /\ \A p \in Operator \ {o} : action'[p] = action[p]
      /\ action' \in [Operator -> Actions]
  BY <1>0, <1>1 DEF TypeOK, Actions
<1>3. TypeOK'
  BY <1>0, <1>1, <1>2, Pages, TypeFromPages DEF TypeOK
<1>4. ViewInv' /\ SeedInv'
  BY <1>0, <1>1 DEF ViewInv, SeedInv
<1>5. OwnInv'
  <2> SUFFICES ASSUME NEW p \in Operator, NEW k \in RuleId,
                      writer[k] = p, action'[p].step # "render"
               PROVE  /\ k \in DOMAIN rows <=> k \in DOMAIN view[p]
                      /\ k \in DOMAIN rows => view[p][k] = rows[k]
    BY <1>1 DEF OwnInv
  <2>1. action[p].step # "render"
    BY <1>1, <1>2
  <2>2. QED
    BY <2>1, <1>0 DEF OwnInv
<1>6. ClickInv'
  BY <1>0, <1>1, <1>2 DEF ClickInv, Idle
<1>7. QED
  BY <1>3, <1>4, <1>5, <1>6 DEF IInv

\* The page is what is stored, whatever it was.
LEMMA PageStep ==
  ASSUME IInv, NEW o \in Operator, Render(o) \/ Refresh(o)
  PROVE  IInv'
<1>0. TypeOK /\ ViewInv /\ OwnInv /\ SeedInv /\ ClickInv
  BY DEF IInv
<1>1. /\ view' = [view EXCEPT ![o] = rows] /\ UNCHANGED <<rows, nextId, clicks, writer>>
      /\ action' = [action EXCEPT ![o] = Idle]
  BY <1>0 DEF Render, Rendered, Refresh, TypeOK
<1>2. /\ view'[o] = rows /\ \A p \in Operator \ {o} : view'[p] = view[p]
      /\ ViewInv'
  BY <1>0, <1>1 DEF ViewInv
<1>3. /\ action'[o] = Idle /\ \A p \in Operator \ {o} : action'[p] = action[p]
      /\ action' \in [Operator -> Actions]
  BY <1>0, <1>1 DEF TypeOK, Actions
<1>4. \A p \in Operator : IsPage(view'[p], nextId)
  BY <1>0, <1>2, Pages
<1>5. TypeOK'
  BY <1>0, <1>1, <1>3, <1>4, Pages, TypeFromPages DEF TypeOK
<1>6. OwnInv'
  BY <1>0, <1>1, <1>2, <1>3 DEF OwnInv
<1>7. SeedInv'
  BY <1>0, <1>1, <1>2 DEF SeedInv
<1>8. ClickInv'
  BY <1>0, <1>1, <1>3 DEF ClickInv, Idle
<1>9. QED
  BY <1>2, <1>5, <1>6, <1>7, <1>8 DEF IInv

LEMMA Invariance == Spec => []IInv
<1>1. ASSUME IInv, [Next]_vars PROVE IInv'
  <2>1. CASE UNCHANGED vars
    <3>1. TypeOK'
      BY <1>1, <2>1, Pages, TypeFromPages DEF IInv, TypeOK, vars
    <3>2. ViewInv' /\ OwnInv' /\ SeedInv' /\ ClickInv'
      BY <1>1, <2>1 DEF IInv, vars, ViewInv, OwnInv, SeedInv, ClickInv
    <3>3. QED
      BY <3>1, <3>2 DEF IInv
  <2>2. CASE \E o \in Operator, form \in Form : CreateRule(o, form)
    BY <1>1, <2>2, CreateRuleStep
  <2>3. CASE \E o \in Operator, id \in RuleId : ReadToggle(o, id) \/ DeleteRule(o, id)
    BY <1>1, <2>3, ReadToggleStep, DeleteRuleStep
  <2>4. CASE \E o \in Operator : WriteToggle(o) \/ ToggleThrows(o) \/ Render(o) \/ Refresh(o)
    BY <1>1, <2>4, WriteToggleStep, ToggleThrowsStep, PageStep
  <2>5. QED
    BY <1>1, <2>1, <2>2, <2>3, <2>4 DEF Next
<1>2. QED
  BY <1>1, InitIInv, PTL DEF Spec

-----------------------------------------------------------------------------
(* What follows from it. *)

\* Every stored row, and every row on a page, is one createRule stores: each
\* parameter belongs to the rule's action.
THEOREM TypeCorrect == Spec => []TypeOK
<1>1. IInv => TypeOK
  BY DEF IInv
<1>2. QED
  BY <1>1, Invariance, PTL

\* Whatever was stored, toggled and deleted in between, the data plane enforces
\* a rule on the signal its card names exactly if the card shows it as enforced
\* and RE2 takes its pattern, which the card does not tell.
THEOREM CardsMirrorTheDataPlane == Spec => []BadgeMirrorsDataPlane
<1>1. IInv => BadgeMirrorsDataPlane
  <2> SUFFICES ASSUME IInv, NEW o \in Operator, NEW id \in DOMAIN view[o], NEW signal \in Signal
               PROVE  AppliesTo(view[o][id], signal) <=>
                        /\ view[o][id].signal = signal
                        /\ ShownEnforced(view[o][id]) /\ ConditionUsable(view[o][id])
    BY DEF BadgeMirrorsDataPlane
  <2>1. IsStored(view[o][id])
    BY Pages DEF IInv, IsPage
  <2>2. QED
    BY <2>1, CardsAreTrue
<1>2. QED
  BY <1>1, Invariance, PTL

\* The percentage on a card is the share of the hash buckets the data plane
\* keeps, for every rate that can be stored.
THEOREM CardsShowTheRateKept == Spec => []PercentIsKept
<1>1. IInv => PercentIsKept
  BY Pages, PercentIsThreshold DEF IInv, PercentIsKept, IsPage, IsStored
<1>2. QED
  BY <1>1, Invariance, PTL

\* An operator who waits for nothing sees every change of their own that nobody
\* has overwritten.
THEOREM ChangesAreSeen == Spec => []SeesOwnChanges
<1>1. IInv => SeesOwnChanges
  BY DEF IInv, OwnInv, SeesOwnChanges, Idle
<1>2. QED
  BY <1>1, Invariance, PTL

\* A toggle ends up other than its button said only through a write of another
\* operator.
THEOREM ClicksAreHonest == Spec => ClickDoesWhatItSays
<1> DEFINE Honest ==
      \A o \in Operator :
        action[o].step = "update" /\ action'[o].step = "render" =>
          LET id == action[o].id IN
          rows'[id].active = ~action[o].label \/ writer[id] \notin {o, None}
<1>1. ASSUME IInv, [Next]_vars PROVE [Honest]_vars
  <2> SUFFICES ASSUME NEW o \in Operator, Next,
                      action[o].step = "update", action'[o].step = "render"
               PROVE  \/ rows'[action[o].id].active = ~action[o].label
                      \/ writer[action[o].id] \notin {o, None}
    BY <1>1
  <2>0. TypeOK /\ ClickInv /\ action \in [Operator -> Actions]
    BY <1>1 DEF IInv, TypeOK
  <2>1. WriteToggle(o)
    <3>1. PICK p \in Operator :
            \/ \E form \in Form : CreateRule(p, form)
            \/ \E id \in RuleId : ReadToggle(p, id) \/ DeleteRule(p, id)
            \/ WriteToggle(p) \/ ToggleThrows(p) \/ Render(p) \/ Refresh(p)
      BY DEF Next
    <3>2. CASE p # o
      <4>1. action'[o] = action[o]
        BY <2>0, <3>1, <3>2 DEF CreateRule, ReadToggle, DeleteRule, WriteToggle, ToggleThrows,
          Render, Refresh, Wrote
      <4>2. QED
        BY <4>1
    <3>3. CASE p = o
      <4>1. ToggleThrows(p) => action'[o] = Idle
        BY <2>0, <3>3 DEF ToggleThrows
      <4>2. QED
        BY <3>1, <3>3, <4>1 DEF CreateRule, ReadToggle, DeleteRule, Render, Refresh, Idle
    <3>4. QED
      BY <3>2, <3>3
  <2>2. /\ action[o].id \in DOMAIN rows
        /\ rows' = With(rows, action[o].id,
                        [rows[action[o].id] EXCEPT !.active = ~action[o].isActive])
    BY <2>1 DEF WriteToggle, Updates
  <2>3. action[o].isActive \in BOOLEAN
    BY <2>0 DEF Actions, Idle
  <2>4. rows'[action[o].id].active = ~action[o].isActive
    <3>1. IsStored(rows[action[o].id])
      BY <2>0, <2>2, Pages DEF IsPage
    <3>2. rows'[action[o].id] = [rows[action[o].id] EXCEPT !.active = ~action[o].isActive]
      BY <2>2 DEF With
    <3>3. QED
      BY <2>3, <3>1, <3>2, ToggledIsStored
  <2>5. QED
    BY <2>0, <2>4 DEF ClickInv
<1> HIDE DEF Honest
<1>2. Spec => [][Honest]_vars
  BY <1>1, Invariance, PTL DEF Spec
<1>3. QED
  BY <1>2 DEF Honest, ClickDoesWhatItSays
=============================================================================
