------------------------------- MODULE Routing -------------------------------
(***************************************************************************)
(* The routing rules of one memory workspace: the admin API that edits     *)
(* them (api/v1/routing_rules.py), the engine that routes a lead through   *)
(* them (services/routing.py), and its TypeScript twin of the showcase     *)
(* (lib/pipeline/routing.ts).  Requests do not interleave: no handler      *)
(* awaits between reading and writing the rules.                           *)
(*                                                                         *)
(* Texts stand for themselves up to case, and a lead is reduced to a text  *)
(* field and the one numeric field.                                        *)
(***************************************************************************)
EXTENDS Integers, Sequences, SequencesExt, TLC

CONSTANTS
  None,          \* no value (null)
  Integrations,  \* ids of the workspace's integrations
  Unknown,       \* an id that no integration has
  Fallback,      \* the Default CRM Sandbox
  Texts,         \* texts of leads and rules
  Substrings,    \* pairs <<text, part>> of different texts
  Amounts,       \* budgets
  Conditions,    \* [field, operator, comparison_value] of the rules made
  MaxRules,      \* bound on the number of rules
  MaxPriority    \* bound on priorities

ASSUME IntegrationAssumption == Fallback \in Integrations /\ Unknown \notin Integrations
ASSUME TextAssumption == Substrings \subseteq (Texts \X Texts) /\ {None, ""} \cap Texts = {}
ASSUME PriorityAssumption == MaxPriority \in Nat
\* A number is never spelled by the empty text.
ASSUME AmountAssumption == \A n \in Amounts : ToString(n) # ""

VARIABLES
  rules,  \* ws.rules, in order of insertion
  answer  \* the response to the last request

vars == <<rules, answer>>

Fields == {"service", "budget"}
ASSUME ConditionAssumption == \A c \in Conditions : c.field \in Fields
Operators == {"equals", "does_not_equal", "contains", "greater_than", "less_than",
              "is_empty", "is_not_empty"}
Rule == [priority: 0..MaxPriority, enabled: BOOLEAN, condition: Conditions,
         integration_id: Integrations \cup {Unknown}, stop_processing: BOOLEAN]

\* A field's value: a text, an amount, or null.
Text(t) == [kind |-> "text", text |-> t, amount |-> 0]
Amount(n) == [kind |-> "number", text |-> "", amount |-> n]
Null == [kind |-> "null", text |-> "", amount |-> 0]
Leads == [service: {Text(t) : t \in Texts} \cup {Null},
          budget: {Amount(n) : n \in Amounts} \cup {Null}]

\* The number that a text spells, in a set that is empty when it spells none.
Spelled(text) == {n \in Amounts : ToString(n) = text}

Includes(text, part) == part = "" \/ part = text \/ <<text, part>> \in Substrings
-----------------------------------------------------------------------------
(***************************************************************************)
(* services/routing.py                                                     *)
(***************************************************************************)
\* str(actual): a budget is a float.
str(actual) == IF actual.kind = "number" THEN ToString(actual.amount) \o ".0" ELSE actual.text
\* str(expected or "").
orEmpty(expected) == IF expected = None THEN "" ELSE expected
\* Mutant: float(actual or 0).
FloatOrZero(actual) ==
  IF actual.kind = "null" THEN {0}
  ELSE IF actual.kind = "number" THEN {actual.amount} ELSE Spelled(actual.text)
\* float(): None and the empty string raise.
float(actual) == IF actual.kind = "number" THEN {actual.amount} ELSE Spelled(actual.text)

evaluate_operator(actual, operator, expected) ==
  LET empty == actual = Null
      same == str(actual) = orEmpty(expected)
      right == Spelled(orEmpty(expected))
  IN  CASE operator = "is_empty" -> empty
        [] operator = "is_not_empty" -> ~empty
        [] operator = "equals" -> ~empty /\ same
        [] operator = "does_not_equal" -> empty \/ ~same
        [] operator = "contains" -> ~empty /\ Includes(str(actual), orEmpty(expected))
        [] operator = "greater_than" -> \E l \in float(actual), r \in right : l > r
        [] operator = "less_than" -> \E l \in float(actual), r \in right : l < r
        [] OTHER -> FALSE

(***************************************************************************)
(* lib/pipeline/routing.ts                                                 *)
(***************************************************************************)
String(actual) == IF actual.kind = "number" THEN ToString(actual.amount) ELSE actual.text
\* Number(): null and the empty string give 0.
Number(text) == IF text \in {None, ""} THEN {0} ELSE Spelled(text)

evaluateOperator(actual, operator, expected) ==
  LET empty == actual = Null
      same == String(actual) = orEmpty(expected)
      left == IF actual.kind = "number" THEN {actual.amount} ELSE Number(actual.text)
  IN  CASE operator = "is_empty" -> empty
        [] operator = "is_not_empty" -> ~empty
        [] operator = "equals" -> ~empty /\ same
        [] operator = "does_not_equal" -> empty \/ ~same
        [] operator = "contains" -> ~empty /\ Includes(String(actual), orEmpty(expected))
        [] operator = "greater_than" -> ~empty /\ \E l \in left, r \in Number(expected) : l > r
        [] operator = "less_than" -> ~empty /\ \E l \in left, r \in Number(expected) : l < r
        [] OTHER -> FALSE
-----------------------------------------------------------------------------
(***************************************************************************)
(* route_lead.  The two engines differ only in evaluate_operator.          *)
(***************************************************************************)
\* Mutant: later rules of the same priority go first.
LaterFirst(rs, i, j) ==
  rs[i].priority < rs[j].priority \/ (rs[i].priority = rs[j].priority /\ j < i)
\* sorted() and Array.sort are stable.
precedes(rs, i, j) ==
  rs[i].priority < rs[j].priority \/ (rs[i].priority = rs[j].priority /\ i < j)

ordered(rs) ==
  CHOOSE order \in [DOMAIN rs -> DOMAIN rs] :
    \A k, l \in DOMAIN rs : k < l => precedes(rs, order[k], order[l])

stops(did, rule) == did /\ rule.stop_processing
skipped(rule) == ~rule.enabled

destination(m, rs) == IF m = 0 THEN Fallback ELSE rs[m].integration_id

\* The loop's state: the place in the list of the rule that matched, 0 for
\* none, the evaluation log, and whether the loop was left.
Start == [matched |-> 0, log |-> <<>>, left |-> FALSE]
visit(i, rule, did, s) ==
  CASE s.left -> s
    [] ~s.left /\ skipped(rule) ->
         [s EXCEPT !.log = Append(@, [rule |-> i, matched |-> FALSE, skipped |-> TRUE])]
    [] OTHER ->
         [matched |-> IF did THEN i ELSE s.matched,
          log |-> Append(s.log, [rule |-> i, matched |-> did, skipped |-> FALSE]),
          left |-> stops(did, rule)]

\* evaluate has no effects: did says of each rule what it gives.
route(did, rs) ==
  LET order == ordered(rs)
      loop[k \in 0..Len(rs)] ==
        IF k = 0 THEN Start
        ELSE visit(order[k], rs[order[k]], did[order[k]], loop[k - 1])
      end == loop[Len(rs)]
  IN  [matched |-> end.matched, log |-> end.log,
       integration_id |-> destination(end.matched, rs)]

route_lead(lead, rs) ==
  LET holds(c) == evaluate_operator(lead[c.field], c.operator, c.comparison_value)
  IN  route([i \in DOMAIN rs |-> holds(rs[i].condition)], rs)
routeLead(lead, rs) ==
  LET holds(c) == evaluateOperator(lead[c.field], c.operator, c.comparison_value)
  IN  route([i \in DOMAIN rs |-> holds(rs[i].condition)], rs)
-----------------------------------------------------------------------------
Init == rules = <<>> /\ answer = None

Answer(status) == answer' = [kind |-> status]

create_rule ==
  /\ Len(rules) < MaxRules
  /\ \E body \in {r \in Rule : r.priority >= 1} :
       \/ /\ body.integration_id \in Integrations
          /\ rules' = Append(rules, body)
          /\ Answer("ok")
       \/ /\ body.integration_id \notin Integrations
          /\ Answer("invalid_integration")
          /\ UNCHANGED rules

\* A patch is not validated: it may name an unknown integration or a priority
\* that create_rule refuses.
patch_rule ==
  /\ \E i \in DOMAIN rules :
       \/ \E p \in 0..MaxPriority : rules' = [rules EXCEPT ![i].priority = p]
       \/ \E e \in BOOLEAN : rules' = [rules EXCEPT ![i].enabled = e]
       \/ \E c \in Conditions : rules' = [rules EXCEPT ![i].condition = c]
       \/ \E d \in Integrations \cup {Unknown} : rules' = [rules EXCEPT ![i].integration_id = d]
       \/ \E s \in BOOLEAN : rules' = [rules EXCEPT ![i].stop_processing = s]
  /\ Answer("ok")

delete_rule ==
  /\ \E i \in DOMAIN rules : rules' = RemoveAt(rules, i)
  /\ Answer("ok")

\* The simulator's answer, which is also what ingest routes by.
simulate ==
  /\ \E lead \in Leads :
       answer' = [kind |-> "routed", lead |-> lead, decision |-> route_lead(lead, rules)]
  /\ UNCHANGED rules

Next == create_rule \/ patch_rule \/ delete_rule \/ simulate

Spec == Init /\ [][Next]_vars
-----------------------------------------------------------------------------
(***************************************************************************)
(* Properties.                                                             *)
(***************************************************************************)
routed == answer # None /\ answer.kind = "routed"

applies(i) ==
  LET c == rules[i].condition
  IN  rules[i].enabled /\ evaluate_operator(answer.lead[c.field], c.operator, c.comparison_value)
\* i comes before j, in the words of the admin page: lower priority number
\* first, the older rule among equals.
comesFirst(i, j) == rules[i].priority < rules[j].priority
                    \/ (rules[i].priority = rules[j].priority /\ i < j)
\* The rules that the first match with stop_processing does not cut off.
Considered ==
  {i \in DOMAIN rules : ~\E j \in DOMAIN rules :
     comesFirst(j, i) /\ applies(j) /\ rules[j].stop_processing}

\* The decision is the last match that no stopping match comes before, and the
\* fallback exactly when no enabled rule matches.  The evaluation log tells the
\* whole story: exactly the considered rules, in their order, disabled ones
\* marked and never matching.
DecisionByPriority ==
  routed =>
    LET hits == {i \in Considered : applies(i)}
        m == answer.decision.matched
        log == answer.decision.log
    IN  /\ m = 0 <=> ~\E i \in DOMAIN rules : applies(i)
        /\ m # 0 => m \in hits /\ \A i \in hits : i = m \/ comesFirst(i, m)
        /\ answer.decision.integration_id = IF m = 0 THEN Fallback ELSE rules[m].integration_id
        /\ {log[k].rule : k \in DOMAIN log} = Considered
        /\ \A k, l \in DOMAIN log : k < l => comesFirst(log[k].rule, log[l].rule)
        /\ \A k \in DOMAIN log : /\ log[k].skipped <=> ~rules[log[k].rule].enabled
                                 /\ log[k].matched <=> log[k].rule \in hits

\* The values a rule may compare with, and the comparisons that mean the same
\* in Python and in JavaScript: a budget is compared as a number, and a number
\* is compared with something.
Values == Texts \cup {ToString(n) : n \in Amounts} \cup {"", None}
comparable(field, operator, value) ==
  /\ field = "budget" => operator \notin {"equals", "does_not_equal", "contains"}
  /\ operator \in {"greater_than", "less_than"} => value \notin {"", None}

\* On comparable conditions the two engines agree about every lead that is
\* routed: on every operator, for numbers, texts that spell none, nulls and
\* empty values, and so on the decision (services/routing.py: "Mirrors
\* src/lib/pipeline/routing.ts.").
OperatorsAgree ==
  routed =>
    /\ \A field \in Fields, operator \in Operators, value \in Values :
         comparable(field, operator, value) =>
           evaluate_operator(answer.lead[field], operator, value)
             = evaluateOperator(answer.lead[field], operator, value)
    /\ (\A i \in DOMAIN rules : LET c == rules[i].condition
                                IN  comparable(c.field, c.operator, c.comparison_value)) =>
         routeLead(answer.lead, rules) = route_lead(answer.lead, rules)
=============================================================================
