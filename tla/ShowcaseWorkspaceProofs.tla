----------------------- MODULE ShowcaseWorkspaceProofs -----------------------
(***************************************************************************)
(* Theorems about the workspace of a showcase user, for any number of      *)
(* calls, of seeded integrations and of seeded leads: what a call finds    *)
(* once ensureWorkspace has returned, what concurrent seeding leaves, and  *)
(* what a reset leaves.                                                    *)
(***************************************************************************)
EXTENDS ShowcaseWorkspace, FiniteSetTheorems, TLAPS

Integrations == [provider : 1..Providers, by : Calls \cup {Before}]
Rules == [number : Nat, integration : Integrations]
Rows == [number : Nat, seeded : BOOLEAN]
Counters == [rule : Nat, lead : Nat, delivery : Nat]
Db == [workspaces : BOOLEAN, api_keys : BOOLEAN, integrations : SUBSET Integrations,
       routing_rules : SUBSET Rules, leads : SUBSET Rows, deliveries : SUBSET Rows,
       id_counters : Counters]
CallType == [op : AllOperations \cup {None}, body : BOOLEAN, k : Nat, number : Nat,
             chosen : Integrations \cup {None}]

\* Where a seed inserts its integrations and rules, and then its leads.
RoutingStage == {"integration", "ruleNumber", "rule"}
LeadStage == {"leadNumber", "lead", "deliveryNumber", "delivery"}

\* How far a call is fits what it is.
CallOk(c) ==
  /\ call[c] \in CallType
  /\ pc[c] = "idle" => call[c] = NoCall
  /\ pc[c] # "idle" => call[c].op \in AllOperations
  /\ call[c].op = "saveRule" => call[c].chosen \in Integrations
  /\ pc[c] \in {"ensure", "leadCount"} => ~call[c].body
  /\ pc[c] \in {"ensure", "leadCount", "workspace", "key"} => call[c].k = 1
  /\ pc[c] \in {"workspace", "key", "integration", "ruleNumber"} => Seeding(c)
  /\ pc[c] = "rule" /\ ~Seeding(c) => call[c].op = "saveRule"
  /\ pc[c] \in {"ruleCount", "bumpRule"} => call[c].body /\ call[c].op = "saveRule"
  /\ pc[c] \in RoutingStage /\ Seeding(c) => call[c].k \in 1..Providers
  /\ pc[c] \in LeadStage /\ Seeding(c) => call[c].k \in 1..SeedLeads
  /\ pc[c] = "delete" => call[c].k \in 1..7 /\ call[c].op = "resetDemo" /\ call[c].body

TypeInv ==
  /\ db \in Db
  /\ pc = [c \in Calls |-> pc[c]] /\ call = [c \in Calls |-> call[c]]
  /\ faults \in Nat
  /\ \A c \in Calls : CallOk(c)

\* A step of one call, that leaves the calls of others as they are.
Alone(c) ==
  /\ pc' = [d \in Calls |-> pc'[d]] /\ call' = [d \in Calls |-> call'[d]]
  /\ \A d \in Calls \ {c} : pc'[d] = pc[d] /\ call'[d] = call[d]

\* Every step is a step of one call, and how that call moves.
LEMMA Moves ==
  ASSUME TypeInv, NEW c \in Calls, NEW l, Goto(c, l)
  PROVE  /\ pc' = [d \in Calls |-> pc'[d]] /\ pc'[c] = l
         /\ \A d \in Calls \ {c} : pc'[d] = pc[d]
BY DEF Goto, TypeInv

\* There is something to seed.
LEMMA Sizes == Providers \in Nat /\ Providers >= 1 /\ SeedLeads \in Nat /\ SeedLeads >= 1
BY SeedAssumption

\* ensureWorkspace returns.
LEMMA Entered ==
  ASSUME TypeInv, NEW c \in Calls, EnterBody(c)
  PROVE  /\ Alone(c) /\ call'[c] \in CallType /\ call'[c].body /\ call'[c].k = 1
         /\ call'[c].op = call[c].op /\ call'[c].chosen = call[c].chosen
         /\ call[c].op = "getDashboard" => pc'[c] = "done"
         /\ call[c].op = "submitIntake" => pc'[c] = "leadNumber"
         /\ call[c].op = "saveRule" => pc'[c] = "ruleCount"
         /\ call[c].op = "resetDemo" => pc'[c] = "delete"
<1> DEFINE label == CASE call[c].op = "getDashboard" -> "done"
                      [] call[c].op = "submitIntake" -> "leadNumber"
                      [] call[c].op = "saveRule" -> "ruleCount"
                      [] call[c].op = "resetDemo" -> "delete"
<1>1. /\ call' = [call EXCEPT ![c].body = TRUE, ![c].k = 1] /\ Goto(c, label)
  BY DEF EnterBody
<1>2. /\ call[c].op = "getDashboard" => label = "done"
      /\ call[c].op = "submitIntake" => label = "leadNumber"
      /\ call[c].op = "saveRule" => label = "ruleCount"
      /\ call[c].op = "resetDemo" => label = "delete"
  OBVIOUS
<1> HIDE DEF label
<1>3. /\ call' = [d \in Calls |-> call'[d]] /\ \A d \in Calls \ {c} : call'[d] = call[d]
      /\ call'[c] = [call[c] EXCEPT !.body = TRUE, !.k = 1]
  BY <1>1 DEF TypeInv
<1>4. call[c] \in CallType
  BY DEF TypeInv, CallOk
<1>5. [call[c] EXCEPT !.body = TRUE, !.k = 1] \in CallType
  BY <1>4 DEF CallType
<1>6. /\ call'[c] \in CallType /\ call'[c].body /\ call'[c].k = 1
      /\ call'[c].op = call[c].op /\ call'[c].chosen = call[c].chosen
  BY <1>3, <1>4, <1>5 DEF CallType
<1>7. /\ pc' = [d \in Calls |-> pc'[d]] /\ pc'[c] = label
      /\ \A d \in Calls \ {c} : pc'[d] = pc[d]
  BY <1>1, Moves
<1>8. Alone(c)
  BY <1>3, <1>7 DEF Alone
<1>9. QED
  BY <1>2, <1>6, <1>7, <1>8

\* A loop goes to its next row, or on.
LEMMA Looped ==
  ASSUME TypeInv, NEW c \in Calls, NEW count \in Nat, NEW again, NEW after,
         Loop(c, count, again, after)
  PROVE  /\ Alone(c) /\ call'[c] \in CallType /\ (call'[c].body <=> call[c].body)
         /\ call'[c].op = call[c].op /\ call'[c].chosen = call[c].chosen
         /\ call'[c].number = call[c].number
         /\ call[c].k < count => pc'[c] = again /\ call'[c].k = call[c].k + 1
         /\ ~(call[c].k < count) => pc'[c] = after /\ call'[c].k = 1
<1>1. /\ Goto(c, IF call[c].k < count THEN again ELSE after)
      /\ call' = [call EXCEPT ![c].k = IF @ < count THEN @ + 1 ELSE 1]
  BY DEF Loop
<1>2. /\ call' = [d \in Calls |-> call'[d]] /\ \A d \in Calls \ {c} : call'[d] = call[d]
      /\ call'[c] = [call[c] EXCEPT !.k = IF @ < count THEN @ + 1 ELSE 1]
  BY <1>1 DEF TypeInv
<1>3. call[c] \in CallType /\ call[c].k \in Nat
  BY DEF TypeInv, CallOk, CallType
<1>4. CASE call[c].k < count
  <2>1. call'[c] = [call[c] EXCEPT !.k = call[c].k + 1] /\ pc'[c] = again
    BY <1>1, <1>2, <1>4, Moves
  <2>2. call[c].k + 1 \in Nat
    BY <1>3
  <2>3. [call[c] EXCEPT !.k = call[c].k + 1] \in CallType
    BY <1>3, <2>2 DEF CallType
  <2>4. QED
    BY <1>1, <1>2, <1>3, <1>4, <2>1, <2>3, Moves DEF CallType, Alone
<1>5. CASE ~(call[c].k < count)
  <2>1. call'[c] = [call[c] EXCEPT !.k = 1] /\ pc'[c] = after
    BY <1>1, <1>2, <1>5, Moves
  <2>2. [call[c] EXCEPT !.k = 1] \in CallType
    BY <1>3 DEF CallType
  <2>3. QED
    BY <1>1, <1>2, <1>3, <1>5, <2>1, <2>2, Moves DEF CallType, Alone
<1>6. QED
  BY <1>4, <1>5

\* A step of one call is well typed when that call and the tables are.
LEMMA TypeStep ==
  ASSUME TypeInv, NEW c \in Calls, Alone(c), db' \in Db, faults' \in Nat, CallOk(c)'
  PROVE  TypeInv'
<1>1. ASSUME NEW d \in Calls, d # c PROVE CallOk(d)'
  <2>1. pc'[d] = pc[d] /\ call'[d] = call[d] /\ CallOk(d)
    BY <1>1 DEF Alone, TypeInv
  <2>2. QED
    BY <2>1 DEF CallOk, Seeding
<1>2. QED
  BY <1>1 DEF TypeInv, Alone
-----------------------------------------------------------------------------
(***************************************************************************)
(* What each step does.                                                    *)
(***************************************************************************)

\* The label of a call changes, and nothing else of it.
Stepped(c) == Alone(c) /\ call'[c] = call[c]

\* A step that only moves a call on.
LEMMA Steps ==
  ASSUME TypeInv, NEW c \in Calls, NEW l, Goto(c, l), UNCHANGED call
  PROVE  Stepped(c) /\ pc'[c] = l
BY Moves DEF Stepped, Alone, TypeInv

\* A call before it is called.
LEMMA NoneOfAll == NoCall \in CallType /\ ~NoCall.body /\ NoCall.k = 1 /\ NoCall.op = None
BY DEF NoCall, CallType

\* What a start does.
LEMMA StartFacts ==
  ASSUME TypeInv, NEW c \in Calls, Start(c)
  PROVE  /\ Alone(c) /\ pc[c] = "idle" /\ pc'[c] = "ensure" /\ db' = db /\ faults' = faults
         /\ call'[c] \in CallType /\ ~call'[c].body /\ call'[c].k = 1
         /\ call'[c].op \in AllOperations
         /\ call'[c].op = "saveRule" => call'[c].chosen \in Integrations
         /\ overlap' = [x \in Calls |-> IF x = c THEN \E y \in Calls : Running(y)
                                       ELSE overlap[x] \/ Running(x)]
<1>1. PICK op \in Operations, i \in db.integrations \cup {None} :
        /\ (op = "saveRule") <=> (i # None)
        /\ call' = [call EXCEPT ![c] = [NoCall EXCEPT !.op = op, !.chosen = i]]
  BY DEF Start
<1> DEFINE new == [NoCall EXCEPT !.op = op, !.chosen = i]
<1>2. NoCall \in CallType /\ ~NoCall.body /\ NoCall.k = 1
  BY NoneOfAll
<1>3. op \in AllOperations /\ i \in Integrations \cup {None}
  BY CallAssumption DEF TypeInv, Db
<1>4. new \in CallType
  BY <1>2, <1>3 DEF CallType
<1>5. /\ new.op = op /\ ~new.body /\ new.k = 1 /\ new.chosen = i
  BY <1>2 DEF CallType
<1> HIDE DEF new
<1>6. /\ call' = [d \in Calls |-> call'[d]] /\ \A d \in Calls \ {c} : call'[d] = call[d]
      /\ call'[c] = new
  BY <1>1 DEF TypeInv, new
<1>7. /\ pc' = [d \in Calls |-> pc'[d]] /\ pc'[c] = "ensure"
      /\ \A d \in Calls \ {c} : pc'[d] = pc[d]
  BY Moves DEF Start
<1>8. Alone(c)
  BY <1>6, <1>7 DEF Alone
<1>9. op = "saveRule" => i \in Integrations
  BY <1>1, <1>3
<1>10. QED
  BY <1>3, <1>4, <1>5, <1>6, <1>7, <1>8, <1>9 DEF Start

\* What the look at the workspaces row does.
LEMMA LookUpFacts ==
  ASSUME TypeInv, NEW c \in Calls, LookUpWorkspace(c)
  PROVE  /\ Stepped(c) /\ pc[c] = "ensure" /\ pc'[c] \in {"leadCount", "workspace"}
         /\ db' = db /\ faults' = faults /\ overlap' = overlap
BY Steps DEF LookUpWorkspace

\* What the count of the leads does.
LEMMA CountFacts ==
  ASSUME TypeInv, NEW c \in Calls, CountLeads(c)
  PROVE  /\ pc[c] = "leadCount" /\ db' = db /\ faults' = faults /\ overlap' = overlap
         /\ \/ db.leads # {} /\ EnterBody(c)
            \/ db.leads = {} /\ Stepped(c) /\ pc'[c] = "workspace"
BY Steps DEF CountLeads, seeded

\* What the insertion of the workspaces row does.
LEMMA WorkspaceFacts ==
  ASSUME TypeInv, NEW c \in Calls, InsertWorkspace(c)
  PROVE  /\ Stepped(c) /\ pc[c] = "workspace" /\ pc'[c] = "key" /\ faults' = faults
         /\ overlap' = overlap
         /\ db' \in Db /\ db' = [db EXCEPT !.workspaces = TRUE]
         /\ db'.workspaces /\ db'.api_keys = db.api_keys /\ db'.integrations = db.integrations
         /\ db'.routing_rules = db.routing_rules /\ db'.leads = db.leads
         /\ db'.deliveries = db.deliveries /\ db'.id_counters = db.id_counters
<1>1. /\ Stepped(c) /\ pc[c] = "workspace" /\ pc'[c] = "key" /\ faults' = faults
      /\ overlap' = overlap /\ db' = [db EXCEPT !.workspaces = TRUE]
  BY Steps DEF InsertWorkspace
<1>2. db \in Db
  BY DEF TypeInv
<1>3. [db EXCEPT !.workspaces = TRUE] \in Db
  BY <1>2 DEF Db
<1>4. QED
  BY <1>1, <1>2, <1>3 DEF Db

\* What the insertion of the api key does.
LEMMA KeyFacts ==
  ASSUME TypeInv, NEW c \in Calls, InsertKey(c)
  PROVE  /\ Stepped(c) /\ pc[c] = "key" /\ faults' = faults /\ overlap' = overlap
         /\ \/ /\ ~db.api_keys /\ pc'[c] = "integration"
               /\ db' \in Db /\ db' = [db EXCEPT !.api_keys = TRUE]
               /\ db'.api_keys /\ db'.workspaces = db.workspaces
               /\ db'.integrations = db.integrations
               /\ db'.routing_rules = db.routing_rules /\ db'.leads = db.leads
               /\ db'.deliveries = db.deliveries /\ db'.id_counters = db.id_counters
            \/ db.api_keys /\ pc'[c] = "failed" /\ db' = db
<1>1. db \in Db
  BY DEF TypeInv
<1>2. [db EXCEPT !.api_keys = TRUE] \in Db
  BY <1>1 DEF Db
<1>3. CASE ~db.api_keys /\ db' = [db EXCEPT !.api_keys = TRUE] /\ Goto(c, "integration") /\ UNCHANGED call
  <2>1. Stepped(c) /\ pc'[c] = "integration"
    BY <1>3, Steps
  <2>2. /\ db' \in Db /\ db'.api_keys /\ db'.workspaces = db.workspaces
        /\ db'.integrations = db.integrations
        /\ db'.routing_rules = db.routing_rules /\ db'.leads = db.leads
        /\ db'.deliveries = db.deliveries /\ db'.id_counters = db.id_counters
    BY <1>1, <1>2, <1>3 DEF Db
  <2>3. QED
    BY <1>3, <2>1, <2>2 DEF InsertKey
<1>4. CASE db.api_keys /\ Fails(c)
  BY <1>4, Steps DEF InsertKey, Fails
<1>5. QED
  BY <1>3, <1>4 DEF InsertKey, keyFree

\* What the insertion of an integration does.
LEMMA IntegrationFacts ==
  ASSUME TypeInv, NEW c \in Calls, InsertIntegration(c)
  PROVE  /\ pc[c] = "integration" /\ faults' = faults /\ overlap' = overlap
         /\ \/ /\ \A i \in db.integrations : i.provider # call[c].k
               /\ Loop(c, Providers, "integration", "ruleNumber")
               /\ db' \in Db
               /\ db'.integrations = db.integrations \cup {[provider |-> call[c].k, by |-> c]}
               /\ db'.workspaces = db.workspaces /\ db'.api_keys = db.api_keys
               /\ db'.routing_rules = db.routing_rules /\ db'.leads = db.leads
               /\ db'.deliveries = db.deliveries /\ db'.id_counters = db.id_counters
            \/ /\ \E i \in db.integrations : i.provider = call[c].k
               /\ Stepped(c) /\ pc'[c] = "failed" /\ db' = db
<1> DEFINE new == [provider |-> call[c].k, by |-> c]
<1>1. db \in Db /\ pc[c] = "integration" /\ faults' = faults /\ overlap' = overlap
  BY DEF TypeInv, InsertIntegration
<1>2. new \in Integrations
  BY <1>1 DEF TypeInv, CallOk, RoutingStage, Integrations
<1>3. [db EXCEPT !.integrations = @ \cup {new}] \in Db
  <2>1. db.integrations \cup {new} \in SUBSET Integrations
    BY <1>1, <1>2 DEF Db
  <2> HIDE DEF new
  <2>2. QED
    BY <1>1, <2>1 DEF Db
<1>4. CASE /\ \A i \in db.integrations : i.provider # call[c].k
           /\ db' = [db EXCEPT !.integrations = @ \cup {new}]
           /\ Loop(c, Providers, "integration", "ruleNumber")
  <2> HIDE DEF new
  <2>1. /\ db' \in Db /\ db'.integrations = db.integrations \cup {new}
        /\ db'.workspaces = db.workspaces /\ db'.api_keys = db.api_keys
        /\ db'.routing_rules = db.routing_rules /\ db'.leads = db.leads
        /\ db'.deliveries = db.deliveries /\ db'.id_counters = db.id_counters
    BY <1>1, <1>3, <1>4 DEF Db
  <2>2. QED
    BY <1>1, <1>4, <2>1 DEF new
<1>5. CASE /\ \E i \in db.integrations : i.provider = call[c].k
           /\ Fails(c)
  BY <1>1, <1>5, Steps DEF Fails
<1>6. QED
  BY <1>4, <1>5 DEF InsertIntegration

\* Counters are numbers, and the table of counters is all that changes with one.
LEMMA CounterUp ==
  ASSUME db \in Db, NEW kind \in {"rule", "lead", "delivery"},
         db' = [db EXCEPT !.id_counters[kind] = @ + 1]
  PROVE  /\ db' \in Db /\ db.id_counters[kind] \in Nat
         /\ db'.id_counters[kind] = db.id_counters[kind] + 1
         /\ \A other \in {"rule", "lead", "delivery"} : db.id_counters[other] \in Nat
         /\ \A other \in {"rule", "lead", "delivery"} \ {kind} :
              db'.id_counters[other] = db.id_counters[other]
         /\ db'.workspaces = db.workspaces /\ db'.api_keys = db.api_keys
         /\ db'.integrations = db.integrations /\ db'.routing_rules = db.routing_rules
         /\ db'.leads = db.leads /\ db'.deliveries = db.deliveries
<1> DEFINE ids == [db.id_counters EXCEPT ![kind] = @ + 1]
<1>1. db.id_counters \in Counters
  BY DEF Db
<1>2. /\ db.id_counters["rule"] \in Nat /\ db.id_counters["lead"] \in Nat
      /\ db.id_counters["delivery"] \in Nat /\ DOMAIN db.id_counters = {"rule", "lead", "delivery"}
  BY <1>1 DEF Counters
<1>3. ids \in Counters
  <2>1. CASE kind = "rule"
    BY <1>1, <1>2, <2>1 DEF Counters
  <2>2. CASE kind = "lead"
    BY <1>1, <1>2, <2>2 DEF Counters
  <2>3. CASE kind = "delivery"
    BY <1>1, <1>2, <2>3 DEF Counters
  <2>4. QED
    BY <2>1, <2>2, <2>3
<1>4. /\ ids[kind] = db.id_counters[kind] + 1
      /\ \A other \in {"rule", "lead", "delivery"} \ {kind} : ids[other] = db.id_counters[other]
  BY <1>2
<1>5. db' = [db EXCEPT !.id_counters = ids]
  BY DEF Db
<1> HIDE DEF ids
<1>6. [db EXCEPT !.id_counters = ids] \in Db
  BY <1>3 DEF Db
<1>7. /\ db'.id_counters = ids /\ db'.workspaces = db.workspaces /\ db'.api_keys = db.api_keys
      /\ db'.integrations = db.integrations /\ db'.routing_rules = db.routing_rules
      /\ db'.leads = db.leads /\ db'.deliveries = db.deliveries
  BY <1>5, <1>6 DEF Db
<1>8. QED
  BY <1>2, <1>4, <1>5, <1>6, <1>7

\* A number is drawn.
LEMMA DrawFacts ==
  ASSUME TypeInv, NEW c \in Calls, NEW kind \in {"rule", "lead", "delivery"}, NEW next,
         NextPublic(c, kind, next)
  PROVE  /\ Alone(c) /\ pc'[c] = next /\ faults' = faults /\ overlap' = overlap
         /\ call'[c] \in CallType /\ (call'[c].body <=> call[c].body)
         /\ call'[c].op = call[c].op /\ call'[c].chosen = call[c].chosen /\ call'[c].k = call[c].k
         /\ call'[c].number = db.id_counters[kind] + 1
         /\ db' \in Db /\ db.id_counters[kind] \in Nat
         /\ db'.id_counters[kind] = db.id_counters[kind] + 1
         /\ \A other \in {"rule", "lead", "delivery"} : db.id_counters[other] \in Nat
         /\ \A other \in {"rule", "lead", "delivery"} \ {kind} :
              db'.id_counters[other] = db.id_counters[other]
         /\ db'.workspaces = db.workspaces /\ db'.api_keys = db.api_keys
         /\ db'.integrations = db.integrations /\ db'.routing_rules = db.routing_rules
         /\ db'.leads = db.leads /\ db'.deliveries = db.deliveries
<1>1. /\ db' = [db EXCEPT !.id_counters[kind] = @ + 1]
      /\ call' = [call EXCEPT ![c].number = db.id_counters[kind] + 1]
      /\ Goto(c, next) /\ faults' = faults /\ overlap' = overlap
  BY DEF NextPublic
<1>2. db \in Db /\ call[c] \in CallType
  BY DEF TypeInv, CallOk
<1>3. PICK n : n = db.id_counters[kind] + 1
  OBVIOUS
<1>4. /\ db' \in Db /\ db.id_counters[kind] \in Nat
      /\ db'.id_counters[kind] = db.id_counters[kind] + 1
      /\ \A other \in {"rule", "lead", "delivery"} : db.id_counters[other] \in Nat
      /\ \A other \in {"rule", "lead", "delivery"} \ {kind} :
           db'.id_counters[other] = db.id_counters[other]
      /\ db'.workspaces = db.workspaces /\ db'.api_keys = db.api_keys
      /\ db'.integrations = db.integrations /\ db'.routing_rules = db.routing_rules
      /\ db'.leads = db.leads /\ db'.deliveries = db.deliveries
  BY <1>1, <1>2, CounterUp
<1>5. n \in Nat
  BY <1>3, <1>4
<1>6. /\ call' = [d \in Calls |-> call'[d]] /\ \A d \in Calls \ {c} : call'[d] = call[d]
      /\ call'[c] = [call[c] EXCEPT !.number = n]
  BY <1>1, <1>3 DEF TypeInv
<1>7. [call[c] EXCEPT !.number = n] \in CallType
  BY <1>2, <1>5 DEF CallType
<1>8. /\ call'[c] \in CallType /\ (call'[c].body <=> call[c].body)
      /\ call'[c].op = call[c].op /\ call'[c].chosen = call[c].chosen /\ call'[c].k = call[c].k
      /\ call'[c].number = n
  BY <1>2, <1>6, <1>7 DEF CallType
<1>9. Alone(c) /\ pc'[c] = next
  BY <1>1, <1>6, Moves DEF Alone
<1>10. QED
  BY <1>1, <1>3, <1>4, <1>8, <1>9

\* A call returns: from its own statements, or from ensureWorkspace.
LEMMA ReturnFacts ==
  ASSUME TypeInv, NEW c \in Calls, Return(c)
  PROVE  \/ call[c].body /\ Stepped(c) /\ pc'[c] = "done"
         \/ ~call[c].body /\ EnterBody(c)
BY Steps DEF Return

Target(c) == IF Seeding(c) THEN [provider |-> call[c].k, by |-> c] ELSE call[c].chosen

\* What the insertion of a rule does.
LEMMA RuleFacts ==
  ASSUME TypeInv, NEW c \in Calls, InsertRule(c)
  PROVE  /\ pc[c] = "rule" /\ faults' = faults /\ overlap' = overlap
         /\ \/ /\ free(db.routing_rules, call[c].number)
               /\ IF Seeding(c) THEN Loop(c, Providers, "ruleNumber", "leadNumber") ELSE Return(c)
               /\ db' \in Db
               /\ db'.routing_rules = db.routing_rules
                    \cup {[number |-> call[c].number, integration |-> Target(c)]}
               /\ db'.workspaces = db.workspaces /\ db'.api_keys = db.api_keys
               /\ db'.integrations = db.integrations /\ db'.leads = db.leads
               /\ db'.deliveries = db.deliveries /\ db'.id_counters = db.id_counters
            \/ /\ ~free(db.routing_rules, call[c].number)
               /\ Stepped(c) /\ pc'[c] = "failed" /\ db' = db
<1> DEFINE new == [number |-> call[c].number, integration |-> Target(c)]
<1>1. db \in Db /\ pc[c] = "rule" /\ faults' = faults /\ overlap' = overlap /\ CallOk(c)
  BY DEF TypeInv, InsertRule
<1>2. Target(c) \in Integrations
  <2>1. CASE Seeding(c)
    <3>1. call[c].k \in 1..Providers
      BY <1>1, <2>1 DEF CallOk, RoutingStage
    <3>2. QED
      BY <2>1, <3>1 DEF Target, Integrations
  <2>2. CASE ~Seeding(c)
    BY <1>1, <2>2 DEF CallOk, Target
  <2>3. QED
    BY <2>1, <2>2
<1>3. new \in Rules
  BY <1>1, <1>2 DEF CallOk, CallType, Rules
<1> HIDE DEF new
<1>4. [db EXCEPT !.routing_rules = @ \cup {new}] \in Db
  <2>1. db.routing_rules \cup {new} \in SUBSET Rules
    BY <1>1, <1>3 DEF Db
  <2>2. QED
    BY <1>1, <2>1 DEF Db
<1>5. CASE /\ free(db.routing_rules, call[c].number)
           /\ db' = [db EXCEPT !.routing_rules = @ \cup {new}]
           /\ IF Seeding(c) THEN Loop(c, Providers, "ruleNumber", "leadNumber") ELSE Return(c)
  <2>1. /\ db' \in Db /\ db'.routing_rules = db.routing_rules \cup {new}
        /\ db'.workspaces = db.workspaces /\ db'.api_keys = db.api_keys
        /\ db'.integrations = db.integrations /\ db'.leads = db.leads
        /\ db'.deliveries = db.deliveries /\ db'.id_counters = db.id_counters
    BY <1>1, <1>4, <1>5 DEF Db
  <2>2. QED
    BY <1>1, <1>5, <2>1 DEF new
<1>6. CASE ~free(db.routing_rules, call[c].number) /\ Fails(c)
  BY <1>1, <1>6, Steps DEF Fails
<1>7. QED
  BY <1>5, <1>6 DEF InsertRule, Target, new

\* What the insertion of a lead does.
LEMMA LeadFacts ==
  ASSUME TypeInv, NEW c \in Calls, InsertLead(c)
  PROVE  /\ pc[c] = "lead" /\ faults' = faults /\ overlap' = overlap /\ Stepped(c)
         /\ \/ /\ free(db.leads, call[c].number) /\ pc'[c] = "deliveryNumber"
               /\ db' \in Db
               /\ db'.leads = db.leads \cup {[number |-> call[c].number, seeded |-> Seeding(c)]}
               /\ db'.workspaces = db.workspaces /\ db'.api_keys = db.api_keys
               /\ db'.integrations = db.integrations /\ db'.routing_rules = db.routing_rules
               /\ db'.deliveries = db.deliveries /\ db'.id_counters = db.id_counters
            \/ /\ ~free(db.leads, call[c].number) /\ pc'[c] = "failed" /\ db' = db
<1> DEFINE new == [number |-> call[c].number, seeded |-> Seeding(c)]
<1>1. db \in Db /\ pc[c] = "lead" /\ faults' = faults /\ overlap' = overlap /\ call[c] \in CallType
  BY DEF TypeInv, InsertLead, CallOk
<1>2. new \in Rows
  <2>1. Seeding(c) \in BOOLEAN
    BY <1>1, Zenon DEF Seeding
  <2>2. call[c].number \in Nat
    BY <1>1 DEF CallType
  <2>3. QED
    BY <2>1, <2>2 DEF Rows
<1> HIDE DEF new
<1>3. [db EXCEPT !.leads = @ \cup {new}] \in Db
  <2>1. db.leads \cup {new} \in SUBSET Rows
    BY <1>1, <1>2 DEF Db
  <2>2. QED
    BY <1>1, <2>1 DEF Db
<1>4. CASE /\ free(db.leads, call[c].number)
           /\ db' = [db EXCEPT !.leads = @ \cup {new}]
           /\ Goto(c, "deliveryNumber") /\ UNCHANGED call
  <2>1. /\ db' \in Db /\ db'.leads = db.leads \cup {new}
        /\ db'.workspaces = db.workspaces /\ db'.api_keys = db.api_keys
        /\ db'.integrations = db.integrations /\ db'.routing_rules = db.routing_rules
        /\ db'.deliveries = db.deliveries /\ db'.id_counters = db.id_counters
    BY <1>1, <1>3, <1>4 DEF Db
  <2>2. QED
    BY <1>1, <1>4, <2>1, Steps DEF new
<1>5. CASE ~free(db.leads, call[c].number) /\ Fails(c)
  BY <1>1, <1>5, Steps DEF Fails
<1>6. QED
  BY <1>4, <1>5 DEF InsertLead, Insert, new

\* What the insertion of a delivery does.
LEMMA DeliveryFacts ==
  ASSUME TypeInv, NEW c \in Calls, InsertDelivery(c)
  PROVE  /\ pc[c] = "delivery" /\ faults' = faults /\ overlap' = overlap
         /\ \/ /\ free(db.deliveries, call[c].number)
               /\ \/ Seeding(c) /\ call[c].k < SeedLeads /\ Loop(c, SeedLeads, "leadNumber", "done")
                  \/ ~(Seeding(c) /\ call[c].k < SeedLeads) /\ Return(c)
               /\ db' \in Db
               /\ db'.deliveries = db.deliveries
                    \cup {[number |-> call[c].number, seeded |-> Seeding(c)]}
               /\ db'.workspaces = db.workspaces /\ db'.api_keys = db.api_keys
               /\ db'.integrations = db.integrations /\ db'.routing_rules = db.routing_rules
               /\ db'.leads = db.leads /\ db'.id_counters = db.id_counters
            \/ /\ ~free(db.deliveries, call[c].number)
               /\ Stepped(c) /\ pc'[c] = "failed" /\ db' = db
<1> DEFINE new == [number |-> call[c].number, seeded |-> Seeding(c)]
<1>1. db \in Db /\ pc[c] = "delivery" /\ faults' = faults /\ overlap' = overlap
      /\ call[c] \in CallType
  BY DEF TypeInv, InsertDelivery, CallOk
<1>2. new \in Rows
  <2>1. Seeding(c) \in BOOLEAN
    BY <1>1, Zenon DEF Seeding
  <2>2. call[c].number \in Nat
    BY <1>1 DEF CallType
  <2>3. QED
    BY <2>1, <2>2 DEF Rows
<1> HIDE DEF new
<1>3. [db EXCEPT !.deliveries = @ \cup {new}] \in Db
  <2>1. db.deliveries \cup {new} \in SUBSET Rows
    BY <1>1, <1>2 DEF Db
  <2>2. QED
    BY <1>1, <2>1 DEF Db
<1>4. CASE /\ free(db.deliveries, call[c].number)
           /\ db' = [db EXCEPT !.deliveries = @ \cup {new}]
           /\ IF Seeding(c) /\ call[c].k < SeedLeads
              THEN Loop(c, SeedLeads, "leadNumber", "done") ELSE Return(c)
  <2>1. /\ db' \in Db /\ db'.deliveries = db.deliveries \cup {new}
        /\ db'.workspaces = db.workspaces /\ db'.api_keys = db.api_keys
        /\ db'.integrations = db.integrations /\ db'.routing_rules = db.routing_rules
        /\ db'.leads = db.leads /\ db'.id_counters = db.id_counters
    BY <1>1, <1>3, <1>4 DEF Db
  <2>2. QED
    BY <1>1, <1>4, <2>1 DEF new
<1>5. CASE ~free(db.deliveries, call[c].number) /\ Fails(c)
  BY <1>1, <1>5, Steps DEF Fails
<1>6. QED
  BY <1>4, <1>5 DEF InsertDelivery, Insert, new, seedCount

\* saveRule reads the counter of rules, and counts on.
LEMMA ReadFacts ==
  ASSUME TypeInv, NEW c \in Calls, ReadRuleCount(c)
  PROVE  /\ Alone(c) /\ pc[c] = "ruleCount" /\ pc'[c] = "bumpRule" /\ db' = db
         /\ faults' = faults /\ overlap' = overlap
         /\ call'[c] \in CallType /\ (call'[c].body <=> call[c].body)
         /\ call'[c].op = call[c].op /\ call'[c].chosen = call[c].chosen /\ call'[c].k = call[c].k
<1>1. db \in Db /\ call[c] \in CallType
  BY DEF TypeInv, CallOk
<1>2. PICK n : n = db.id_counters.rule
  OBVIOUS
<1>3. n \in Nat
  BY <1>1, <1>2 DEF Db, Counters
<1>4. /\ call' = [d \in Calls |-> call'[d]] /\ \A d \in Calls \ {c} : call'[d] = call[d]
      /\ call'[c] = [call[c] EXCEPT !.number = n]
  BY <1>2 DEF TypeInv, ReadRuleCount, ruleCount
<1>5. [call[c] EXCEPT !.number = n] \in CallType
  BY <1>1, <1>3 DEF CallType
<1>6. /\ call'[c] \in CallType /\ (call'[c].body <=> call[c].body)
      /\ call'[c].op = call[c].op /\ call'[c].chosen = call[c].chosen /\ call'[c].k = call[c].k
  BY <1>1, <1>4, <1>5 DEF CallType
<1>7. Goto(c, "bumpRule") /\ pc[c] = "ruleCount" /\ db' = db /\ faults' = faults /\ overlap' = overlap
  BY DEF ReadRuleCount
<1>8. Alone(c) /\ pc'[c] = "bumpRule"
  BY <1>4, <1>7, Moves DEF Alone
<1>9. QED
  BY <1>6, <1>7, <1>8

\* What the second statement of saveRule does.
LEMMA BumpFacts ==
  ASSUME TypeInv, NEW c \in Calls, BumpRuleCount(c)
  PROVE  /\ Alone(c) /\ pc[c] = "bumpRule" /\ pc'[c] = "rule"
         /\ faults' = faults /\ overlap' = overlap
         /\ call'[c] \in CallType /\ (call'[c].body <=> call[c].body)
         /\ call'[c].op = call[c].op /\ call'[c].chosen = call[c].chosen /\ call'[c].k = call[c].k
         /\ db' \in Db
         /\ \A other \in {"lead", "delivery"} : db'.id_counters[other] = db.id_counters[other]
         /\ db'.workspaces = db.workspaces /\ db'.api_keys = db.api_keys
         /\ db'.integrations = db.integrations /\ db'.routing_rules = db.routing_rules
         /\ db'.leads = db.leads /\ db'.deliveries = db.deliveries
<1>1. db \in Db /\ call[c] \in CallType
  BY DEF TypeInv, CallOk
<1>2. /\ Goto(c, "rule") /\ pc[c] = "bumpRule" /\ faults' = faults /\ overlap' = overlap
      /\ db' = [db EXCEPT !.id_counters.rule = @ + 1]
      /\ call' = [call EXCEPT ![c].number = ruleNumber(@)]
  BY DEF BumpRuleCount
<1>3. PICK n : n = ruleNumber(call[c].number)
  OBVIOUS
<1>4. n \in Nat
  BY <1>1, <1>3 DEF ruleNumber, CallType
<1>5. /\ call' = [d \in Calls |-> call'[d]] /\ \A d \in Calls \ {c} : call'[d] = call[d]
      /\ call'[c] = [call[c] EXCEPT !.number = n]
  BY <1>2, <1>3 DEF TypeInv
<1>6. [call[c] EXCEPT !.number = n] \in CallType
  BY <1>1, <1>4 DEF CallType
<1>7. /\ call'[c] \in CallType /\ (call'[c].body <=> call[c].body)
      /\ call'[c].op = call[c].op /\ call'[c].chosen = call[c].chosen /\ call'[c].k = call[c].k
  BY <1>1, <1>5, <1>6 DEF CallType
<1>8. Alone(c) /\ pc'[c] = "rule"
  BY <1>2, <1>5, Moves DEF Alone
<1>9. db' = [db EXCEPT !.id_counters["rule"] = @ + 1]
  BY <1>2
<1>10. /\ db' \in Db
       /\ \A other \in {"rule", "lead", "delivery"} \ {"rule"} :
            db'.id_counters[other] = db.id_counters[other]
       /\ db'.workspaces = db.workspaces /\ db'.api_keys = db.api_keys
       /\ db'.integrations = db.integrations /\ db'.routing_rules = db.routing_rules
       /\ db'.leads = db.leads /\ db'.deliveries = db.deliveries
  BY <1>1, <1>9, CounterUp
<1>11. QED
  BY <1>2, <1>7, <1>8, <1>10

\* The n-th table is deleted.
Emptied(n) ==
  /\ db'.deliveries = IF n = 1 THEN {} ELSE db.deliveries
  /\ db'.leads = IF n = 2 THEN {} ELSE db.leads
  /\ db'.routing_rules = IF n = 3 THEN {} ELSE db.routing_rules
  /\ db'.integrations = IF n = 4 THEN {} ELSE db.integrations
  /\ db'.api_keys <=> db.api_keys /\ n # 5
  /\ db'.id_counters = IF n = 6 THEN Empty.id_counters ELSE db.id_counters
  /\ db'.workspaces <=> db.workspaces /\ n # 7

\* The empty database is one.
LEMMA EmptyDb == /\ Empty \in Db /\ Empty.deliveries = {} /\ Empty.leads = {}
                 /\ Empty.routing_rules = {} /\ Empty.integrations = {}
                 /\ ~Empty.api_keys /\ ~Empty.workspaces
                 /\ Empty.id_counters = [rule |-> 0, lead |-> 0, delivery |-> 0]
<1>1. [rule |-> 0, lead |-> 0, delivery |-> 0] \in Counters
  BY DEF Counters
<1>2. Empty \in Db
  BY <1>1 DEF Empty, Db
<1>3. QED
  BY <1>2 DEF Empty

\* In which order the tables are deleted.
LEMMA Order == /\ DeleteOrder[1] = "deliveries" /\ DeleteOrder[2] = "leads"
               /\ DeleteOrder[3] = "routing_rules" /\ DeleteOrder[4] = "integrations"
               /\ DeleteOrder[5] = "api_keys" /\ DeleteOrder[6] = "id_counters"
               /\ DeleteOrder[7] = "workspaces"
BY DEF DeleteOrder

\* What the deletion of a table does.
LEMMA DeleteFacts ==
  ASSUME TypeInv, NEW c \in Calls, Delete(c)
  PROVE  /\ pc[c] = "delete" /\ Loop(c, 7, "delete", "workspace")
         /\ faults' = faults /\ overlap' = overlap /\ db' \in Db /\ Emptied(call[c].k)
<1>1. /\ pc[c] = "delete" /\ Loop(c, 7, "delete", "workspace")
      /\ faults' = faults /\ overlap' = overlap /\ db' = deleted(DeleteOrder[call[c].k])
  BY DEF Delete
<1>2. call[c].k \in 1..7 /\ db \in Db
  BY <1>1 DEF TypeInv, CallOk
<1>3. CASE call[c].k = 1
  <2>1. db' = [db EXCEPT !.deliveries = Empty.deliveries]
    BY <1>1, <1>3, Order DEF deleted
  <2>2. [db EXCEPT !.deliveries = {}] \in Db
    BY <1>2 DEF Db
  <2>3. QED
    BY <1>1, <1>2, <1>3, <2>1, <2>2, EmptyDb DEF Db, Emptied
<1>4. CASE call[c].k = 2
  <2>1. db' = [db EXCEPT !.leads = Empty.leads]
    BY <1>1, <1>4, Order DEF deleted
  <2>2. [db EXCEPT !.leads = {}] \in Db
    BY <1>2 DEF Db
  <2>3. QED
    BY <1>1, <1>2, <1>4, <2>1, <2>2, EmptyDb DEF Db, Emptied
<1>5. CASE call[c].k = 3
  <2>1. db' = [db EXCEPT !.routing_rules = Empty.routing_rules]
    BY <1>1, <1>5, Order DEF deleted
  <2>2. [db EXCEPT !.routing_rules = {}] \in Db
    BY <1>2 DEF Db
  <2>3. QED
    BY <1>1, <1>2, <1>5, <2>1, <2>2, EmptyDb DEF Db, Emptied
<1>6. CASE call[c].k = 4
  <2>1. db' = [db EXCEPT !.integrations = Empty.integrations]
    BY <1>1, <1>6, Order DEF deleted
  <2>2. [db EXCEPT !.integrations = {}] \in Db
    BY <1>2 DEF Db
  <2>3. QED
    BY <1>1, <1>2, <1>6, <2>1, <2>2, EmptyDb DEF Db, Emptied
<1>7. CASE call[c].k = 5
  <2>1. db' = [db EXCEPT !.api_keys = Empty.api_keys]
    BY <1>1, <1>7, Order DEF deleted
  <2>2. Empty.api_keys \in BOOLEAN
    BY EmptyDb DEF Db
  <2>3. [db EXCEPT !.api_keys = Empty.api_keys] \in Db
    BY <1>2, <2>2 DEF Db
  <2>4. QED
    BY <1>1, <1>2, <1>7, <2>1, <2>3, EmptyDb DEF Db, Emptied
<1>8. CASE call[c].k = 6
  <2>1. db' = [db EXCEPT !.id_counters = Empty.id_counters]
    BY <1>1, <1>8, Order DEF deleted
  <2>2. Empty.id_counters \in Counters
    BY EmptyDb DEF Db
  <2>3. [db EXCEPT !.id_counters = Empty.id_counters] \in Db
    BY <1>2, <2>2 DEF Db
  <2>4. QED
    BY <1>1, <1>2, <1>8, <2>1, <2>3, EmptyDb DEF Db, Emptied
<1>9. CASE call[c].k = 7
  <2>1. db' = [db EXCEPT !.workspaces = Empty.workspaces]
    BY <1>1, <1>9, Order DEF deleted
  <2>2. Empty.workspaces \in BOOLEAN
    BY EmptyDb DEF Db
  <2>3. [db EXCEPT !.workspaces = Empty.workspaces] \in Db
    BY <1>2, <2>2 DEF Db
  <2>4. QED
    BY <1>1, <1>2, <1>9, <2>1, <2>3, EmptyDb DEF Db, Emptied
<1>10. QED
  BY <1>2, <1>3, <1>4, <1>5, <1>6, <1>7, <1>8, <1>9

\* What a death does.
LEMMA DiesFacts ==
  ASSUME TypeInv, NEW c \in Calls, Dies(c)
  PROVE  /\ Stepped(c) /\ Running(c) /\ pc'[c] = "dead" /\ db' = db /\ faults' = faults + 1
         /\ overlap' = overlap
BY Steps DEF Dies
-----------------------------------------------------------------------------
(***************************************************************************)
(* Types.                                                                  *)
(***************************************************************************)

\* A call that has entered its own statements is as it should be.
LEMMA EnteredOk ==
  ASSUME TypeInv, NEW c \in Calls, pc[c] # "idle", EnterBody(c)
  PROVE  CallOk(c)'
<1>1. /\ call'[c] \in CallType /\ call'[c].body /\ call'[c].k = 1
      /\ call'[c].op = call[c].op /\ call'[c].chosen = call[c].chosen
      /\ call[c].op = "getDashboard" => pc'[c] = "done"
      /\ call[c].op = "submitIntake" => pc'[c] = "leadNumber"
      /\ call[c].op = "saveRule" => pc'[c] = "ruleCount"
      /\ call[c].op = "resetDemo" => pc'[c] = "delete"
  BY Entered
<1>2. call[c].op \in AllOperations /\ (call[c].op = "saveRule" => call[c].chosen \in Integrations)
  BY DEF TypeInv, CallOk
<1>3. pc'[c] \in {"done", "leadNumber", "ruleCount", "delete"}
      /\ (pc'[c] = "leadNumber" => call[c].op = "submitIntake")
      /\ (pc'[c] = "ruleCount" => call[c].op = "saveRule")
      /\ (pc'[c] = "delete" => call[c].op = "resetDemo")
  BY <1>1, <1>2 DEF AllOperations
<1>4. pc'[c] = "leadNumber" => ~(~call'[c].body \/ call'[c].op = "resetDemo")
  BY <1>1, <1>3
<1>5. QED
  BY <1>1, <1>2, <1>3, <1>4 DEF CallOk, Seeding, RoutingStage, LeadStage

\* A label that nothing is expected at.
LEMMA EndedOk ==
  ASSUME TypeInv, NEW c \in Calls, Stepped(c), pc[c] # "idle",
         pc'[c] \in {"done", "failed", "dead"}
  PROVE  CallOk(c)'
<1>1. CallOk(c) /\ call'[c] = call[c]
  BY DEF TypeInv, Stepped
<1>2. QED
  BY <1>1 DEF CallOk, Seeding, RoutingStage, LeadStage

\* Every statement of a call is well typed.
LEMMA TypeStepped ==
  ASSUME TypeInv, NEW c \in Calls, Step(c)
  PROVE  TypeInv'
<1> USE DEF RoutingStage, LeadStage
<1>1. db \in Db /\ faults \in Nat /\ CallOk(c) /\ call[c].k \in Nat
  BY DEF TypeInv, CallOk, CallType
<1>2. CASE LookUpWorkspace(c)
  <2>1. /\ Stepped(c) /\ pc[c] = "ensure" /\ pc'[c] \in {"leadCount", "workspace"}
        /\ db' = db /\ faults' = faults
    BY <1>2, LookUpFacts
  <2>2. CallOk(c)'
    BY <1>1, <2>1 DEF CallOk, Stepped, Seeding
  <2>3. QED
    BY <1>1, <2>1, <2>2, TypeStep DEF Stepped
<1>3. CASE CountLeads(c)
  <2>1. /\ pc[c] = "leadCount" /\ db' = db /\ faults' = faults
        /\ EnterBody(c) \/ (Stepped(c) /\ pc'[c] = "workspace")
    BY <1>3, CountFacts
  <2>2. CallOk(c)' /\ Alone(c)
    <3>1. CASE EnterBody(c)
      BY <2>1, <3>1, Entered, EnteredOk
    <3>2. CASE Stepped(c) /\ pc'[c] = "workspace"
      BY <1>1, <2>1, <3>2 DEF CallOk, Stepped, Seeding
    <3>3. QED
      BY <2>1, <3>1, <3>2
  <2>3. QED
    BY <1>1, <2>1, <2>2, TypeStep
<1>4. CASE InsertWorkspace(c)
  <2>1. Stepped(c) /\ pc[c] = "workspace" /\ pc'[c] = "key" /\ faults' = faults /\ db' \in Db
    BY <1>4, WorkspaceFacts
  <2>2. CallOk(c)'
    BY <1>1, <2>1 DEF CallOk, Stepped, Seeding
  <2>3. QED
    BY <1>1, <2>1, <2>2, TypeStep DEF Stepped
<1>5. CASE InsertKey(c)
  <2>1. /\ Stepped(c) /\ pc[c] = "key" /\ faults' = faults /\ db' \in Db
        /\ pc'[c] \in {"integration", "failed"}
    BY <1>1, <1>5, KeyFacts
  <2>2. CallOk(c)'
    <3>1. 1 \in 1..Providers
      BY Sizes
    <3>2. QED
      BY <1>1, <2>1, <3>1 DEF CallOk, Stepped, Seeding
  <2>3. QED
    BY <1>1, <2>1, <2>2, TypeStep DEF Stepped
<1>6. CASE InsertIntegration(c)
  <2>1. /\ pc[c] = "integration" /\ faults' = faults /\ db' \in Db
        /\ \/ Loop(c, Providers, "integration", "ruleNumber")
           \/ Stepped(c) /\ pc'[c] = "failed"
    BY <1>1, <1>6, IntegrationFacts
  <2>2. CASE Loop(c, Providers, "integration", "ruleNumber")
    <3>1. /\ Alone(c) /\ call'[c] \in CallType /\ (call'[c].body <=> call[c].body)
          /\ call'[c].op = call[c].op /\ call'[c].chosen = call[c].chosen
          /\ call[c].k < Providers => pc'[c] = "integration" /\ call'[c].k = call[c].k + 1
          /\ ~(call[c].k < Providers) => pc'[c] = "ruleNumber" /\ call'[c].k = 1
      BY <2>2, Sizes, Looped
    <3>2. Seeding(c) /\ call[c].k \in 1..Providers
      BY <1>1, <2>1 DEF CallOk
    <3>3. call'[c].k \in 1..Providers /\ pc'[c] \in {"integration", "ruleNumber"}
      BY <3>1, <3>2, Sizes
    <3>4. CallOk(c)'
      BY <1>1, <2>1, <3>1, <3>2, <3>3 DEF CallOk, Seeding
    <3>5. QED
      BY <1>1, <2>1, <3>1, <3>4, TypeStep
  <2>3. QED
    BY <1>1, <2>1, <2>2, EndedOk, TypeStep DEF Stepped
<1>7. CASE pc[c] = "ruleNumber" /\ NextPublic(c, "rule", "rule")
  <2>1. /\ Alone(c) /\ pc'[c] = "rule" /\ faults' = faults /\ db' \in Db
        /\ call'[c] \in CallType /\ (call'[c].body <=> call[c].body)
        /\ call'[c].op = call[c].op /\ call'[c].chosen = call[c].chosen /\ call'[c].k = call[c].k
    BY <1>7, DrawFacts
  <2>2. CallOk(c)'
    BY <1>1, <1>7, <2>1 DEF CallOk, Seeding
  <2>3. QED
    BY <1>1, <2>1, <2>2, TypeStep
<1>8. CASE InsertRule(c)
  <2>1. /\ pc[c] = "rule" /\ faults' = faults /\ db' \in Db
        /\ \/ Seeding(c) /\ Loop(c, Providers, "ruleNumber", "leadNumber")
           \/ Return(c)
           \/ Stepped(c) /\ pc'[c] = "failed"
    BY <1>1, <1>8, RuleFacts
  <2>2. CASE Seeding(c) /\ Loop(c, Providers, "ruleNumber", "leadNumber")
    <3>1. /\ Alone(c) /\ call'[c] \in CallType /\ (call'[c].body <=> call[c].body)
          /\ call'[c].op = call[c].op /\ call'[c].chosen = call[c].chosen
          /\ call[c].k < Providers => pc'[c] = "ruleNumber" /\ call'[c].k = call[c].k + 1
          /\ ~(call[c].k < Providers) => pc'[c] = "leadNumber" /\ call'[c].k = 1
      BY <2>2, Sizes, Looped
    <3>2. call[c].k \in 1..Providers
      BY <1>1, <2>1, <2>2 DEF CallOk
    <3>3. /\ pc'[c] \in {"ruleNumber", "leadNumber"} /\ call'[c].k \in 1..Providers
          /\ pc'[c] = "leadNumber" => call'[c].k \in 1..SeedLeads
      BY <3>1, <3>2, Sizes
    <3>4. CallOk(c)'
      BY <1>1, <2>1, <2>2, <3>1, <3>3 DEF CallOk, Seeding
    <3>5. QED
      BY <1>1, <2>1, <3>1, <3>4, TypeStep
  <2>3. CASE Return(c)
    BY <1>1, <2>1, <2>3, ReturnFacts, Entered, EnteredOk, EndedOk, TypeStep DEF Stepped
  <2>4. QED
    BY <1>1, <2>1, <2>2, <2>3, EndedOk, TypeStep DEF Stepped
<1>9. CASE \/ pc[c] = "leadNumber" /\ NextPublic(c, "lead", "lead")
           \/ pc[c] = "deliveryNumber" /\ NextPublic(c, "delivery", "delivery")
  <2>1. /\ Alone(c) /\ pc[c] \in {"leadNumber", "deliveryNumber"} /\ pc'[c] \in {"lead", "delivery"}
        /\ faults' = faults /\ db' \in Db
        /\ call'[c] \in CallType /\ (call'[c].body <=> call[c].body)
        /\ call'[c].op = call[c].op /\ call'[c].chosen = call[c].chosen /\ call'[c].k = call[c].k
    BY <1>9, DrawFacts
  <2>2. CallOk(c)'
    BY <1>1, <2>1 DEF CallOk, Seeding
  <2>3. QED
    BY <1>1, <2>1, <2>2, TypeStep
<1>10. CASE InsertLead(c)
  <2>1. /\ Stepped(c) /\ pc[c] = "lead" /\ faults' = faults /\ db' \in Db
        /\ pc'[c] \in {"deliveryNumber", "failed"}
    BY <1>1, <1>10, LeadFacts
  <2>2. CallOk(c)'
    BY <1>1, <2>1 DEF CallOk, Stepped, Seeding
  <2>3. QED
    BY <1>1, <2>1, <2>2, TypeStep DEF Stepped
<1>11. CASE InsertDelivery(c)
  <2>1. /\ pc[c] = "delivery" /\ faults' = faults /\ db' \in Db
        /\ \/ Seeding(c) /\ call[c].k < SeedLeads /\ Loop(c, SeedLeads, "leadNumber", "done")
           \/ Return(c)
           \/ Stepped(c) /\ pc'[c] = "failed"
    BY <1>1, <1>11, DeliveryFacts
  <2>2. CASE Seeding(c) /\ call[c].k < SeedLeads /\ Loop(c, SeedLeads, "leadNumber", "done")
    <3>1. /\ Alone(c) /\ call'[c] \in CallType /\ (call'[c].body <=> call[c].body)
          /\ call'[c].op = call[c].op /\ call'[c].chosen = call[c].chosen
          /\ pc'[c] = "leadNumber" /\ call'[c].k = call[c].k + 1
      BY <2>2, Sizes, Looped
    <3>2. call'[c].k \in 1..SeedLeads
      BY <1>1, <2>2, <3>1, Sizes
    <3>3. CallOk(c)'
      BY <1>1, <2>1, <2>2, <3>1, <3>2 DEF CallOk, Seeding
    <3>4. QED
      BY <1>1, <2>1, <3>1, <3>3, TypeStep
  <2>3. CASE Return(c)
    BY <1>1, <2>1, <2>3, ReturnFacts, Entered, EnteredOk, EndedOk, TypeStep DEF Stepped
  <2>4. QED
    BY <1>1, <2>1, <2>2, <2>3, EndedOk, TypeStep DEF Stepped
<1>12. CASE ReadRuleCount(c)
  <2>1. /\ Alone(c) /\ pc[c] = "ruleCount" /\ pc'[c] = "bumpRule" /\ db' = db /\ faults' = faults
        /\ call'[c] \in CallType /\ (call'[c].body <=> call[c].body)
        /\ call'[c].op = call[c].op /\ call'[c].chosen = call[c].chosen
    BY <1>12, ReadFacts
  <2>2. CallOk(c)'
    BY <1>1, <2>1 DEF CallOk, Seeding
  <2>3. QED
    BY <1>1, <2>1, <2>2, TypeStep
<1>13. CASE BumpRuleCount(c)
  <2>1. /\ Alone(c) /\ pc[c] = "bumpRule" /\ pc'[c] = "rule" /\ db' \in Db /\ faults' = faults
        /\ call'[c] \in CallType /\ (call'[c].body <=> call[c].body)
        /\ call'[c].op = call[c].op /\ call'[c].chosen = call[c].chosen
    BY <1>13, BumpFacts
  <2>2. call[c].body /\ call[c].op = "saveRule"
    BY <1>1, <2>1 DEF CallOk
  <2>3. CallOk(c)'
    BY <1>1, <2>1, <2>2 DEF CallOk, Seeding
  <2>4. QED
    BY <1>1, <2>1, <2>3, TypeStep
<1>14. CASE Delete(c)
  <2>1. /\ pc[c] = "delete" /\ Loop(c, 7, "delete", "workspace") /\ faults' = faults /\ db' \in Db
    BY <1>14, DeleteFacts
  <2>2. /\ Alone(c) /\ call'[c] \in CallType /\ (call'[c].body <=> call[c].body)
        /\ call'[c].op = call[c].op /\ call'[c].chosen = call[c].chosen
        /\ call[c].k < 7 => pc'[c] = "delete" /\ call'[c].k = call[c].k + 1
        /\ ~(call[c].k < 7) => pc'[c] = "workspace" /\ call'[c].k = 1
    BY <2>1, Looped
  <2>3. call[c].k \in 1..7 /\ call[c].op = "resetDemo" /\ call[c].body
    BY <1>1, <2>1 DEF CallOk
  <2>4. pc'[c] \in {"delete", "workspace"} /\ call'[c].k \in 1..7
        /\ (pc'[c] = "workspace" => call'[c].k = 1)
    BY <2>2, <2>3
  <2>5. CallOk(c)'
    BY <1>1, <2>1, <2>2, <2>3, <2>4 DEF CallOk, Seeding
  <2>6. QED
    BY <1>1, <2>1, <2>2, <2>5, TypeStep
<1>15. QED
  BY <1>2, <1>3, <1>4, <1>5, <1>6, <1>7, <1>8, <1>9, <1>10, <1>11, <1>12, <1>13, <1>14 DEF Step

\* The rows of a workspace that is seeded are rows.
LEMMA SeedTyped ==
  SeededBy(Before) \in Db
<1> DEFINE I(p) == [provider |-> p, by |-> Before]
           S(n) == [number |-> n, seeded |-> TRUE]
           is == {I(p) : p \in 1..Providers}
           rs == {[number |-> p, integration |-> I(p)] : p \in 1..Providers}
           ls == {S(n) : n \in 1..SeedLeads}
           ids == [rule |-> Providers, lead |-> SeedLeads, delivery |-> SeedLeads]
<1>1. is \in SUBSET Integrations
  BY DEF Integrations
<1>2. rs \in SUBSET Rules
  <2>1. ASSUME NEW p \in 1..Providers PROVE [number |-> p, integration |-> I(p)] \in Rules
    <3>1. I(p) \in Integrations /\ p \in Nat
      BY Sizes DEF Integrations
    <3>2. QED
      BY <3>1 DEF Rules
  <2>2. QED
    BY <2>1
<1>3. ls \in SUBSET Rows
  <2>1. ASSUME NEW n \in 1..SeedLeads PROVE S(n) \in Rows
    <3>1. n \in Nat
      BY Sizes
    <3>2. QED
      BY <3>1 DEF Rows
  <2>2. QED
    BY <2>1
<1>4. ids \in Counters
  BY Sizes DEF Counters
<1>5. SeededBy(Before) = [workspaces |-> TRUE, api_keys |-> TRUE, integrations |-> is,
                          routing_rules |-> rs, leads |-> ls, deliveries |-> ls, id_counters |-> ids]
  BY DEF SeededBy
<1> HIDE DEF is, rs, ls, ids
<1>6. QED
  BY <1>1, <1>2, <1>3, <1>4, <1>5 DEF Db

\* Every call is where a call like it can be, and the tables hold their rows.
THEOREM TypeCorrect == Spec => []TypeInv
<1>1. Init => TypeInv
  <2> SUFFICES ASSUME Init PROVE TypeInv
    OBVIOUS
  <2>1. db \in Db
    BY EmptyDb, SeedTyped DEF Init
  <2>2. \A c \in Calls : pc[c] = "idle" /\ call[c] = NoCall
    BY DEF Init
  <2>3. \A c \in Calls : CallOk(c)
    BY <2>2, NoneOfAll, CallAssumption DEF CallOk, AllOperations, RoutingStage, LeadStage
  <2>4. QED
    BY <2>1, <2>3 DEF Init, TypeInv
<1>2. ASSUME TypeInv, [Next]_vars PROVE TypeInv'
  <2>1. CASE UNCHANGED vars
    BY <1>2, <2>1 DEF vars, TypeInv, CallOk, Seeding
  <2>2. ASSUME NEW c \in Calls, Start(c) PROVE TypeInv'
    <3>1. /\ Alone(c) /\ pc'[c] = "ensure" /\ db' = db /\ faults' = faults
          /\ call'[c] \in CallType /\ ~call'[c].body /\ call'[c].k = 1
          /\ call'[c].op \in AllOperations
          /\ call'[c].op = "saveRule" => call'[c].chosen \in Integrations
      BY <1>2, <2>2, StartFacts
    <3>2. CallOk(c)'
      BY <3>1 DEF CallOk, RoutingStage, LeadStage
    <3>3. db' \in Db /\ faults' \in Nat
      BY <1>2, <3>1 DEF TypeInv
    <3>4. QED
      BY <1>2, <3>1, <3>2, <3>3, TypeStep
  <2>3. ASSUME NEW c \in Calls, Dies(c) PROVE TypeInv'
    <3>1. Stepped(c) /\ Running(c) /\ pc'[c] = "dead" /\ db' = db /\ faults' = faults + 1
      BY <1>2, <2>3, DiesFacts
    <3>2. db' \in Db /\ faults' \in Nat
      BY <1>2, <3>1 DEF TypeInv
    <3>3. QED
      BY <1>2, <3>1, <3>2, EndedOk, TypeStep DEF Stepped, Running
  <2>4. QED
    BY <1>2, <2>1, <2>2, <2>3, TypeStepped DEF Next, Terminating
<1>3. QED
  BY <1>1, <1>2, PTL DEF Spec
-----------------------------------------------------------------------------
(***************************************************************************)
(* Without resets the insertion of the api key elects the one call that    *)
(* seeds: nobody else is beyond it, and what that call has inserted is     *)
(* what is there.  Leads come after all integrations and rules, and no     *)
(* call enters its own statements before there are leads.                  *)
(***************************************************************************)
Beyond(c) == ~call[c].body /\ pc[c] \in RoutingStage \cup LeadStage

Routed ==
  \A p \in 1..Providers : \E i \in db.integrations, r \in db.routing_rules :
    i.provider = p /\ r.integration = i

Fresh == db.integrations = {} /\ db.routing_rules = {} /\ db.leads = {} /\ db.deliveries = {}

Of(p, c) == [provider |-> p, by |-> c]

Inserted(c) ==
  /\ pc[c] = "integration" =>
       /\ db.routing_rules = {} /\ db.leads = {} /\ db.deliveries = {}
       /\ \A p \in 1..Providers : p < call[c].k => Of(p, c) \in db.integrations
       /\ \A i \in db.integrations : i.provider < call[c].k
  /\ pc[c] \in {"ruleNumber", "rule"} =>
       /\ db.leads = {} /\ db.deliveries = {}
       /\ \A p \in 1..Providers : Of(p, c) \in db.integrations
       /\ \A p \in 1..Providers : p < call[c].k => \E r \in db.routing_rules : r.integration = Of(p, c)
  /\ pc[c] \in LeadStage => Routed
  /\ pc[c] \in {"deliveryNumber", "delivery"} => db.leads # {}

RoutingInv ==
  /\ ~db.api_keys => Fresh /\ \A c \in Calls : ~Beyond(c)
  /\ \A c, d \in Calls : Beyond(c) /\ Beyond(d) => c = d
  /\ db.leads # {} => Routed /\ db.api_keys
  /\ \A c \in Calls : call[c].body => db.leads # {}
  /\ \A c \in Calls : Beyond(c) => Inserted(c)
  /\ \A c \in Calls : pc[c] \in {"done", "failed"} => db.api_keys

Tables == <<db.integrations, db.routing_rules, db.leads, db.deliveries>>

\* Rows are only added.
Grows ==
  /\ db.integrations \subseteq db'.integrations /\ db.routing_rules \subseteq db'.routing_rules
  /\ db.leads \subseteq db'.leads /\ db.deliveries \subseteq db'.deliveries
  /\ db.api_keys => db'.api_keys

\* What has its rule keeps it as rows are added.
LEMMA RoutedGrows ==
  ASSUME Grows, Routed
  PROVE  Routed'
BY DEF Grows, Routed

\* What the others have inserted is not disturbed.
LEMMA RoutingStep ==
  ASSUME TypeInv, RoutingInv, NEW c \in Calls, Alone(c), Grows,
         call[c].body \/ Beyond(c) \/ UNCHANGED Tables,
         ~db'.api_keys => Fresh' /\ ~Beyond(c)',
         Beyond(c)' => Beyond(c) \/ ~db.api_keys,
         Beyond(c)' => Inserted(c)',
         db'.leads # {} => Routed' /\ db'.api_keys,
         call'[c].body => db'.leads # {},
         pc'[c] \in {"done", "failed"} => db'.api_keys
  PROVE  RoutingInv'
<1>a. \A d, e \in Calls : Beyond(d) /\ Beyond(e) => d = e
  BY DEF RoutingInv
<1>b. \A d \in Calls : call[d].body => db.leads # {}
  BY DEF RoutingInv
<1>c. \A d \in Calls : Beyond(d) => db.api_keys /\ Inserted(d)
  BY DEF RoutingInv
<1>d. \A d \in Calls : pc[d] \in {"done", "failed"} => db.api_keys
  BY DEF RoutingInv
<1>e. db.leads # {} => Routed
  BY DEF RoutingInv
<1>f. db.api_keys => db'.api_keys
  BY DEF Grows
<1>g. db.leads # {} => db'.leads # {}
  BY DEF Grows
<1>1. ASSUME NEW d \in Calls, d # c PROVE pc'[d] = pc[d] /\ call'[d] = call[d]
  BY <1>1 DEF Alone
<1>h. ASSUME NEW d \in Calls, d # c, Beyond(d)' PROVE Beyond(d)
  <2>1. pc'[d] = pc[d] /\ call'[d] = call[d]
    BY <1>1, <1>h
  <2>2. QED
    BY <2>1, <1>h DEF Beyond
<1>2. ASSUME ~db'.api_keys PROVE Fresh' /\ \A d \in Calls : ~Beyond(d)'
  <2>1. ASSUME NEW d \in Calls, Beyond(d)' PROVE FALSE
    <3>1. CASE d = c
      BY <1>2, <2>1, <3>1
    <3>2. CASE d # c
      <4>1. Beyond(d)
        BY <2>1, <3>2, <1>h
      <4>2. QED
        BY <4>1, <1>2, <1>c, <1>f
    <3>3. QED
      BY <3>1, <3>2
  <2>2. QED
    BY <1>2, <2>1
<1>3. ASSUME NEW d \in Calls, NEW e \in Calls, Beyond(d)', Beyond(e)' PROVE d = e
  <2>1. CASE d # c /\ e # c
    <3>1. Beyond(d) /\ Beyond(e)
      BY <1>3, <2>1, <1>h
    <3>2. QED
      BY <3>1, <1>a
  <2>2. CASE d = c /\ e # c
    <3>1. Beyond(e) /\ Beyond(c)'
      BY <1>3, <2>2, <1>h
    <3>2. Beyond(c)
      BY <3>1, <1>c
    <3>3. QED
      BY <3>1, <3>2, <2>2, <1>a
  <2>3. CASE d # c /\ e = c
    <3>1. Beyond(d) /\ Beyond(c)'
      BY <1>3, <2>3, <1>h
    <3>2. Beyond(c)
      BY <3>1, <1>c
    <3>3. QED
      BY <3>1, <3>2, <2>3, <1>a
  <2>4. QED
    BY <2>1, <2>2, <2>3
<1>4. ASSUME NEW d \in Calls, call'[d].body PROVE db'.leads # {}
  <2>1. CASE d = c
    BY <1>4, <2>1
  <2>2. CASE d # c
    <3>1. call[d].body
      BY <1>4, <2>2, <1>1
    <3>2. QED
      BY <3>1, <1>b, <1>g
  <2>3. QED
    BY <2>1, <2>2
<1>5. ASSUME NEW d \in Calls, Beyond(d)' PROVE Inserted(d)'
  <2>1. CASE d = c
    BY <1>5, <2>1
  <2>2. CASE d # c
    <3>1. Beyond(d) /\ Inserted(d)
      BY <1>5, <2>2, <1>h, <1>c
    <3>0. pc'[d] = pc[d] /\ call'[d] = call[d]
      BY <2>2, <1>1
    <3>2. CASE Beyond(c)
      BY <2>2, <3>1, <3>2, <1>a
    <3>3. CASE call[c].body
      <4>1. db.leads # {} /\ Routed
        BY <3>3, <1>b, <1>e
      <4>2. pc[d] \in LeadStage
        BY <3>1, <4>1 DEF Beyond, Inserted, RoutingStage
      <4>3. Routed'
        BY <4>1, RoutedGrows
      <4>4. QED
        BY <3>0, <4>1, <4>2, <4>3, <1>g DEF Inserted, LeadStage
    <3>4. CASE UNCHANGED Tables
      <4>1. Routed' <=> Routed
        BY <3>4 DEF Tables, Routed
      <4>2. QED
        BY <3>0, <3>1, <3>4, <4>1 DEF Tables, Inserted
    <3>5. QED
      BY <3>2, <3>3, <3>4
  <2>3. QED
    BY <2>1, <2>2
<1>6. ASSUME NEW d \in Calls, pc'[d] \in {"done", "failed"} PROVE db'.api_keys
  <2>1. CASE d = c
    BY <1>6, <2>1
  <2>2. CASE d # c
    <3>1. pc[d] \in {"done", "failed"}
      BY <1>6, <2>2, <1>1
    <3>2. QED
      BY <3>1, <1>d, <1>f
  <2>3. QED
    BY <2>1, <2>2
<1>7. QED
  BY <1>2, <1>3, <1>4, <1>5, <1>6 DEF RoutingInv

\* A step that adds no row, and takes a call to no statement of the seed.
LEMMA RoutingQuiet ==
  ASSUME TypeInv, RoutingInv, NEW c \in Calls, Alone(c), UNCHANGED Tables,
         db'.api_keys <=> db.api_keys,
         ~Beyond(c)' \/ (Beyond(c) /\ Inserted(c)'),
         call'[c].body => db.leads # {},
         pc'[c] \in {"done", "failed"} => db.api_keys
  PROVE  RoutingInv'
<1>1. Grows /\ (Routed' <=> Routed) /\ (Fresh' <=> Fresh) /\ db'.leads = db.leads
  BY DEF Tables, Grows, Routed, Fresh
<1>2. ~db'.api_keys => Fresh' /\ ~Beyond(c)'
  BY <1>1 DEF RoutingInv
<1>3. db'.leads # {} => Routed' /\ db'.api_keys
  BY <1>1 DEF RoutingInv
<1>4. QED
  BY <1>1, <1>2, <1>3, RoutingStep

\* A call that fails is beyond the key, or finds leads, or finds the key.
LEMMA RoutingFailed ==
  ASSUME TypeInv, RoutingInv, NEW c \in Calls, Stepped(c), pc'[c] = "failed", db' = db,
         call[c].body \/ Beyond(c) \/ db.api_keys
  PROVE  RoutingInv'
<1>1. db.api_keys
  BY DEF RoutingInv
<1>2. ~Beyond(c)' /\ (call'[c].body => db.leads # {})
  BY DEF Beyond, Stepped, RoutingInv, RoutingStage, LeadStage
<1>3. UNCHANGED Tables /\ (db'.api_keys <=> db.api_keys) /\ Alone(c)
  BY DEF Tables, Stepped
<1>4. QED
  BY <1>1, <1>2, <1>3, RoutingQuiet

\* A call enters its own statements when there are leads.
LEMMA RoutingEntered ==
  ASSUME TypeInv, RoutingInv, NEW c \in Calls, EnterBody(c), db' = db, db.leads # {}
  PROVE  RoutingInv'
<1>1. Alone(c) /\ call'[c].body
  BY Entered
<1>2. UNCHANGED Tables /\ (db'.api_keys <=> db.api_keys) /\ ~Beyond(c)' /\ db.api_keys
  BY <1>1 DEF Tables, Beyond, RoutingInv
<1>3. QED
  BY <1>1, <1>2, RoutingQuiet

\* Where a call stands, when nobody resets.
LEMMA RoutingBefore ==
  ASSUME TypeInv, RoutingInv, NoReset, NEW c \in Calls
  PROVE  /\ Seeding(c) <=> ~call[c].body
         /\ Beyond(c) => db.api_keys /\ Inserted(c)
         /\ call[c].body => db.leads # {} /\ Routed /\ db.api_keys /\ ~Beyond(c)
         /\ pc[c] \in RoutingStage \cup LeadStage => call[c].body \/ Beyond(c)
         /\ db.leads # {} => Routed /\ db.api_keys
         /\ ~db.api_keys => Fresh
         /\ CallOk(c) /\ pc[c] # "delete"
<1>1. CallOk(c) /\ call[c].op # "resetDemo"
  BY DEF TypeInv, NoReset
<1>2. pc[c] # "delete"
  BY <1>1 DEF CallOk
<1>3. Seeding(c) <=> ~call[c].body
  BY <1>1 DEF Seeding
<1>4. Beyond(c) => db.api_keys /\ Inserted(c)
  BY DEF RoutingInv
<1>5. db.leads # {} => Routed /\ db.api_keys
  BY DEF RoutingInv
<1>6. call[c].body => db.leads # {} /\ ~Beyond(c)
  BY DEF RoutingInv, Beyond
<1>7. ~db.api_keys => Fresh
  BY DEF RoutingInv
<1>8. pc[c] \in RoutingStage \cup LeadStage => call[c].body \/ Beyond(c)
  BY DEF Beyond
<1>9. QED
  BY <1>1, <1>2, <1>3, <1>4, <1>5, <1>6, <1>7, <1>8

\* The key is inserted: from now on this call seeds.
LEMMA RoutingKey ==
  ASSUME TypeInv, RoutingInv, NoReset, NEW c \in Calls, InsertKey(c)
  PROVE  RoutingInv'
<1>1. Stepped(c) /\ pc[c] = "key" /\ CallOk(c)
  BY KeyFacts, RoutingBefore
<1>2. CASE db.api_keys /\ pc'[c] = "failed" /\ db' = db
  BY <1>1, <1>2, RoutingFailed
<1>3. CASE ~db.api_keys /\ pc'[c] = "integration" /\ db'.api_keys
           /\ UNCHANGED <<db.integrations, db.routing_rules, db.leads, db.deliveries>>
  <2>1. Fresh
    BY <1>3, RoutingBefore
  <2>2. call'[c] = call[c] /\ call[c].k = 1 /\ Alone(c)
    BY <1>1 DEF Stepped, CallOk
  <2>3. Inserted(c)'
    BY <1>3, <2>1, <2>2, Sizes DEF Inserted, Fresh, LeadStage
  <2>4. Grows /\ UNCHANGED Tables /\ db'.leads = {}
    BY <1>3, <2>1 DEF Grows, Tables, Fresh
  <2>5. ~call'[c].body
    BY <1>3, <2>2, RoutingBefore
  <2>6. QED
    BY <1>3, <2>2, <2>3, <2>4, <2>5, RoutingStep
<1>4. QED
  BY <1>2, <1>3, KeyFacts

\* The call that seeds inserts an integration, or finds it and fails.
LEMMA RoutingIntegration ==
  ASSUME TypeInv, RoutingInv, NoReset, NEW c \in Calls, InsertIntegration(c)
  PROVE  RoutingInv'
<1>1. pc[c] = "integration" /\ CallOk(c) /\ ~call[c].body /\ call[c].k \in 1..Providers
  BY IntegrationFacts, RoutingBefore DEF CallOk, RoutingStage
<1>2. Beyond(c) /\ Inserted(c) /\ db.api_keys
  BY <1>1, RoutingBefore DEF Beyond, RoutingStage
<1>3. CASE Stepped(c) /\ pc'[c] = "failed" /\ db' = db
  BY <1>2, <1>3, RoutingFailed
<1>4. CASE /\ Loop(c, Providers, "integration", "ruleNumber")
           /\ db'.integrations = db.integrations \cup {[provider |-> call[c].k, by |-> c]}
           /\ db'.api_keys = db.api_keys /\ db'.routing_rules = db.routing_rules
           /\ db'.leads = db.leads /\ db'.deliveries = db.deliveries
  <2>1. /\ Alone(c) /\ ~call'[c].body
        /\ call[c].k < Providers => pc'[c] = "integration" /\ call'[c].k = call[c].k + 1
        /\ ~(call[c].k < Providers) => pc'[c] = "ruleNumber" /\ call'[c].k = 1
    BY <1>1, <1>4, Looped, Sizes
  <2>2. /\ db.routing_rules = {} /\ db.leads = {} /\ db.deliveries = {}
        /\ \A p \in 1..Providers : p < call[c].k => Of(p, c) \in db.integrations
        /\ \A i \in db.integrations : i.provider < call[c].k
    BY <1>1, <1>2 DEF Inserted
  <2>3. db'.integrations = db.integrations \cup {Of(call[c].k, c)}
    BY <1>4 DEF Of
  <2>4. db.integrations \subseteq Integrations
    BY DEF TypeInv, Db
  <2>5. Inserted(c)'
    <3>1. CASE call[c].k < Providers
      <4>1. \A p \in 1..Providers : p < call[c].k + 1 => p < call[c].k \/ p = call[c].k
        BY <1>1, Sizes
      <4>2. \A p \in 1..Providers : p < call[c].k + 1 => Of(p, c) \in db'.integrations
        BY <4>1, <2>2, <2>3
      <4>3. \A i \in db'.integrations : i.provider < call[c].k + 1
        BY <1>1, <2>2, <2>3, <2>4, Sizes DEF Of, Integrations
      <4>4. QED
        BY <1>4, <2>1, <2>2, <3>1, <4>2, <4>3 DEF Inserted, LeadStage
    <3>2. CASE ~(call[c].k < Providers)
      <4>1. \A p \in 1..Providers : p < call[c].k \/ p = call[c].k
        BY <1>1, <3>2, Sizes
      <4>2. \A p \in 1..Providers : Of(p, c) \in db'.integrations
        BY <4>1, <2>2, <2>3
      <4>3. pc'[c] = "ruleNumber" /\ call'[c].k = 1 /\ db'.leads = {} /\ db'.deliveries = {}
        BY <1>4, <2>1, <2>2, <3>2
      <4>4. \A p \in 1..Providers : ~(p < 1)
        BY Sizes
      <4>5. QED
        BY <4>2, <4>3, <4>4 DEF Inserted, LeadStage
    <3>3. QED
      BY <3>1, <3>2
  <2>6. Grows
    BY <1>4 DEF Grows
  <2>7. db'.leads = {} /\ db'.api_keys
    BY <1>2, <1>4, <2>2
  <2>8. pc'[c] \notin {"done", "failed"}
    BY <2>1
  <2>9. QED
    BY <1>2, <2>1, <2>5, <2>6, <2>7, <2>8, RoutingStep
<1>5. QED
  BY <1>3, <1>4, IntegrationFacts

\* Numbers are drawn.
LEMMA RoutingDraw ==
  ASSUME TypeInv, RoutingInv, NoReset, NEW c \in Calls,
         \/ pc[c] = "ruleNumber" /\ NextPublic(c, "rule", "rule")
         \/ pc[c] = "leadNumber" /\ NextPublic(c, "lead", "lead")
         \/ pc[c] = "deliveryNumber" /\ NextPublic(c, "delivery", "delivery")
  PROVE  RoutingInv'
<1>1. /\ Alone(c) /\ (call'[c].body <=> call[c].body) /\ call'[c].k = call[c].k
      /\ db'.api_keys = db.api_keys /\ UNCHANGED Tables
  BY DrawFacts DEF Tables
<1>2. /\ \/ pc[c] = "ruleNumber" /\ pc'[c] = "rule"
         \/ pc[c] = "leadNumber" /\ pc'[c] = "lead"
         \/ pc[c] = "deliveryNumber" /\ pc'[c] = "delivery"
  BY DrawFacts
<1>3. CASE call[c].body
  <2>1. ~Beyond(c)' /\ db.leads # {}
    BY <1>1, <1>3, RoutingBefore DEF Beyond
  <2>2. pc'[c] \notin {"done", "failed"}
    BY <1>2
  <2>3. QED
    BY <1>1, <2>1, <2>2, RoutingQuiet
<1>4. CASE ~call[c].body
  <2>1. Beyond(c) /\ Inserted(c)
    BY <1>2, <1>4, RoutingBefore DEF Beyond, RoutingStage, LeadStage
  <2>2. Routed' <=> Routed
    BY <1>1 DEF Tables, Routed
  <2>3. Inserted(c)'
    BY <1>1, <1>2, <2>1, <2>2 DEF Inserted, Tables, LeadStage
  <2>4. ~call'[c].body /\ pc'[c] \notin {"done", "failed"}
    BY <1>1, <1>2, <1>4
  <2>5. QED
    BY <1>1, <2>1, <2>3, <2>4, RoutingQuiet
<1>5. QED
  BY <1>3, <1>4

\* A rule is inserted: of the seed, or saved when everything is there.
LEMMA RoutingRule ==
  ASSUME TypeInv, RoutingInv, NoReset, NEW c \in Calls, InsertRule(c)
  PROVE  RoutingInv'
<1>1. pc[c] = "rule" /\ CallOk(c) /\ (call[c].body \/ Beyond(c))
  BY RuleFacts, RoutingBefore DEF RoutingStage
<1>2. CASE Stepped(c) /\ pc'[c] = "failed" /\ db' = db
  BY <1>1, <1>2, RoutingFailed
<1>3. CASE /\ IF Seeding(c) THEN Loop(c, Providers, "ruleNumber", "leadNumber") ELSE Return(c)
           /\ db'.routing_rules = db.routing_rules
                \cup {[number |-> call[c].number, integration |-> Target(c)]}
           /\ db'.api_keys = db.api_keys /\ db'.integrations = db.integrations
           /\ db'.leads = db.leads /\ db'.deliveries = db.deliveries
  <2>1. Grows
    BY <1>3 DEF Grows
  <2>2. CASE call[c].body
    <3>1. Stepped(c) /\ pc'[c] = "done"
      BY <1>3, <2>2, RoutingBefore, ReturnFacts
    <3>2. Alone(c) /\ ~Beyond(c)' /\ db.leads # {} /\ Routed /\ db.api_keys
      BY <2>2, <3>1, RoutingBefore DEF Stepped, Beyond
    <3>3. Routed' /\ db'.leads # {} /\ db'.api_keys
      BY <1>3, <2>1, <3>2, RoutedGrows
    <3>4. QED
      BY <2>1, <2>2, <3>2, <3>3, RoutingStep
  <2>3. CASE ~call[c].body
    <3>1. Beyond(c) /\ Inserted(c) /\ db.api_keys /\ Seeding(c) /\ call[c].k \in 1..Providers
      BY <1>1, <2>3, RoutingBefore DEF CallOk, RoutingStage
    <3>2. /\ Alone(c) /\ ~call'[c].body
          /\ call[c].k < Providers => pc'[c] = "ruleNumber" /\ call'[c].k = call[c].k + 1
          /\ ~(call[c].k < Providers) => pc'[c] = "leadNumber" /\ call'[c].k = 1
      BY <1>3, <2>3, <3>1, Looped, Sizes
    <3>3. /\ db.leads = {} /\ db.deliveries = {}
          /\ \A p \in 1..Providers : Of(p, c) \in db.integrations
          /\ \A p \in 1..Providers :
               p < call[c].k => \E r \in db.routing_rules : r.integration = Of(p, c)
      BY <1>1, <3>1 DEF Inserted
    <3>4. \E r \in db'.routing_rules : r.integration = Of(call[c].k, c)
      <4>1. Target(c) = Of(call[c].k, c)
        BY <3>1 DEF Target, Of
      <4>2. [number |-> call[c].number, integration |-> Target(c)] \in db'.routing_rules
        BY <1>3
      <4>3. QED
        BY <4>1, <4>2
    <3>5. \A p \in 1..Providers :
            p < call[c].k + 1 => \E r \in db'.routing_rules : r.integration = Of(p, c)
      <4>1. ASSUME NEW p \in 1..Providers, p < call[c].k + 1
            PROVE  \E r \in db'.routing_rules : r.integration = Of(p, c)
        <5>1. p < call[c].k \/ p = call[c].k
          BY <3>1, <4>1, Sizes
        <5>2. QED
          BY <5>1, <3>3, <3>4, <2>1 DEF Grows
      <4>2. QED
        BY <4>1
    <3>6. Inserted(c)'
      <4>1. CASE call[c].k < Providers
        <5>1. /\ pc'[c] = "ruleNumber" /\ call'[c].k = call[c].k + 1
              /\ db'.leads = {} /\ db'.deliveries = {}
              /\ \A p \in 1..Providers : Of(p, c) \in db'.integrations
          BY <1>3, <3>2, <3>3, <4>1
        <5>2. QED
          BY <5>1, <3>5 DEF Inserted, LeadStage
      <4>2. CASE ~(call[c].k < Providers)
        <5>1. pc'[c] = "leadNumber"
          BY <3>2, <4>2
        <5>2. ASSUME NEW p \in 1..Providers
              PROVE  \E i \in db'.integrations, r \in db'.routing_rules :
                       i.provider = p /\ r.integration = i
          <6>1. p < call[c].k + 1
            BY <3>1, <4>2, Sizes
          <6>2. Of(p, c) \in db'.integrations /\ Of(p, c).provider = p
            BY <1>3, <3>3 DEF Of
          <6>3. QED
            BY <6>1, <6>2, <3>5
        <5>3. Routed'
          BY <5>2 DEF Routed
        <5>4. QED
          BY <5>1, <5>3 DEF Inserted
      <4>3. QED
        BY <4>1, <4>2
    <3>7. db'.leads = {} /\ db'.api_keys /\ pc'[c] \notin {"done", "failed"}
      BY <1>3, <3>1, <3>2, <3>3
    <3>8. QED
      BY <2>1, <3>1, <3>2, <3>6, <3>7, RoutingStep
  <2>4. QED
    BY <2>2, <2>3
<1>4. QED
  BY <1>2, <1>3, RuleFacts

\* A call that adds a lead or a delivery has the integrations and rules.
LEMMA RoutingReady ==
  ASSUME TypeInv, RoutingInv, NoReset, NEW c \in Calls, pc[c] \in LeadStage
  PROVE  Routed /\ db.api_keys /\ (call[c].body \/ Beyond(c))
<1>1. call[c].body \/ Beyond(c)
  BY RoutingBefore
<1>2. CASE call[c].body
  BY <1>2, RoutingBefore
<1>3. CASE Beyond(c)
  BY <1>3, RoutingBefore DEF Inserted
<1>4. QED
  BY <1>1, <1>2, <1>3

\* A lead is inserted.
LEMMA RoutingLead ==
  ASSUME TypeInv, RoutingInv, NoReset, NEW c \in Calls, InsertLead(c)
  PROVE  RoutingInv'
<1>1. pc[c] = "lead" /\ Stepped(c) /\ Alone(c) /\ call'[c] = call[c]
  BY LeadFacts DEF Stepped
<1>2. Routed /\ db.api_keys /\ (call[c].body \/ Beyond(c))
  BY <1>1, RoutingReady DEF LeadStage
<1>3. CASE pc'[c] = "failed" /\ db' = db
  BY <1>1, <1>2, <1>3, RoutingFailed
<1>4. CASE /\ pc'[c] = "deliveryNumber"
           /\ db'.leads = db.leads \cup {[number |-> call[c].number, seeded |-> Seeding(c)]}
           /\ db'.api_keys = db.api_keys /\ db'.integrations = db.integrations
           /\ db'.routing_rules = db.routing_rules /\ db'.deliveries = db.deliveries
  <2>1. Grows /\ db'.leads # {} /\ db'.api_keys
    BY <1>2, <1>4 DEF Grows
  <2>2. Routed'
    BY <1>2, <2>1, RoutedGrows
  <2>3. Inserted(c)'
    BY <1>4, <2>1, <2>2 DEF Inserted
  <2>4. Beyond(c)' => Beyond(c)
    BY <1>1, <1>2 DEF Beyond
  <2>5. QED
    BY <1>1, <1>2, <1>4, <2>1, <2>2, <2>3, <2>4, RoutingStep
<1>5. QED
  BY <1>3, <1>4, LeadFacts

\* A delivery is inserted; the seed goes on, or the call into its own
\* statements, or it returns.
LEMMA RoutingDelivery ==
  ASSUME TypeInv, RoutingInv, NoReset, NEW c \in Calls, InsertDelivery(c)
  PROVE  RoutingInv'
<1>1. pc[c] = "delivery" /\ CallOk(c)
  BY DeliveryFacts, RoutingBefore
<1>2. Routed /\ db.api_keys /\ (call[c].body \/ Beyond(c))
  BY <1>1, RoutingReady DEF LeadStage
<1>3. CASE Stepped(c) /\ pc'[c] = "failed" /\ db' = db
  BY <1>2, <1>3, RoutingFailed
<1>4. CASE /\ \/ Seeding(c) /\ call[c].k < SeedLeads /\ Loop(c, SeedLeads, "leadNumber", "done")
              \/ ~(Seeding(c) /\ call[c].k < SeedLeads) /\ Return(c)
           /\ db'.deliveries = db.deliveries
                \cup {[number |-> call[c].number, seeded |-> Seeding(c)]}
           /\ db'.api_keys = db.api_keys /\ db'.integrations = db.integrations
           /\ db'.routing_rules = db.routing_rules /\ db'.leads = db.leads
  <2>1. Grows /\ db'.api_keys
    BY <1>2, <1>4 DEF Grows
  <2>2. Routed'
    BY <1>2, <2>1, RoutedGrows
  <2>3. db.leads # {}
    <3>1. CASE call[c].body
      BY <3>1, RoutingBefore
    <3>2. CASE Beyond(c)
      BY <1>1, <3>2, RoutingBefore DEF Inserted
    <3>3. QED
      BY <1>2, <3>1, <3>2
  <2>4. /\ Alone(c) /\ (call'[c].body \/ pc'[c] = "leadNumber")
        /\ call'[c].body \/ (call'[c].body <=> call[c].body)
    <3>1. CASE Loop(c, SeedLeads, "leadNumber", "done") /\ call[c].k < SeedLeads
      BY <3>1, Looped, Sizes
    <3>2. CASE call[c].body /\ Stepped(c) /\ pc'[c] = "done"
      BY <3>2 DEF Stepped
    <3>3. CASE ~call[c].body /\ EnterBody(c)
      BY <3>3, Entered
    <3>4. QED
      BY <1>4, <3>1, <3>2, <3>3, ReturnFacts
  <2>5. Beyond(c)' => Beyond(c)
    BY <1>2, <2>4 DEF Beyond
  <2>6. Beyond(c)' => Inserted(c)'
    <3>1. Beyond(c)' => pc'[c] = "leadNumber"
      BY <2>4 DEF Beyond
    <3>2. pc'[c] = "leadNumber" => Inserted(c)'
      BY <2>2 DEF Inserted
    <3>3. QED
      BY <3>1, <3>2
  <2>7. db'.leads # {}
    BY <1>4, <2>3
  <2>8. QED
    BY <1>2, <2>1, <2>2, <2>4, <2>5, <2>6, <2>7, RoutingStep
<1>5. QED
  BY <1>3, <1>4, DeliveryFacts

\* Every other step of a call adds no row.
LEMMA RoutingOthers ==
  ASSUME TypeInv, RoutingInv, NoReset, NEW c \in Calls,
         LookUpWorkspace(c) \/ CountLeads(c) \/ InsertWorkspace(c)
           \/ ReadRuleCount(c) \/ BumpRuleCount(c) \/ Dies(c)
  PROVE  RoutingInv'
<1>1. ASSUME Alone(c), UNCHANGED Tables, db'.api_keys = db.api_keys, call'[c].body <=> call[c].body,
             ~Beyond(c)', pc'[c] \notin {"done", "failed"}
      PROVE  RoutingInv'
  <2>1. call'[c].body => db.leads # {}
    BY <1>1, RoutingBefore
  <2>2. QED
    BY <1>1, <2>1, RoutingQuiet
<1>2. CASE LookUpWorkspace(c)
  BY <1>1, <1>2, LookUpFacts DEF Tables, Stepped, Beyond, RoutingStage, LeadStage
<1>3. CASE CountLeads(c)
  <2>1. CASE db.leads # {} /\ EnterBody(c)
    BY <1>3, <2>1, CountFacts, RoutingEntered
  <2>2. CASE Stepped(c) /\ pc'[c] = "workspace"
    BY <1>1, <1>3, <2>2, CountFacts DEF Tables, Stepped, Beyond, RoutingStage, LeadStage
  <2>3. QED
    BY <1>3, <2>1, <2>2, CountFacts
<1>4. CASE InsertWorkspace(c)
  BY <1>1, <1>4, WorkspaceFacts DEF Tables, Stepped, Beyond, RoutingStage, LeadStage
<1>5. CASE ReadRuleCount(c)
  BY <1>1, <1>5, ReadFacts DEF Tables, Beyond, RoutingStage, LeadStage
<1>6. CASE BumpRuleCount(c)
  <2>1. call[c].body
    BY <1>6, BumpFacts, RoutingBefore DEF CallOk
  <2>2. QED
    BY <1>1, <1>6, <2>1, BumpFacts DEF Tables, Beyond
<1>7. CASE Dies(c)
  BY <1>1, <1>7, DiesFacts DEF Tables, Stepped, Beyond, RoutingStage, LeadStage
<1>8. QED
  BY <1>2, <1>3, <1>4, <1>5, <1>6, <1>7

\* What a call was called for does not change.
LEMMA OperationKept ==
  ASSUME TypeInv, NEW c \in Calls, Step(c)
  PROVE  Alone(c) /\ pc[c] # "idle" /\ call'[c].op = call[c].op
<1>1. CASE LookUpWorkspace(c)
  BY <1>1, LookUpFacts DEF Stepped
<1>2. CASE CountLeads(c)
  BY <1>2, CountFacts, Entered DEF Stepped
<1>3. CASE InsertWorkspace(c)
  BY <1>3, WorkspaceFacts DEF Stepped
<1>4. CASE InsertKey(c)
  BY <1>4, KeyFacts DEF Stepped
<1>5. CASE InsertIntegration(c)
  BY <1>5, IntegrationFacts, Looped, Sizes DEF Stepped
<1>6. CASE \/ pc[c] = "ruleNumber" /\ NextPublic(c, "rule", "rule")
           \/ pc[c] = "leadNumber" /\ NextPublic(c, "lead", "lead")
           \/ pc[c] = "deliveryNumber" /\ NextPublic(c, "delivery", "delivery")
  BY <1>6, DrawFacts
<1>7. CASE InsertRule(c)
  BY <1>7, RuleFacts, Looped, Sizes, ReturnFacts, Entered DEF Stepped
<1>8. CASE InsertLead(c)
  BY <1>8, LeadFacts DEF Stepped
<1>9. CASE InsertDelivery(c)
  BY <1>9, DeliveryFacts, Looped, Sizes, ReturnFacts, Entered DEF Stepped
<1>10. CASE ReadRuleCount(c)
  BY <1>10, ReadFacts
<1>11. CASE BumpRuleCount(c)
  BY <1>11, BumpFacts
<1>12. CASE Delete(c)
  BY <1>12, DeleteFacts, Looped
<1>13. QED
  BY <1>1, <1>2, <1>3, <1>4, <1>5, <1>6, <1>7, <1>8, <1>9, <1>10, <1>11, <1>12 DEF Step

\* A history without resets never had one.
LEMMA NeverReset ==
  ASSUME TypeInv, [Next]_vars, NoReset'
  PROVE  NoReset
<1>1. ASSUME NEW c \in Calls, call[c].op = "resetDemo" PROVE call'[c].op = "resetDemo"
  <2>1. pc[c] # "idle"
    BY <1>1, CallAssumption DEF TypeInv, CallOk, NoCall, AllOperations
  <2>2. CASE UNCHANGED vars
    BY <1>1, <2>2 DEF vars
  <2>3. ASSUME NEW d \in Calls, Start(d) PROVE call'[c].op = "resetDemo"
    BY <1>1, <2>1, <2>3, StartFacts DEF Alone
  <2>4. ASSUME NEW d \in Calls, Step(d) PROVE call'[c].op = "resetDemo"
    BY <1>1, <2>4, OperationKept DEF Alone
  <2>5. ASSUME NEW d \in Calls, Dies(d) PROVE call'[c].op = "resetDemo"
    BY <1>1, <2>5 DEF Dies
  <2>6. QED
    BY <2>2, <2>3, <2>4, <2>5 DEF Next, Terminating
<1>2. QED
  BY <1>1 DEF NoReset

\* The invariant is kept by every step.
LEMMA RoutingKept ==
  ASSUME TypeInv, NoReset => RoutingInv, [Next]_vars
  PROVE  (NoReset => RoutingInv)'
<1> SUFFICES ASSUME NoReset' PROVE RoutingInv'
  OBVIOUS
<1>1. NoReset /\ RoutingInv
  BY NeverReset
<1>2. CASE UNCHANGED vars
  BY <1>1, <1>2 DEF vars, RoutingInv, Beyond, Inserted, Routed, Fresh
<1>3. ASSUME NEW c \in Calls, Start(c) PROVE RoutingInv'
  <2>1. /\ Alone(c) /\ UNCHANGED Tables /\ (db'.api_keys <=> db.api_keys)
        /\ ~call'[c].body /\ pc'[c] = "ensure"
    BY <1>3, StartFacts DEF Tables
  <2>2. ~Beyond(c)'
    BY <2>1 DEF Beyond, RoutingStage, LeadStage
  <2>3. QED
    BY <1>1, <2>1, <2>2, RoutingQuiet
<1>4. ASSUME NEW c \in Calls, Step(c) PROVE RoutingInv'
  <2>1. ~Delete(c)
    BY <1>1, RoutingBefore DEF Delete
  <2>2. QED
    BY <1>1, <1>4, <2>1, RoutingOthers, RoutingKey, RoutingIntegration, RoutingDraw, RoutingRule,
       RoutingLead, RoutingDelivery DEF Step
<1>5. ASSUME NEW c \in Calls, Dies(c) PROVE RoutingInv'
  BY <1>1, <1>5, RoutingOthers
<1>6. QED
  BY <1>2, <1>3, <1>4, <1>5 DEF Next, Terminating

\* A workspace that was seeded before has it all, an empty one nothing.
LEMMA RoutingStart ==
  ASSUME Init
  PROVE  RoutingInv
<1>1. \A c \in Calls : pc[c] = "idle" /\ ~call[c].body
  BY NoneOfAll DEF Init
<1>2. \A c \in Calls : ~Beyond(c)
  BY <1>1 DEF Beyond, RoutingStage, LeadStage
<1>3. CASE db = Empty
  BY <1>1, <1>2, <1>3, EmptyDb DEF RoutingInv, Fresh
<1>4. CASE db = SeededBy(Before)
  <2>1. /\ db.api_keys /\ \A p \in 1..Providers :
             /\ Of(p, Before) \in db.integrations
             /\ [number |-> p, integration |-> Of(p, Before)] \in db.routing_rules
    BY <1>4 DEF SeededBy, Of
  <2>2. ASSUME NEW p \in 1..Providers
        PROVE  \E i \in db.integrations, r \in db.routing_rules :
                 i.provider = p /\ r.integration = i
    <3>1. /\ Of(p, Before).provider = p
          /\ [number |-> p, integration |-> Of(p, Before)].integration = Of(p, Before)
      BY DEF Of
    <3>2. QED
      BY <2>1, <3>1
  <2>3. Routed
    BY <2>2 DEF Routed
  <2>4. QED
    BY <1>1, <1>2, <2>1, <2>3 DEF RoutingInv
<1>5. QED
  BY <1>3, <1>4 DEF Init

\* Without resets, a server function whose ensureWorkspace has returned finds
\* the key, all integrations and all rules of the seed, however many calls
\* seed at once and whichever of them die.
THEOREM BodiesHaveRouting == Spec => []BodyHasRouting
<1>1. Init => (NoReset => RoutingInv)
  BY RoutingStart
<1>2. TypeInv /\ (NoReset => RoutingInv) /\ [Next]_vars => (NoReset => RoutingInv)'
  BY RoutingKept
<1>3. (NoReset => RoutingInv) => BodyHasRouting
  BY DEF BodyHasRouting, RoutingInv, Routed
<1>4. QED
  BY <1>1, <1>2, <1>3, TypeCorrect, PTL DEF Spec
-----------------------------------------------------------------------------
(***************************************************************************)
(* Without resets the numbers of leads and deliveries that calls have      *)
(* drawn are free and differ, and the one call that seeds draws its rule   *)
(* numbers alone; so it never fails, and counts what it inserts.           *)
(***************************************************************************)
Numbered(p, q, stage, table, n) ==
  /\ \A r \in table : r.number \in Nat /\ r.number <= n
  /\ \A c \in Calls :
       p[c] = stage => q[c].number \in Nat /\ q[c].number <= n /\ free(table, q[c].number)
  /\ \A c, d \in Calls : p[c] = stage /\ p[d] = stage /\ c # d => q[c].number # q[d].number

NumberInv ==
  /\ Numbered(pc, call, "lead", db.leads, db.id_counters.lead)
  /\ Numbered(pc, call, "delivery", db.deliveries, db.id_counters.delivery)
  /\ db.leads = {} => Numbered(pc, call, "rule", db.routing_rules, db.id_counters.rule)

Seeds(table) == {r \in table : r.seeded}

Counted(c) ==
  /\ pc[c] \in {"leadNumber", "lead"} => Cardinality(Seeds(db.leads)) = call[c].k - 1
  /\ pc[c] \in {"deliveryNumber", "delivery"} => Cardinality(Seeds(db.leads)) = call[c].k
  /\ pc[c] \in LeadStage => Cardinality(Seeds(db.deliveries)) = call[c].k - 1

Full ==
  /\ Cardinality(Seeds(db.leads)) = SeedLeads
  /\ Cardinality(Seeds(db.deliveries)) = SeedLeads

CountInv ==
  /\ IsFiniteSet(Seeds(db.leads)) /\ IsFiniteSet(Seeds(db.deliveries))
  /\ \A c \in Calls : Beyond(c) => Counted(c)
  /\ faults = 0 /\ db.api_keys => Full \/ \E c \in Calls : Beyond(c)

\* Somebody else steps, or this call leaves the stage and inserts nothing.
LEMMA NumberedOther ==
  ASSUME NEW p, NEW q, NEW p2, NEW q2, NEW stage, NEW table, NEW n \in Nat, NEW m \in Nat, n <= m,
         NEW c \in Calls, \A d \in Calls \ {c} : p2[d] = p[d] /\ q2[d] = q[d],
         p2[c] # stage, Numbered(p, q, stage, table, n)
  PROVE  Numbered(p2, q2, stage, table, m)
<1>1. \A r \in table : r.number \in Nat /\ r.number <= m
  BY DEF Numbered
<1>2. ASSUME NEW d \in Calls, p2[d] = stage
      PROVE  q2[d].number \in Nat /\ q2[d].number <= m /\ free(table, q2[d].number)
  <2>1. p[d] = stage /\ q2[d] = q[d]
    BY <1>2
  <2>2. q[d].number \in Nat /\ q[d].number <= n /\ free(table, q[d].number)
    BY <2>1 DEF Numbered
  <2>3. QED
    BY <2>1, <2>2
<1>3. ASSUME NEW d \in Calls, NEW e \in Calls, p2[d] = stage, p2[e] = stage, d # e
      PROVE  q2[d].number # q2[e].number
  BY <1>3 DEF Numbered
<1>4. QED
  BY <1>1, <1>2, <1>3 DEF Numbered

\* The next number is drawn.
LEMMA NumberedDrawn ==
  ASSUME NEW p, NEW q, NEW p2, NEW q2, NEW stage, NEW table, NEW n \in Nat,
         NEW c \in Calls, \A d \in Calls \ {c} : p2[d] = p[d] /\ q2[d] = q[d],
         q2[c].number = n + 1, Numbered(p, q, stage, table, n)
  PROVE  Numbered(p2, q2, stage, table, n + 1)
<1>1. \A r \in table : r.number \in Nat /\ r.number <= n + 1 /\ r.number # n + 1
  BY DEF Numbered
<1>2. ASSUME NEW d \in Calls, d # c, p2[d] = stage
      PROVE  q2[d].number \in Nat /\ q2[d].number <= n /\ free(table, q2[d].number)
  <2>1. p[d] = stage /\ q2[d] = q[d]
    BY <1>2
  <2>2. QED
    BY <2>1 DEF Numbered
<1>3. ASSUME NEW d \in Calls, p2[d] = stage
      PROVE  q2[d].number \in Nat /\ q2[d].number <= n + 1 /\ free(table, q2[d].number)
  <2>1. CASE d = c
    BY <1>1, <2>1 DEF free
  <2>2. CASE d # c
    BY <1>2, <1>3, <2>2
  <2>3. QED
    BY <2>1, <2>2
<1>4. ASSUME NEW d \in Calls, NEW e \in Calls, p2[d] = stage, p2[e] = stage, d # e
      PROVE  q2[d].number # q2[e].number
  <2>1. CASE d # c /\ e # c
    BY <1>4, <2>1 DEF Numbered
  <2>2. CASE d = c
    BY <1>2, <1>4, <2>2
  <2>3. CASE e = c
    BY <1>2, <1>4, <2>3
  <2>4. QED
    BY <2>1, <2>2, <2>3
<1>5. QED
  BY <1>1, <1>3, <1>4 DEF Numbered

\* A row is inserted with the number drawn for it.
LEMMA NumberedInserted ==
  ASSUME NEW p, NEW q, NEW p2, NEW q2, NEW stage, NEW table, NEW more, NEW row, NEW n \in Nat,
         NEW c \in Calls, \A d \in Calls \ {c} : p2[d] = p[d] /\ q2[d] = q[d],
         p[c] = stage, p2[c] # stage, more = table \cup {row}, row.number = q[c].number,
         Numbered(p, q, stage, table, n)
  PROVE  Numbered(p2, q2, stage, more, n)
<1>1. \A r \in more : r.number \in Nat /\ r.number <= n
  BY DEF Numbered
<1>2. ASSUME NEW d \in Calls, p2[d] = stage
      PROVE  q2[d].number \in Nat /\ q2[d].number <= n /\ free(more, q2[d].number)
  <2>1. p[d] = stage /\ q2[d] = q[d] /\ d # c
    BY <1>2
  <2>2. q[d].number \in Nat /\ q[d].number <= n /\ free(table, q[d].number)
        /\ q[c].number # q[d].number
    BY <2>1 DEF Numbered
  <2>3. QED
    BY <2>1, <2>2 DEF free
<1>3. ASSUME NEW d \in Calls, NEW e \in Calls, p2[d] = stage, p2[e] = stage, d # e
      PROVE  q2[d].number # q2[e].number
  BY <1>3 DEF Numbered
<1>4. QED
  BY <1>1, <1>2, <1>3 DEF Numbered

\* The counters count.
LEMMA CountersAreNumbers ==
  ASSUME TypeInv
  PROVE  db.id_counters.lead \in Nat /\ db.id_counters.delivery \in Nat /\ db.id_counters.rule \in Nat
BY DEF TypeInv, Db, Counters

\* A step that draws no number and inserts no numbered row.
LEMMA NumberQuiet ==
  ASSUME TypeInv, NumberInv, NEW c \in Calls, Alone(c), pc'[c] \notin {"rule", "lead", "delivery"},
         db'.routing_rules = db.routing_rules, db'.leads = db.leads,
         db'.deliveries = db.deliveries, db'.id_counters = db.id_counters
  PROVE  NumberInv'
<1>1. \A d \in Calls \ {c} : pc'[d] = pc[d] /\ call'[d] = call[d]
  BY DEF Alone
<1>2. Numbered(pc', call', "lead", db.leads, db.id_counters.lead)
  <2>1. Numbered(pc, call, "lead", db.leads, db.id_counters.lead)
    BY DEF NumberInv
  <2>2. QED
    BY <1>1, <2>1, CountersAreNumbers, NumberedOther
<1>3. Numbered(pc', call', "delivery", db.deliveries, db.id_counters.delivery)
  <2>1. Numbered(pc, call, "delivery", db.deliveries, db.id_counters.delivery)
    BY DEF NumberInv
  <2>2. QED
    BY <1>1, <2>1, CountersAreNumbers, NumberedOther
<1>4. ASSUME db.leads = {}
      PROVE  Numbered(pc', call', "rule", db.routing_rules, db.id_counters.rule)
  <2>1. Numbered(pc, call, "rule", db.routing_rules, db.id_counters.rule)
    BY <1>4 DEF NumberInv
  <2>2. QED
    BY <1>1, <2>1, CountersAreNumbers, NumberedOther
<1>5. QED
  BY <1>2, <1>3, <1>4 DEF NumberInv

\* The lead number, the delivery number, or the number of a rule is drawn.
LEMMA NumberDraw ==
  ASSUME TypeInv, NumberInv, NEW c \in Calls,
         \/ NextPublic(c, "rule", "rule")
         \/ NextPublic(c, "lead", "lead")
         \/ NextPublic(c, "delivery", "delivery")
  PROVE  NumberInv'
<1>1. /\ Alone(c) /\ db'.routing_rules = db.routing_rules /\ db'.leads = db.leads
      /\ db'.deliveries = db.deliveries
  BY DrawFacts
<1>2. \A d \in Calls \ {c} : pc'[d] = pc[d] /\ call'[d] = call[d]
  BY <1>1 DEF Alone
<1>3. /\ Numbered(pc, call, "lead", db.leads, db.id_counters.lead)
      /\ Numbered(pc, call, "delivery", db.deliveries, db.id_counters.delivery)
      /\ db.leads = {} => Numbered(pc, call, "rule", db.routing_rules, db.id_counters.rule)
  BY DEF NumberInv
<1>4. CASE NextPublic(c, "lead", "lead")
  <2>1. /\ pc'[c] = "lead" /\ call'[c].number = db.id_counters.lead + 1
        /\ db'.id_counters.lead = db.id_counters.lead + 1
        /\ db'.id_counters.delivery = db.id_counters.delivery
        /\ db'.id_counters.rule = db.id_counters.rule
    BY <1>4, DrawFacts
  <2>2. Numbered(pc', call', "lead", db.leads, db.id_counters.lead + 1)
    BY <1>2, <1>3, <2>1, CountersAreNumbers, NumberedDrawn
  <2>3. Numbered(pc', call', "delivery", db.deliveries, db.id_counters.delivery)
    BY <1>2, <1>3, <2>1, CountersAreNumbers, NumberedOther
  <2>4. db.leads = {} => Numbered(pc', call', "rule", db.routing_rules, db.id_counters.rule)
    BY <1>2, <1>3, <2>1, CountersAreNumbers, NumberedOther
  <2>5. QED
    BY <1>1, <2>1, <2>2, <2>3, <2>4 DEF NumberInv
<1>5. CASE NextPublic(c, "delivery", "delivery")
  <2>1. /\ pc'[c] = "delivery" /\ call'[c].number = db.id_counters.delivery + 1
        /\ db'.id_counters.delivery = db.id_counters.delivery + 1
        /\ db'.id_counters.lead = db.id_counters.lead
        /\ db'.id_counters.rule = db.id_counters.rule
    BY <1>5, DrawFacts
  <2>2. Numbered(pc', call', "delivery", db.deliveries, db.id_counters.delivery + 1)
    BY <1>2, <1>3, <2>1, CountersAreNumbers, NumberedDrawn
  <2>3. Numbered(pc', call', "lead", db.leads, db.id_counters.lead)
    BY <1>2, <1>3, <2>1, CountersAreNumbers, NumberedOther
  <2>4. db.leads = {} => Numbered(pc', call', "rule", db.routing_rules, db.id_counters.rule)
    BY <1>2, <1>3, <2>1, CountersAreNumbers, NumberedOther
  <2>5. QED
    BY <1>1, <2>1, <2>2, <2>3, <2>4 DEF NumberInv
<1>6. CASE NextPublic(c, "rule", "rule")
  <2>1. /\ pc'[c] = "rule" /\ call'[c].number = db.id_counters.rule + 1
        /\ db'.id_counters.rule = db.id_counters.rule + 1
        /\ db'.id_counters.lead = db.id_counters.lead
        /\ db'.id_counters.delivery = db.id_counters.delivery
    BY <1>6, DrawFacts
  <2>2. db.leads = {} => Numbered(pc', call', "rule", db.routing_rules, db.id_counters.rule + 1)
    BY <1>2, <1>3, <2>1, CountersAreNumbers, NumberedDrawn
  <2>3. Numbered(pc', call', "lead", db.leads, db.id_counters.lead)
    BY <1>2, <1>3, <2>1, CountersAreNumbers, NumberedOther
  <2>4. Numbered(pc', call', "delivery", db.deliveries, db.id_counters.delivery)
    BY <1>2, <1>3, <2>1, CountersAreNumbers, NumberedOther
  <2>5. QED
    BY <1>1, <2>1, <2>2, <2>3, <2>4 DEF NumberInv
<1>7. QED
  BY <1>4, <1>5, <1>6

\* A rule is inserted.
LEMMA NumberRule ==
  ASSUME TypeInv, RoutingInv, NoReset, NumberInv, NEW c \in Calls, InsertRule(c)
  PROVE  NumberInv'
<1>1. pc[c] = "rule"
  BY RuleFacts
<1>2. Alone(c) /\ pc'[c] \notin {"rule", "lead", "delivery"}
  <2>1. CASE Stepped(c) /\ pc'[c] = "failed"
    BY <2>1 DEF Stepped
  <2>2. CASE Loop(c, Providers, "ruleNumber", "leadNumber")
    BY <2>2, Looped, Sizes
  <2>3. CASE Return(c) /\ ~Seeding(c)
    <3>1. call[c].body
      BY <2>3, RoutingBefore
    <3>2. QED
      BY <2>3, <3>1, ReturnFacts DEF Stepped
  <2>4. QED
    BY <2>1, <2>2, <2>3, RuleFacts
<1>3. CASE db' = db
  BY <1>2, <1>3, NumberQuiet
<1>4. CASE /\ db'.routing_rules = db.routing_rules
                \cup {[number |-> call[c].number, integration |-> Target(c)]}
           /\ db'.leads = db.leads /\ db'.deliveries = db.deliveries
           /\ db'.id_counters = db.id_counters
  <2>1. \A d \in Calls \ {c} : pc'[d] = pc[d] /\ call'[d] = call[d]
    BY <1>2 DEF Alone
  <2>2. /\ Numbered(pc, call, "lead", db.leads, db.id_counters.lead)
        /\ Numbered(pc, call, "delivery", db.deliveries, db.id_counters.delivery)
        /\ db.leads = {} => Numbered(pc, call, "rule", db.routing_rules, db.id_counters.rule)
    BY DEF NumberInv
  <2>3. Numbered(pc', call', "lead", db.leads, db.id_counters.lead)
    BY <1>2, <2>1, <2>2, CountersAreNumbers, NumberedOther
  <2>4. Numbered(pc', call', "delivery", db.deliveries, db.id_counters.delivery)
    BY <1>2, <2>1, <2>2, CountersAreNumbers, NumberedOther
  <2>5. PICK row : row = [number |-> call[c].number, integration |-> Target(c)]
    OBVIOUS
  <2>6. row.number = call[c].number /\ db'.routing_rules = db.routing_rules \cup {row}
    BY <1>4, <2>5
  <2>7. db.leads = {} => Numbered(pc', call', "rule", db'.routing_rules, db.id_counters.rule)
    BY <1>1, <1>2, <2>1, <2>2, <2>6, CountersAreNumbers, NumberedInserted
  <2>8. QED
    BY <1>4, <2>3, <2>4, <2>7 DEF NumberInv
<1>5. QED
  BY <1>3, <1>4, RuleFacts

\* A lead is inserted.
LEMMA NumberLead ==
  ASSUME TypeInv, NumberInv, NEW c \in Calls, InsertLead(c)
  PROVE  NumberInv'
<1>1. pc[c] = "lead" /\ Alone(c) /\ pc'[c] \notin {"rule", "lead", "delivery"}
  BY LeadFacts DEF Stepped
<1>2. CASE db' = db
  BY <1>1, <1>2, NumberQuiet
<1>3. CASE /\ db'.leads = db.leads \cup {[number |-> call[c].number, seeded |-> Seeding(c)]}
           /\ db'.routing_rules = db.routing_rules /\ db'.deliveries = db.deliveries
           /\ db'.id_counters = db.id_counters
  <2>1. \A d \in Calls \ {c} : pc'[d] = pc[d] /\ call'[d] = call[d]
    BY <1>1 DEF Alone
  <2>2. /\ Numbered(pc, call, "lead", db.leads, db.id_counters.lead)
        /\ Numbered(pc, call, "delivery", db.deliveries, db.id_counters.delivery)
    BY DEF NumberInv
  <2>3. PICK row : row = [number |-> call[c].number, seeded |-> Seeding(c)]
    OBVIOUS
  <2>4. row.number = call[c].number /\ db'.leads = db.leads \cup {row}
    BY <1>3, <2>3
  <2>5. Numbered(pc', call', "lead", db'.leads, db.id_counters.lead)
    BY <1>1, <2>1, <2>2, <2>4, CountersAreNumbers, NumberedInserted
  <2>6. Numbered(pc', call', "delivery", db.deliveries, db.id_counters.delivery)
    BY <1>1, <2>1, <2>2, CountersAreNumbers, NumberedOther
  <2>7. db'.leads # {}
    BY <2>4
  <2>8. QED
    BY <1>3, <2>5, <2>6, <2>7 DEF NumberInv
<1>4. QED
  BY <1>2, <1>3, LeadFacts

\* A delivery is inserted.
LEMMA NumberDelivery ==
  ASSUME TypeInv, NumberInv, NEW c \in Calls, InsertDelivery(c)
  PROVE  NumberInv'
<1>1. pc[c] = "delivery" /\ CallOk(c)
  BY DeliveryFacts DEF TypeInv
<1>2. Alone(c) /\ pc'[c] \notin {"rule", "lead", "delivery"}
  <2>1. CASE Stepped(c) /\ pc'[c] \in {"failed", "done"}
    BY <2>1 DEF Stepped
  <2>2. CASE Loop(c, SeedLeads, "leadNumber", "done")
    BY <2>2, Looped, Sizes
  <2>3. CASE EnterBody(c)
    <3>1. call[c].op \in AllOperations
      BY <1>1 DEF CallOk
    <3>2. QED
      BY <2>3, <3>1, Entered DEF AllOperations
  <2>4. QED
    BY <2>1, <2>2, <2>3, DeliveryFacts, ReturnFacts
<1>3. CASE db' = db
  BY <1>2, <1>3, NumberQuiet
<1>4. CASE /\ db'.deliveries = db.deliveries
                \cup {[number |-> call[c].number, seeded |-> Seeding(c)]}
           /\ db'.routing_rules = db.routing_rules /\ db'.leads = db.leads
           /\ db'.id_counters = db.id_counters
  <2>1. \A d \in Calls \ {c} : pc'[d] = pc[d] /\ call'[d] = call[d]
    BY <1>2 DEF Alone
  <2>2. /\ Numbered(pc, call, "lead", db.leads, db.id_counters.lead)
        /\ Numbered(pc, call, "delivery", db.deliveries, db.id_counters.delivery)
        /\ db.leads = {} => Numbered(pc, call, "rule", db.routing_rules, db.id_counters.rule)
    BY DEF NumberInv
  <2>3. PICK row : row = [number |-> call[c].number, seeded |-> Seeding(c)]
    OBVIOUS
  <2>4. row.number = call[c].number /\ db'.deliveries = db.deliveries \cup {row}
    BY <1>4, <2>3
  <2>5. Numbered(pc', call', "delivery", db'.deliveries, db.id_counters.delivery)
    BY <1>1, <1>2, <2>1, <2>2, <2>4, CountersAreNumbers, NumberedInserted
  <2>6. Numbered(pc', call', "lead", db.leads, db.id_counters.lead)
    BY <1>2, <2>1, <2>2, CountersAreNumbers, NumberedOther
  <2>7. db.leads = {} => Numbered(pc', call', "rule", db.routing_rules, db.id_counters.rule)
    BY <1>2, <2>1, <2>2, CountersAreNumbers, NumberedOther
  <2>8. QED
    BY <1>4, <2>5, <2>6, <2>7 DEF NumberInv
<1>5. QED
  BY <1>3, <1>4, DeliveryFacts

\* A rule that is saved later draws its number when there are leads.
LEMMA NumberBump ==
  ASSUME TypeInv, RoutingInv, NoReset, NumberInv, NEW c \in Calls, BumpRuleCount(c)
  PROVE  NumberInv'
<1>1. /\ Alone(c) /\ pc'[c] = "rule" /\ call[c].body
      /\ db'.leads = db.leads /\ db'.deliveries = db.deliveries
      /\ db'.id_counters.lead = db.id_counters.lead
      /\ db'.id_counters.delivery = db.id_counters.delivery
  BY BumpFacts, RoutingBefore DEF CallOk
<1>2. db'.leads # {}
  BY <1>1, RoutingBefore
<1>3. \A d \in Calls \ {c} : pc'[d] = pc[d] /\ call'[d] = call[d]
  BY <1>1 DEF Alone
<1>4. /\ Numbered(pc, call, "lead", db.leads, db.id_counters.lead)
      /\ Numbered(pc, call, "delivery", db.deliveries, db.id_counters.delivery)
  BY DEF NumberInv
<1>5. Numbered(pc', call', "lead", db.leads, db.id_counters.lead)
  <2>1. pc'[c] # "lead" /\ db.id_counters.lead \in Nat
    BY <1>1, CountersAreNumbers
  <2>2. QED
    BY <1>3, <1>4, <2>1, NumberedOther
<1>6. Numbered(pc', call', "delivery", db.deliveries, db.id_counters.delivery)
  BY <1>1, <1>3, <1>4, CountersAreNumbers, NumberedOther
<1>7. QED
  BY <1>1, <1>2, <1>5, <1>6 DEF NumberInv

\* The invariant of the numbers is kept by every step.
LEMMA NumberKept ==
  ASSUME TypeInv, RoutingInv, NoReset, NumberInv, [Next]_vars
  PROVE  NumberInv'
<1>1. CASE UNCHANGED vars
  BY <1>1 DEF vars, NumberInv
<1>2. ASSUME NEW c \in Calls, Start(c) PROVE NumberInv'
  BY <1>2, StartFacts, NumberQuiet
<1>3. ASSUME NEW c \in Calls, Dies(c) PROVE NumberInv'
  BY <1>3, DiesFacts, NumberQuiet DEF Stepped
<1>4. ASSUME NEW c \in Calls, LookUpWorkspace(c) PROVE NumberInv'
  BY <1>4, LookUpFacts, NumberQuiet DEF Stepped
<1>5. ASSUME NEW c \in Calls, CountLeads(c) PROVE NumberInv'
  <2>1. CASE EnterBody(c)
    <3>1. call[c].op \in AllOperations
      BY <1>5, CountFacts DEF TypeInv, CallOk
    <3>2. Alone(c) /\ pc'[c] \notin {"rule", "lead", "delivery"}
      BY <2>1, <3>1, Entered DEF AllOperations
    <3>3. QED
      BY <1>5, <3>2, CountFacts, NumberQuiet
  <2>2. CASE Stepped(c) /\ pc'[c] = "workspace"
    BY <1>5, <2>2, CountFacts, NumberQuiet DEF Stepped
  <2>3. QED
    BY <1>5, <2>1, <2>2, CountFacts
<1>6. ASSUME NEW c \in Calls, InsertWorkspace(c) PROVE NumberInv'
  BY <1>6, WorkspaceFacts, NumberQuiet DEF Stepped
<1>7. ASSUME NEW c \in Calls, InsertKey(c) PROVE NumberInv'
  <2>1. /\ Alone(c) /\ pc'[c] \in {"integration", "failed"}
        /\ db'.routing_rules = db.routing_rules /\ db'.leads = db.leads
        /\ db'.deliveries = db.deliveries /\ db'.id_counters = db.id_counters
    BY <1>7, KeyFacts DEF Stepped
  <2>2. QED
    BY <2>1, NumberQuiet
<1>8. ASSUME NEW c \in Calls, InsertIntegration(c) PROVE NumberInv'
  <2>1. Alone(c) /\ pc'[c] \in {"integration", "ruleNumber", "failed"}
    BY <1>8, IntegrationFacts, Looped, Sizes DEF Stepped
  <2>2. /\ db'.routing_rules = db.routing_rules /\ db'.leads = db.leads
        /\ db'.deliveries = db.deliveries /\ db'.id_counters = db.id_counters
    BY <1>8, IntegrationFacts
  <2>3. QED
    BY <2>1, <2>2, NumberQuiet
<1>9. ASSUME NEW c \in Calls, ReadRuleCount(c) PROVE NumberInv'
  BY <1>9, ReadFacts, NumberQuiet
<1>10. ASSUME NEW c \in Calls PROVE ~Delete(c)
  BY RoutingBefore DEF Delete
<1>11. ASSUME NEW c \in Calls, Step(c) PROVE NumberInv'
  BY <1>4, <1>5, <1>6, <1>7, <1>8, <1>9, <1>10, <1>11, NumberDraw, NumberRule, NumberLead,
     NumberDelivery, NumberBump DEF Step
<1>12. QED
  BY <1>1, <1>2, <1>3, <1>11 DEF Next, Terminating

\* A seeded row is one more, any other does not count.
LEMMA SeedsAdded ==
  ASSUME NEW table, NEW more, NEW row, more = table \cup {row}, row \notin table,
         IsFiniteSet(Seeds(table))
  PROVE  /\ IsFiniteSet(Seeds(more))
         /\ row.seeded => Cardinality(Seeds(more)) = Cardinality(Seeds(table)) + 1
         /\ ~row.seeded => Seeds(more) = Seeds(table)
<1>1. CASE row.seeded
  <2>1. Seeds(more) = Seeds(table) \cup {row} /\ row \notin Seeds(table)
    BY <1>1 DEF Seeds
  <2>2. QED
    BY <1>1, <2>1, FS_AddElement
<1>2. CASE ~row.seeded
  <2>1. Seeds(more) = Seeds(table)
    BY <1>2 DEF Seeds
  <2>2. QED
    BY <1>2, <2>1
<1>3. QED
  BY <1>1, <1>2

\* What the others have counted is not disturbed when no seeded row is added.
LEMMA CountStep ==
  ASSUME TypeInv, CountInv, NEW c \in Calls, Alone(c),
         Seeds(db'.leads) = Seeds(db.leads), Seeds(db'.deliveries) = Seeds(db.deliveries),
         Beyond(c)' => Counted(c)',
         faults' = 0 => faults = 0,
         db'.api_keys => Beyond(c)' \/ (db.api_keys /\ (faults' = 0 => ~Beyond(c)))
  PROVE  CountInv'
<1>1. ASSUME NEW d \in Calls, d # c PROVE pc'[d] = pc[d] /\ call'[d] = call[d]
  BY <1>1 DEF Alone
<1>2. ASSUME NEW d \in Calls, d # c PROVE (Beyond(d)' => Beyond(d)) /\ (Beyond(d) => Beyond(d)')
  <2>1. pc'[d] = pc[d] /\ call'[d] = call[d]
    BY <1>1, <1>2
  <2>2. QED
    BY <2>1 DEF Beyond
<1>3. ASSUME NEW d \in Calls, Beyond(d)' PROVE Counted(d)'
  <2>1. CASE d = c
    BY <1>3, <2>1
  <2>2. CASE d # c
    <3>1. pc'[d] = pc[d] /\ call'[d] = call[d] /\ Beyond(d)
      BY <1>1, <1>2, <1>3, <2>2
    <3>2. Counted(d)
      BY <3>1 DEF CountInv
    <3>3. QED
      BY <3>1, <3>2 DEF Counted
  <2>3. QED
    BY <2>1, <2>2
<1>4. ASSUME faults' = 0, db'.api_keys PROVE Full' \/ \E d \in Calls : Beyond(d)'
  <2>1. CASE Beyond(c)'
    BY <2>1
  <2>2. CASE faults = 0 /\ db.api_keys /\ ~Beyond(c)
    <3>1. CASE Full
      BY <3>1 DEF Full
    <3>2. CASE \E d \in Calls : Beyond(d)
      <4>1. PICK d \in Calls : Beyond(d)
        BY <3>2
      <4>2. Beyond(d)'
        BY <2>2, <4>1, <1>2
      <4>3. QED
        BY <4>2
    <3>3. Full \/ \E d \in Calls : Beyond(d)
      BY <2>2 DEF CountInv
    <3>4. QED
      BY <3>1, <3>2, <3>3
  <2>3. QED
    BY <1>4, <2>1, <2>2
<1>5. IsFiniteSet(Seeds(db'.leads)) /\ IsFiniteSet(Seeds(db'.deliveries))
  BY DEF CountInv
<1>6. QED
  BY <1>3, <1>4, <1>5 DEF CountInv

\* A step that adds no lead and no delivery, and is not a death.
LEMMA CountQuiet ==
  ASSUME TypeInv, CountInv, NEW c \in Calls, Alone(c), faults' = faults,
         db'.leads = db.leads, db'.deliveries = db.deliveries, db'.api_keys => db.api_keys,
         Beyond(c) => Beyond(c)', Beyond(c)' => Counted(c)'
  PROVE  CountInv'
BY CountStep

\* The call that seeds finds its numbers and its integrations free.
LEMMA SeederSucceeds ==
  ASSUME TypeInv, RoutingInv, NoReset, NumberInv, NEW c \in Calls, Beyond(c)
  PROVE  /\ pc[c] = "integration" => \A i \in db.integrations : i.provider # call[c].k
         /\ pc[c] = "rule" => free(db.routing_rules, call[c].number)
         /\ pc[c] = "lead" => free(db.leads, call[c].number)
         /\ pc[c] = "delivery" => free(db.deliveries, call[c].number)
<1>1. Inserted(c) /\ CallOk(c) /\ ~call[c].body /\ Seeding(c)
  BY RoutingBefore DEF Beyond
<1>2. ASSUME pc[c] = "integration" PROVE \A i \in db.integrations : i.provider # call[c].k
  <2>1. \A i \in db.integrations : i.provider < call[c].k
    BY <1>1, <1>2 DEF Inserted
  <2>2. call[c].k \in Nat
    BY <1>1 DEF CallOk, CallType
  <2>3. \A i \in db.integrations : i.provider \in Nat
    BY Sizes DEF TypeInv, Db, Integrations
  <2>4. QED
    BY <2>1, <2>2, <2>3
<1>3. ASSUME pc[c] = "rule" PROVE free(db.routing_rules, call[c].number)
  <2>1. db.leads = {}
    BY <1>1, <1>3 DEF Inserted
  <2>2. QED
    BY <1>3, <2>1 DEF NumberInv, Numbered
<1>4. ASSUME pc[c] = "lead" PROVE free(db.leads, call[c].number)
  BY <1>4 DEF NumberInv, Numbered
<1>5. ASSUME pc[c] = "delivery" PROVE free(db.deliveries, call[c].number)
  BY <1>5 DEF NumberInv, Numbered
<1>6. QED
  BY <1>2, <1>3, <1>4, <1>5

\* A call that fails did not seed.
LEMMA CountFailed ==
  ASSUME TypeInv, CountInv, NEW c \in Calls, Stepped(c), pc'[c] = "failed", db' = db,
         faults' = faults, ~Beyond(c)
  PROVE  CountInv'
<1>1. ~Beyond(c)' /\ Alone(c)
  BY DEF Beyond, RoutingStage, LeadStage, Stepped
<1>2. QED
  BY <1>1, CountQuiet

\* The key is inserted, or found.
LEMMA CountKey ==
  ASSUME TypeInv, RoutingInv, NoReset, CountInv, NEW c \in Calls, InsertKey(c)
  PROVE  CountInv'
<1>1. pc[c] = "key" /\ faults' = faults /\ Stepped(c) /\ ~Beyond(c)
  BY KeyFacts DEF Beyond, RoutingStage, LeadStage
<1>2. CASE pc'[c] = "failed" /\ db' = db
  BY <1>1, <1>2, CountFailed
<1>3. CASE ~db.api_keys /\ pc'[c] = "integration" /\ db'.leads = db.leads /\ db'.deliveries = db.deliveries
  <2>1. Fresh
    BY <1>3, RoutingBefore
  <2>2. ~call[c].body
    BY <2>1, RoutingBefore DEF Fresh
  <2>3. Beyond(c)'
    BY <1>1, <1>3, <2>2 DEF Beyond, Stepped, RoutingStage
  <2>4. Counted(c)'
    BY <1>3 DEF Counted, LeadStage
  <2>5. Alone(c)
    BY <1>1 DEF Stepped
  <2>6. QED
    BY <1>1, <1>3, <2>3, <2>4, <2>5, CountStep
<1>4. QED
  BY <1>2, <1>3, KeyFacts

\* An integration is inserted.
LEMMA CountIntegration ==
  ASSUME TypeInv, RoutingInv, NoReset, NumberInv, CountInv, NEW c \in Calls, InsertIntegration(c)
  PROVE  CountInv'
<1>1. pc[c] = "integration" /\ faults' = faults
  BY IntegrationFacts
<1>2. ~call[c].body /\ Beyond(c)
  BY <1>1, RoutingBefore DEF CallOk, Beyond, RoutingStage
<1>3. Loop(c, Providers, "integration", "ruleNumber") /\ db'.leads = db.leads
      /\ db'.deliveries = db.deliveries /\ db'.api_keys = db.api_keys
  BY <1>1, <1>2, SeederSucceeds, IntegrationFacts
<1>4. Alone(c) /\ ~call'[c].body /\ pc'[c] \in {"integration", "ruleNumber"}
  BY <1>2, <1>3, Looped, Sizes
<1>5. Beyond(c)' /\ Counted(c)'
  BY <1>4 DEF Beyond, Counted, RoutingStage, LeadStage
<1>6. QED
  BY <1>1, <1>3, <1>4, <1>5, CountQuiet

\* A number is drawn.
LEMMA CountDraw ==
  ASSUME TypeInv, RoutingInv, NoReset, CountInv, NEW c \in Calls,
         \/ pc[c] = "ruleNumber" /\ NextPublic(c, "rule", "rule")
         \/ pc[c] = "leadNumber" /\ NextPublic(c, "lead", "lead")
         \/ pc[c] = "deliveryNumber" /\ NextPublic(c, "delivery", "delivery")
  PROVE  CountInv'
<1>1. /\ Alone(c) /\ (call'[c].body <=> call[c].body) /\ call'[c].k = call[c].k /\ faults' = faults
      /\ db'.api_keys = db.api_keys /\ db'.leads = db.leads /\ db'.deliveries = db.deliveries
  BY DrawFacts
<1>2. /\ \/ pc[c] = "ruleNumber" /\ pc'[c] = "rule"
         \/ pc[c] = "leadNumber" /\ pc'[c] = "lead"
         \/ pc[c] = "deliveryNumber" /\ pc'[c] = "delivery"
  BY DrawFacts
<1>3. (Beyond(c) => Beyond(c)') /\ (Beyond(c)' => Beyond(c))
  BY <1>1, <1>2 DEF Beyond, RoutingStage, LeadStage
<1>4. ASSUME Beyond(c)' PROVE Counted(c)'
  <2>1. Counted(c)
    BY <1>3, <1>4 DEF CountInv
  <2>2. QED
    BY <1>1, <1>2, <2>1 DEF Counted, LeadStage
<1>5. QED
  BY <1>1, <1>3, <1>4, CountQuiet

\* A rule is inserted: after the last one nothing is counted yet.
LEMMA CountRule ==
  ASSUME TypeInv, RoutingInv, NoReset, NumberInv, CountInv, NEW c \in Calls, InsertRule(c)
  PROVE  CountInv'
<1>1. pc[c] = "rule" /\ faults' = faults /\ CallOk(c)
  BY RuleFacts, RoutingBefore
<1>2. CASE call[c].body
  <2>1. ~Beyond(c) /\ ~Seeding(c)
    BY <1>2, RoutingBefore
  <2>2. CASE Stepped(c) /\ pc'[c] = "failed" /\ db' = db
    BY <1>1, <2>1, <2>2, CountFailed
  <2>3. CASE Return(c) /\ db'.leads = db.leads /\ db'.deliveries = db.deliveries
             /\ db'.api_keys = db.api_keys
    <3>1. Stepped(c)
      BY <1>2, <2>3, ReturnFacts
    <3>2. Alone(c) /\ ~Beyond(c)'
      BY <1>2, <3>1 DEF Stepped, Beyond
    <3>3. QED
      BY <1>1, <2>1, <2>3, <3>2, CountQuiet
  <2>4. QED
    BY <2>1, <2>2, <2>3, RuleFacts
<1>3. CASE ~call[c].body
  <2>1. Beyond(c) /\ Seeding(c) /\ Inserted(c)
    BY <1>1, <1>3, RoutingBefore DEF RoutingStage
  <2>2. Loop(c, Providers, "ruleNumber", "leadNumber") /\ db'.leads = db.leads
        /\ db'.deliveries = db.deliveries /\ db'.api_keys = db.api_keys
    BY <1>1, <2>1, SeederSucceeds, RuleFacts
  <2>3. /\ Alone(c) /\ ~call'[c].body
        /\ pc'[c] = "ruleNumber" \/ (pc'[c] = "leadNumber" /\ call'[c].k = 1)
    BY <1>3, <2>2, Looped, Sizes
  <2>4. Beyond(c)'
    BY <2>3 DEF Beyond, RoutingStage, LeadStage
  <2>5. Seeds(db'.leads) = {} /\ Seeds(db'.deliveries) = {}
    BY <1>1, <2>1, <2>2 DEF Inserted, Seeds
  <2>6. Cardinality(Seeds(db'.leads)) = 0 /\ Cardinality(Seeds(db'.deliveries)) = 0
    BY <2>5, FS_EmptySet
  <2>7. Counted(c)'
    BY <2>3, <2>6 DEF Counted, LeadStage
  <2>8. QED
    BY <1>1, <2>2, <2>3, <2>4, <2>7, CountQuiet
<1>4. QED
  BY <1>2, <1>3

\* The call that seeds has inserted a lead or a delivery: it goes on, or has
\* made the whole seed.
LEMMA CountSeeder ==
  ASSUME TypeInv, RoutingInv, NEW c \in Calls, Beyond(c), Alone(c),
         IsFiniteSet(Seeds(db'.leads)), IsFiniteSet(Seeds(db'.deliveries)),
         (Beyond(c)' /\ Counted(c)') \/ (~Beyond(c)' /\ Full')
  PROVE  CountInv'
<1>1. ASSUME NEW d \in Calls, d # c PROVE ~Beyond(d)'
  <2>1. ~Beyond(d)
    BY <1>1 DEF RoutingInv
  <2>2. pc'[d] = pc[d] /\ call'[d] = call[d]
    BY <1>1 DEF Alone
  <2>3. QED
    BY <2>1, <2>2 DEF Beyond
<1>2. \A d \in Calls : Beyond(d)' => Counted(d)'
  BY <1>1
<1>3. Full' \/ \E d \in Calls : Beyond(d)'
  OBVIOUS
<1>4. QED
  BY <1>2, <1>3 DEF CountInv

\* A lead is inserted.
LEMMA CountLead ==
  ASSUME TypeInv, RoutingInv, NoReset, NumberInv, CountInv, NEW c \in Calls, InsertLead(c)
  PROVE  CountInv'
<1>1. pc[c] = "lead" /\ faults' = faults /\ Stepped(c) /\ Alone(c) /\ call'[c] = call[c] /\ CallOk(c)
  BY LeadFacts, RoutingBefore DEF Stepped
<1>2. IsFiniteSet(Seeds(db.leads)) /\ IsFiniteSet(Seeds(db.deliveries))
  BY DEF CountInv
<1>3. PICK row : row = [number |-> call[c].number, seeded |-> Seeding(c)]
  OBVIOUS
<1>4. row.number = call[c].number /\ (row.seeded <=> Seeding(c))
  BY <1>3
<1>5. CASE call[c].body
  <2>1. ~Beyond(c) /\ ~row.seeded
    BY <1>4, <1>5, RoutingBefore
  <2>2. CASE pc'[c] = "failed" /\ db' = db
    BY <1>1, <2>1, <2>2, CountFailed
  <2>3. CASE /\ free(db.leads, call[c].number)
             /\ db'.leads = db.leads \cup {[number |-> call[c].number, seeded |-> Seeding(c)]}
             /\ db'.deliveries = db.deliveries /\ db'.api_keys = db.api_keys
    <3>1. row \notin db.leads /\ db'.leads = db.leads \cup {row}
      BY <1>3, <1>4, <2>3 DEF free
    <3>2. Seeds(db'.leads) = Seeds(db.leads)
      BY <1>2, <2>1, <3>1, SeedsAdded
    <3>3. ~Beyond(c)'
      BY <1>1, <1>5 DEF Beyond
    <3>4. QED
      BY <1>1, <2>1, <2>3, <3>2, <3>3, CountStep
  <2>4. QED
    BY <2>2, <2>3, LeadFacts
<1>6. CASE ~call[c].body
  <2>1. Beyond(c) /\ row.seeded /\ call[c].k \in 1..SeedLeads
    BY <1>1, <1>4, <1>6, RoutingBefore DEF LeadStage, CallOk
  <2>2. /\ free(db.leads, call[c].number) /\ pc'[c] = "deliveryNumber"
        /\ db'.leads = db.leads \cup {[number |-> call[c].number, seeded |-> Seeding(c)]}
        /\ db'.deliveries = db.deliveries
    BY <1>1, <2>1, SeederSucceeds, LeadFacts
  <2>3. row \notin db.leads /\ db'.leads = db.leads \cup {row}
    BY <1>3, <1>4, <2>2 DEF free
  <2>4. IsFiniteSet(Seeds(db'.leads))
        /\ Cardinality(Seeds(db'.leads)) = Cardinality(Seeds(db.leads)) + 1
    BY <1>2, <2>1, <2>3, SeedsAdded
  <2>5. /\ Cardinality(Seeds(db.leads)) = call[c].k - 1
        /\ Cardinality(Seeds(db.deliveries)) = call[c].k - 1
    BY <1>1, <2>1 DEF CountInv, Counted, LeadStage
  <2>6. Cardinality(Seeds(db'.leads)) = call'[c].k /\ Cardinality(Seeds(db'.deliveries)) = call'[c].k - 1
    BY <1>1, <2>1, <2>2, <2>4, <2>5, Sizes
  <2>7. Beyond(c)' /\ Counted(c)'
    BY <1>1, <1>6, <2>2, <2>6 DEF Beyond, Counted, LeadStage
  <2>8. QED
    BY <1>1, <1>2, <2>1, <2>2, <2>4, <2>7, CountSeeder
<1>7. QED
  BY <1>5, <1>6

\* A delivery is inserted; with the last one the seed is complete.
LEMMA CountDelivery ==
  ASSUME TypeInv, RoutingInv, NoReset, NumberInv, CountInv, NEW c \in Calls, InsertDelivery(c)
  PROVE  CountInv'
<1>1. pc[c] = "delivery" /\ faults' = faults /\ CallOk(c)
  BY DeliveryFacts, RoutingBefore
<1>2. IsFiniteSet(Seeds(db.leads)) /\ IsFiniteSet(Seeds(db.deliveries))
  BY DEF CountInv
<1>3. PICK row : row = [number |-> call[c].number, seeded |-> Seeding(c)]
  OBVIOUS
<1>4. row.number = call[c].number /\ (row.seeded <=> Seeding(c))
  BY <1>3
<1>5. CASE call[c].body
  <2>1. ~Beyond(c) /\ ~row.seeded /\ ~Seeding(c)
    BY <1>4, <1>5, RoutingBefore
  <2>2. CASE Stepped(c) /\ pc'[c] = "failed" /\ db' = db
    BY <1>1, <2>1, <2>2, CountFailed
  <2>3. CASE /\ free(db.deliveries, call[c].number) /\ Return(c)
             /\ db'.deliveries = db.deliveries
                  \cup {[number |-> call[c].number, seeded |-> Seeding(c)]}
             /\ db'.leads = db.leads /\ db'.api_keys = db.api_keys
    <3>1. row \notin db.deliveries /\ db'.deliveries = db.deliveries \cup {row}
      BY <1>3, <1>4, <2>3 DEF free
    <3>2. Seeds(db'.deliveries) = Seeds(db.deliveries)
      BY <1>2, <2>1, <3>1, SeedsAdded
    <3>3. Stepped(c)
      BY <1>5, <2>3, ReturnFacts
    <3>4. Alone(c) /\ ~Beyond(c)'
      BY <1>5, <3>3 DEF Stepped, Beyond
    <3>5. QED
      BY <1>1, <2>1, <2>3, <3>2, <3>4, CountStep
  <2>4. QED
    BY <2>1, <2>2, <2>3, DeliveryFacts
<1>6. CASE ~call[c].body
  <2>1. Beyond(c) /\ row.seeded /\ Seeding(c) /\ call[c].k \in 1..SeedLeads
    BY <1>1, <1>4, <1>6, RoutingBefore DEF LeadStage, CallOk
  <2>2. /\ free(db.deliveries, call[c].number)
        /\ \/ call[c].k < SeedLeads /\ Loop(c, SeedLeads, "leadNumber", "done")
           \/ ~(call[c].k < SeedLeads) /\ Return(c)
        /\ db'.deliveries = db.deliveries
             \cup {[number |-> call[c].number, seeded |-> Seeding(c)]}
        /\ db'.leads = db.leads
    BY <1>1, <2>1, SeederSucceeds, DeliveryFacts
  <2>3. row \notin db.deliveries /\ db'.deliveries = db.deliveries \cup {row}
    BY <1>3, <1>4, <2>2 DEF free
  <2>4. IsFiniteSet(Seeds(db'.deliveries))
        /\ Cardinality(Seeds(db'.deliveries)) = Cardinality(Seeds(db.deliveries)) + 1
    BY <1>2, <2>1, <2>3, SeedsAdded
  <2>5. /\ Cardinality(Seeds(db.leads)) = call[c].k
        /\ Cardinality(Seeds(db.deliveries)) = call[c].k - 1
    BY <1>1, <2>1 DEF CountInv, Counted, LeadStage
  <2>6. Cardinality(Seeds(db'.leads)) = call[c].k /\ Cardinality(Seeds(db'.deliveries)) = call[c].k
    BY <2>1, <2>2, <2>4, <2>5, Sizes
  <2>7. CASE call[c].k < SeedLeads /\ Loop(c, SeedLeads, "leadNumber", "done")
    <3>1. Alone(c) /\ ~call'[c].body /\ pc'[c] = "leadNumber" /\ call'[c].k = call[c].k + 1
      BY <1>6, <2>7, Looped, Sizes
    <3>2. /\ Cardinality(Seeds(db'.leads)) = call'[c].k - 1
          /\ Cardinality(Seeds(db'.deliveries)) = call'[c].k - 1
      BY <2>1, <2>6, <3>1, Sizes
    <3>3. Beyond(c)' /\ Counted(c)'
      BY <3>1, <3>2 DEF Beyond, Counted, LeadStage
    <3>4. QED
      BY <1>2, <2>1, <2>2, <2>4, <3>1, <3>3, CountSeeder
  <2>8. CASE ~(call[c].k < SeedLeads) /\ Return(c)
    <3>1. EnterBody(c)
      BY <1>6, <2>8, ReturnFacts
    <3>2. Alone(c) /\ ~Beyond(c)'
      BY <3>1, Entered DEF Beyond
    <3>3. call[c].k = SeedLeads
      BY <2>1, <2>8, Sizes
    <3>4. Full'
      BY <2>6, <3>3 DEF Full
    <3>5. QED
      BY <1>2, <2>1, <2>2, <2>4, <3>2, <3>4, CountSeeder
  <2>9. QED
    BY <2>2, <2>7, <2>8
<1>7. QED
  BY <1>5, <1>6

\* The counts are kept by every step.
LEMMA CountKept ==
  ASSUME TypeInv, RoutingInv, NoReset, NumberInv, CountInv, [Next]_vars
  PROVE  CountInv'
<1>1. CASE UNCHANGED vars
  BY <1>1 DEF vars, CountInv, Full, Counted, Beyond
<1>2. ASSUME NEW c \in Calls, Alone(c), faults' = faults, db'.leads = db.leads,
             db'.deliveries = db.deliveries, db'.api_keys = db.api_keys,
             pc[c] \notin RoutingStage \cup LeadStage \/ call[c].body,
             pc'[c] \notin RoutingStage \cup LeadStage \/ call'[c].body
      PROVE  CountInv'
  BY <1>2, CountQuiet DEF Beyond
<1>3. ASSUME NEW c \in Calls, Start(c) PROVE CountInv'
  BY <1>2, <1>3, StartFacts DEF RoutingStage, LeadStage
<1>4. ASSUME NEW c \in Calls, Dies(c) PROVE CountInv'
  <2>1. /\ Alone(c) /\ pc'[c] = "dead" /\ db' = db /\ faults' # 0 /\ faults \in Nat
    BY <1>4, DiesFacts DEF Stepped, TypeInv
  <2>2. ~Beyond(c)'
    BY <2>1 DEF Beyond, RoutingStage, LeadStage
  <2>3. (Beyond(c)' => Counted(c)') /\ (faults' = 0 => faults = 0)
        /\ (db'.api_keys => Beyond(c)' \/ (db.api_keys /\ (faults' = 0 => ~Beyond(c))))
    BY <2>1, <2>2
  <2>4. QED
    BY <2>1, <2>3, CountStep
<1>5. ASSUME NEW c \in Calls, LookUpWorkspace(c) PROVE CountInv'
  BY <1>2, <1>5, LookUpFacts DEF Stepped, RoutingStage, LeadStage
<1>6. ASSUME NEW c \in Calls, CountLeads(c) PROVE CountInv'
  <2>1. CASE EnterBody(c)
    BY <1>2, <1>6, <2>1, CountFacts, Entered DEF RoutingStage, LeadStage
  <2>2. CASE Stepped(c) /\ pc'[c] = "workspace"
    BY <1>2, <1>6, <2>2, CountFacts DEF Stepped, RoutingStage, LeadStage
  <2>3. QED
    BY <1>6, <2>1, <2>2, CountFacts
<1>7. ASSUME NEW c \in Calls, InsertWorkspace(c) PROVE CountInv'
  BY <1>2, <1>7, WorkspaceFacts DEF Stepped, RoutingStage, LeadStage
<1>8. ASSUME NEW c \in Calls, ReadRuleCount(c) PROVE CountInv'
  BY <1>2, <1>8, ReadFacts DEF RoutingStage, LeadStage
<1>9. ASSUME NEW c \in Calls, BumpRuleCount(c) PROVE CountInv'
  <2>1. call[c].body
    BY <1>9, BumpFacts, RoutingBefore DEF CallOk
  <2>2. QED
    BY <1>2, <1>9, <2>1, BumpFacts
<1>10. ASSUME NEW c \in Calls PROVE ~Delete(c)
  BY RoutingBefore DEF Delete
<1>11. ASSUME NEW c \in Calls, Step(c) PROVE CountInv'
  BY <1>5, <1>6, <1>7, <1>8, <1>9, <1>10, <1>11, CountKey, CountIntegration, CountDraw, CountRule,
     CountLead, CountDelivery DEF Step
<1>12. QED
  BY <1>1, <1>3, <1>4, <1>11 DEF Next, Terminating

\* A workspace that was seeded before is numbered and counted.
LEMMA SeededBefore ==
  ASSUME db = SeededBy(Before)
  PROVE  /\ \A r \in db.leads \cup db.deliveries : r.number \in Nat /\ r.number <= SeedLeads
         /\ db.id_counters.lead = SeedLeads /\ db.id_counters.delivery = SeedLeads
         /\ db.leads # {}
         /\ IsFiniteSet(Seeds(db.leads)) /\ IsFiniteSet(Seeds(db.deliveries)) /\ Full
<1> DEFINE S(n) == [number |-> n, seeded |-> TRUE]
           rows == {S(n) : n \in 1..SeedLeads}
           f == [n \in 1..SeedLeads |-> S(n)]
<1>1. db.leads = rows /\ db.deliveries = rows
      /\ db.id_counters.lead = SeedLeads /\ db.id_counters.delivery = SeedLeads
  BY DEF SeededBy
<1>2. Seeds(rows) = rows
  BY DEF Seeds
<1>3. f \in Bijection(1..SeedLeads, rows)
  <2>1. f \in [1..SeedLeads -> rows]
    OBVIOUS
  <2>2. \A a, b \in DOMAIN f : f[a] = f[b] => a = b
    OBVIOUS
  <2>3. \A t \in rows : \E n \in 1..SeedLeads : f[n] = t
    OBVIOUS
  <2>4. QED
    BY <2>1, <2>2, <2>3 DEF Bijection, Injection, Surjection, IsInjective
<1>4. IsFiniteSet(1..SeedLeads) /\ Cardinality(1..SeedLeads) = SeedLeads
  BY Sizes, FS_Interval
<1>5. ExistsBijection(1..SeedLeads, rows)
  BY <1>3 DEF ExistsBijection
<1>6. IsFiniteSet(rows) /\ Cardinality(rows) = SeedLeads
  BY <1>4, <1>5, FS_Bijection
<1>7. \A r \in rows : r.number \in Nat /\ r.number <= SeedLeads
  BY Sizes
<1>8. rows # {}
  <2>1. 1 \in 1..SeedLeads
    BY Sizes
  <2>2. S(1) \in rows
    BY <2>1
  <2>3. QED
    BY <2>2
<1> HIDE DEF rows
<1>9. QED
  BY <1>1, <1>2, <1>6, <1>7, <1>8 DEF Full

\* At the start nothing is drawn.
LEMMA NumberStart ==
  ASSUME Init
  PROVE  NumberInv /\ CountInv
<1>1. \A c \in Calls : pc[c] = "idle" /\ ~Beyond(c)
  BY DEF Init, Beyond, RoutingStage, LeadStage
<1>2. CASE db = Empty
  <2>1. /\ db.leads = {} /\ db.deliveries = {} /\ db.routing_rules = {} /\ ~db.api_keys
    BY <1>2, EmptyDb
  <2>2. IsFiniteSet(Seeds(db.leads)) /\ IsFiniteSet(Seeds(db.deliveries))
    BY <2>1, FS_EmptySet DEF Seeds
  <2>3. QED
    BY <1>1, <2>1, <2>2 DEF NumberInv, Numbered, CountInv
<1>3. CASE db = SeededBy(Before)
  BY <1>1, <1>3, SeededBefore DEF NumberInv, Numbered, CountInv
<1>4. QED
  BY <1>2, <1>3 DEF Init

\* Without resets the insertion of the api key elects the one call that seeds,
\* and when nobody dies the seed is complete once all calls have returned.
THEOREM SeedsComplete == Spec => []SeedComplete
<1>1. Init => (NoReset => NumberInv /\ CountInv)
  BY NumberStart
<1>2. ASSUME TypeInv, NoReset => RoutingInv, NoReset => NumberInv /\ CountInv, [Next]_vars
      PROVE  (NoReset => NumberInv /\ CountInv)'
  BY <1>2, NeverReset, NumberKept, CountKept
<1>3. ASSUME TypeInv, NoReset => RoutingInv, NoReset => NumberInv /\ CountInv
      PROVE  SeedComplete
  <2> DEFINE beyond == {c \in Calls : ~call[c].body /\ pc[c] \in
                  {"integration", "ruleNumber", "rule", "leadNumber", "lead",
                   "deliveryNumber", "delivery"}}
  <2>1. beyond = {c \in Calls : Beyond(c)}
    BY DEF Beyond, RoutingStage, LeadStage
  <2> HIDE DEF beyond
  <2>2. ASSUME NoReset PROVE Cardinality(beyond) <= 1
    <3>1. \A c, d \in Calls : Beyond(c) /\ Beyond(d) => c = d
      BY <1>3, <2>2 DEF RoutingInv
    <3>2. CASE beyond = {}
      BY <3>2, FS_EmptySet
    <3>3. CASE beyond # {}
      <4>1. PICK c \in Calls : Beyond(c)
        BY <2>1, <3>3
      <4>2. beyond = {c}
        BY <2>1, <3>1, <4>1
      <4>3. QED
        BY <4>2, FS_Singleton
    <3>4. QED
      BY <3>2, <3>3
  <2>3. ASSUME NoReset, beyond # {} PROVE db.api_keys
    BY <1>3, <2>1, <2>3 DEF RoutingInv
  <2>4. ASSUME NoReset, faults = 0, \A c \in Calls : pc[c] \in {"done", "failed"}
        PROVE  /\ Cardinality({l \in db.leads : l.seeded}) = SeedLeads
               /\ Cardinality({d \in db.deliveries : d.seeded}) = SeedLeads
    <3>1. db.api_keys
      BY <1>3, <2>4, CallAssumption DEF RoutingInv
    <3>2. \A c \in Calls : ~Beyond(c)
      BY <2>4 DEF Beyond, RoutingStage, LeadStage
    <3>3. Full
      BY <1>3, <2>4, <3>1, <3>2 DEF CountInv
    <3>4. QED
      BY <3>3 DEF Full, Seeds
  <2>5. QED
    BY <2>2, <2>3, <2>4 DEF SeedComplete, beyond
<1>4. Spec => [](NoReset => RoutingInv)
  <2>1. Init => (NoReset => RoutingInv)
    BY RoutingStart
  <2>2. TypeInv /\ (NoReset => RoutingInv) /\ [Next]_vars => (NoReset => RoutingInv)'
    BY RoutingKept
  <2>3. QED
    BY <2>1, <2>2, TypeCorrect, PTL DEF Spec
<1>5. QED
  BY <1>1, <1>2, <1>3, <1>4, TypeCorrect, PTL DEF Spec
-----------------------------------------------------------------------------
(***************************************************************************)
(* A reset that nobody overlaps finds, at every statement, exactly what it *)
(* has left and made itself.                                               *)
(***************************************************************************)
IntegrationsTo(c, n) == {Of(p, c) : p \in 1..n}
RulesTo(c, n) == {[number |-> p, integration |-> Of(p, c)] : p \in 1..n}
RowsTo(n) == {[number |-> p, seeded |-> TRUE] : p \in 1..n}

Made(c, i, r, l, d) ==
  /\ db.integrations = IntegrationsTo(c, i) /\ db.routing_rules = RulesTo(c, r)
  /\ db.leads = RowsTo(l) /\ db.deliveries = RowsTo(d)

Counts(r, l, d) ==
  db.id_counters.rule = r /\ db.id_counters.lead = l /\ db.id_counters.delivery = d

Deleted(k) ==
  /\ k > 1 => db.deliveries = {}
  /\ k > 2 => db.leads = {}
  /\ k > 3 => db.routing_rules = {}
  /\ k > 4 => db.integrations = {}
  /\ k > 5 => ~db.api_keys
  /\ k > 6 => Counts(0, 0, 0)

ResetStage(c) ==
  LET k == call[c].k
  IN  /\ pc[c] = "delete" => Deleted(k)
      /\ pc[c] = "workspace" => Deleted(7)
      /\ pc[c] = "key" => Deleted(7) /\ db.workspaces
      /\ pc[c] \in RoutingStage \cup LeadStage => db.workspaces /\ db.api_keys
      /\ pc[c] = "integration" => Made(c, k - 1, 0, 0, 0) /\ Counts(0, 0, 0)
      /\ pc[c] = "ruleNumber" => Made(c, Providers, k - 1, 0, 0) /\ Counts(k - 1, 0, 0)
      /\ pc[c] = "rule" => /\ Made(c, Providers, k - 1, 0, 0) /\ Counts(k, 0, 0)
                           /\ call[c].number = k
      /\ pc[c] = "leadNumber" => /\ Made(c, Providers, Providers, k - 1, k - 1)
                                 /\ Counts(Providers, k - 1, k - 1)
      /\ pc[c] = "lead" => /\ Made(c, Providers, Providers, k - 1, k - 1)
                           /\ Counts(Providers, k, k - 1) /\ call[c].number = k
      /\ pc[c] = "deliveryNumber" => /\ Made(c, Providers, Providers, k, k - 1)
                                     /\ Counts(Providers, k, k - 1)
      /\ pc[c] = "delivery" => /\ Made(c, Providers, Providers, k, k - 1)
                               /\ Counts(Providers, k, k) /\ call[c].number = k

Resets(c) == call[c].body /\ call[c].op = "resetDemo"

ResetInv ==
  \A c \in Calls : Running(c) /\ ~overlap[c] =>
    /\ \A d \in Calls : d # c => ~Running(d)
    /\ Resets(c) => ResetStage(c)

\* One row more.
LEMMA OneMore ==
  ASSUME NEW c, NEW k \in Nat, k >= 1
  PROVE  /\ IntegrationsTo(c, k) = IntegrationsTo(c, k - 1) \cup {Of(k, c)}
         /\ RulesTo(c, k) = RulesTo(c, k - 1) \cup {[number |-> k, integration |-> Of(k, c)]}
         /\ RowsTo(k) = RowsTo(k - 1) \cup {[number |-> k, seeded |-> TRUE]}
<1>1. \A p : p \in 1..k <=> p \in 1..(k-1) \/ p = k
  OBVIOUS
<1>2. IntegrationsTo(c, k) = IntegrationsTo(c, k - 1) \cup {Of(k, c)}
  BY <1>1 DEF IntegrationsTo
<1>3. RulesTo(c, k) = RulesTo(c, k - 1) \cup {[number |-> k, integration |-> Of(k, c)]}
  BY <1>1 DEF RulesTo
<1>4. RowsTo(k) = RowsTo(k - 1) \cup {[number |-> k, seeded |-> TRUE]}
  BY <1>1 DEF RowsTo
<1>5. QED
  BY <1>2, <1>3, <1>4

\* No rows yet.
LEMMA NoneYet ==
  ASSUME NEW c
  PROVE  IntegrationsTo(c, 0) = {} /\ RulesTo(c, 0) = {} /\ RowsTo(0) = {}
BY DEF IntegrationsTo, RulesTo, RowsTo

\* A step is a step of a running call, and overlaps are recorded at starts.
LEMMA Stepping ==
  ASSUME TypeInv, NEW c \in Calls, Step(c)
  PROVE  Running(c) /\ overlap' = overlap /\ faults' = faults
<1>1. overlap' = overlap /\ faults' = faults
  BY DEF Step, LookUpWorkspace, CountLeads, InsertWorkspace, InsertKey, InsertIntegration,
     NextPublic, InsertRule, InsertLead, InsertDelivery, ReadRuleCount, BumpRuleCount, Delete
<1>2. Running(c)
  BY DEF Running, Step, LookUpWorkspace, CountLeads, InsertWorkspace, InsertKey, InsertIntegration,
     NextPublic, InsertRule, InsertLead, InsertDelivery, ReadRuleCount, BumpRuleCount, Delete
<1>3. QED
  BY <1>1, <1>2

\* Rows of a table are deleted.
LEMMA ResetDelete ==
  ASSUME TypeInv, NEW c \in Calls, Delete(c), ResetStage(c)
  PROVE  ResetStage(c)'
<1>1. /\ pc[c] = "delete" /\ Loop(c, 7, "delete", "workspace") /\ Emptied(call[c].k)
      /\ call[c].k \in 1..7
  BY DeleteFacts DEF TypeInv, CallOk
<1>2. PICK k \in 1..7 : k = call[c].k
  BY <1>1
<1>3. /\ k < 7 => pc'[c] = "delete" /\ call'[c].k = k + 1
      /\ ~(k < 7) => pc'[c] = "workspace"
  BY <1>1, <1>2, Looped
<1>4. Deleted(k) /\ Emptied(k)
  BY <1>1, <1>2 DEF ResetStage
<1>5. /\ k + 1 > 1 => db'.deliveries = {}
      /\ k + 1 > 2 => db'.leads = {}
      /\ k + 1 > 3 => db'.routing_rules = {}
      /\ k + 1 > 4 => db'.integrations = {}
  BY <1>4 DEF Deleted, Emptied
<1>6. k + 1 > 5 => ~db'.api_keys
  <2>1. k + 1 > 5 => k > 5 \/ k = 5
    OBVIOUS
  <2>2. (k > 5 => ~db.api_keys) /\ (db'.api_keys <=> db.api_keys /\ k # 5)
    BY <1>4 DEF Deleted, Emptied
  <2>3. QED
    BY <2>1, <2>2
<1>7. k + 1 > 6 => Counts(0, 0, 0)'
  <2>1. CASE k = 6
    BY <1>4, <2>1, EmptyDb DEF Emptied, Counts
  <2>2. CASE k > 6
    <3>1. Counts(0, 0, 0) /\ db'.id_counters = db.id_counters
      BY <1>4, <2>2 DEF Deleted, Emptied
    <3>2. QED
      BY <3>1 DEF Counts
  <2>3. QED
    BY <2>1, <2>2
<1>8. Deleted(k + 1)'
  BY <1>5, <1>6, <1>7 DEF Deleted
<1>9. CASE k < 7
  <2>1. pc'[c] = "delete" /\ call'[c].k = k + 1
    BY <1>3, <1>9
  <2>2. Deleted(call[c].k)'
    BY <1>5, <1>6, <1>7, <2>1 DEF Deleted
  <2>3. QED
    BY <2>1, <2>2 DEF ResetStage, RoutingStage, LeadStage
<1>10. CASE k = 7
  <2>1. pc'[c] = "workspace" /\ Deleted(8)'
    BY <1>3, <1>8, <1>10
  <2>2. Deleted(7)'
    BY <2>1 DEF Deleted
  <2>3. QED
    BY <2>1, <2>2 DEF ResetStage, RoutingStage, LeadStage
<1>11. QED
  BY <1>9, <1>10

\* The workspace, the key and the integrations are made.
LEMMA ResetFirst ==
  ASSUME TypeInv, NEW c \in Calls, Resets(c), ResetStage(c),
         InsertWorkspace(c) \/ InsertKey(c) \/ InsertIntegration(c), pc'[c] # "failed"
  PROVE  ResetStage(c)'
<1>1. CASE InsertWorkspace(c)
  <2>1. /\ pc[c] = "workspace" /\ pc'[c] = "key" /\ db'.workspaces /\ Deleted(7)
        /\ db'.api_keys = db.api_keys /\ db'.id_counters = db.id_counters /\ UNCHANGED Tables
    BY <1>1, WorkspaceFacts DEF ResetStage, Tables
  <2>2. Deleted(7)'
    BY <2>1 DEF Deleted, Tables, Counts
  <2>3. QED
    BY <2>1, <2>2 DEF ResetStage, RoutingStage, LeadStage
<1>2. CASE InsertKey(c)
  <2>1. /\ pc[c] = "key" /\ pc'[c] = "integration" /\ Stepped(c)
        /\ db'.id_counters = db.id_counters /\ UNCHANGED Tables
    BY <1>2, KeyFacts DEF Tables
  <2>2. db'.api_keys /\ db'.workspaces
    BY <1>2, <2>1, KeyFacts DEF ResetStage
  <2>3. call'[c].k = 1 /\ Deleted(7)
    BY <2>1 DEF TypeInv, CallOk, Stepped, ResetStage
  <2>4. Counts(0, 0, 0)'
    BY <2>1, <2>3 DEF Deleted, Counts
  <2>5. Made(c, 0, 0, 0, 0)'
    <3>1. /\ db.deliveries = {} /\ db.leads = {} /\ db.routing_rules = {} /\ db.integrations = {}
      BY <2>3 DEF Deleted
    <3>2. QED
      BY <2>1, <3>1, NoneYet DEF Tables, Made
  <2>6. call'[c].k - 1 = 0
    BY <2>3
  <2>7. QED
    BY <2>1, <2>2, <2>4, <2>5, <2>6 DEF ResetStage, RoutingStage, LeadStage
<1>3. CASE InsertIntegration(c)
  <2>1. /\ pc[c] = "integration" /\ Loop(c, Providers, "integration", "ruleNumber")
        /\ db'.integrations = db.integrations \cup {[provider |-> call[c].k, by |-> c]}
        /\ db'.routing_rules = db.routing_rules /\ db'.leads = db.leads
        /\ db'.deliveries = db.deliveries /\ db'.id_counters = db.id_counters
    BY <1>3, IntegrationFacts
  <2>2. db'.workspaces /\ db'.api_keys
    BY <1>3, <2>1, IntegrationFacts DEF ResetStage, RoutingStage
  <2>3. PICK k \in 1..Providers : k = call[c].k
    BY <2>1 DEF TypeInv, CallOk, RoutingStage, Seeding, Resets
  <2>4. /\ k < Providers => pc'[c] = "integration" /\ call'[c].k = k + 1
        /\ ~(k < Providers) => pc'[c] = "ruleNumber" /\ call'[c].k = 1
    BY <2>1, <2>3, Looped, Sizes
  <2>5. Made(c, k - 1, 0, 0, 0) /\ Counts(0, 0, 0)
    BY <2>1, <2>3 DEF ResetStage
  <2>6. db'.integrations = IntegrationsTo(c, k)
    BY <2>1, <2>3, <2>5, OneMore, Sizes DEF Made, Of
  <2>7. Made(c, k, 0, 0, 0)' /\ Counts(0, 0, 0)'
    BY <2>1, <2>5, <2>6 DEF Made, Counts
  <2>8. CASE k < Providers
    <3>1. pc'[c] = "integration" /\ call'[c].k - 1 = k
      BY <2>3, <2>4, <2>8, Sizes
    <3>2. QED
      BY <2>2, <2>7, <3>1 DEF ResetStage, RoutingStage, LeadStage
  <2>9. CASE k = Providers
    <3>1. pc'[c] = "ruleNumber" /\ call'[c].k - 1 = 0
      BY <2>3, <2>4, <2>9, Sizes
    <3>2. QED
      BY <2>2, <2>7, <2>9, <3>1 DEF ResetStage, RoutingStage, LeadStage
  <2>10. QED
    BY <2>3, <2>8, <2>9, Sizes
<1>4. QED
  BY <1>1, <1>2, <1>3

\* Numbers are drawn in turn.
LEMMA ResetDraw ==
  ASSUME TypeInv, NEW c \in Calls, Resets(c), ResetStage(c),
         \/ pc[c] = "ruleNumber" /\ NextPublic(c, "rule", "rule")
         \/ pc[c] = "leadNumber" /\ NextPublic(c, "lead", "lead")
         \/ pc[c] = "deliveryNumber" /\ NextPublic(c, "delivery", "delivery")
  PROVE  ResetStage(c)'
<1>1. /\ call'[c].k = call[c].k /\ call[c].k \in Nat /\ UNCHANGED Tables
  BY DrawFacts DEF Tables, TypeInv, CallOk, CallType
<1>2. db.workspaces /\ db.api_keys
  BY DEF ResetStage, RoutingStage, LeadStage
<1>3. db'.workspaces /\ db'.api_keys
  BY <1>2, DrawFacts
<1>4. PICK k \in Nat : k = call[c].k
  BY <1>1
<1>5. CASE pc[c] = "ruleNumber" /\ NextPublic(c, "rule", "rule")
  <2>1. /\ pc'[c] = "rule" /\ call'[c].number = db.id_counters.rule + 1
        /\ db'.id_counters.rule = db.id_counters.rule + 1
        /\ db'.id_counters.lead = db.id_counters.lead
        /\ db'.id_counters.delivery = db.id_counters.delivery
    BY <1>5, DrawFacts
  <2>2. Made(c, Providers, k - 1, 0, 0) /\ Counts(k - 1, 0, 0)
    BY <1>4, <1>5 DEF ResetStage
  <2>3. Made(c, Providers, k - 1, 0, 0)' /\ Counts(k, 0, 0)' /\ call'[c].number = k
    BY <1>1, <2>1, <2>2 DEF Made, Counts, Tables
  <2>4. QED
    BY <1>1, <1>3, <1>4, <2>1, <2>3 DEF ResetStage, RoutingStage, LeadStage
<1>6. CASE pc[c] = "leadNumber" /\ NextPublic(c, "lead", "lead")
  <2>1. /\ pc'[c] = "lead" /\ call'[c].number = db.id_counters.lead + 1
        /\ db'.id_counters.lead = db.id_counters.lead + 1
        /\ db'.id_counters.rule = db.id_counters.rule
        /\ db'.id_counters.delivery = db.id_counters.delivery
    BY <1>6, DrawFacts
  <2>2. Made(c, Providers, Providers, k - 1, k - 1) /\ Counts(Providers, k - 1, k - 1)
    BY <1>4, <1>6 DEF ResetStage
  <2>3. /\ Made(c, Providers, Providers, k - 1, k - 1)' /\ Counts(Providers, k, k - 1)'
        /\ call'[c].number = k
    BY <1>1, <2>1, <2>2 DEF Made, Counts, Tables
  <2>4. QED
    BY <1>1, <1>3, <1>4, <2>1, <2>3 DEF ResetStage, RoutingStage, LeadStage
<1>7. CASE pc[c] = "deliveryNumber" /\ NextPublic(c, "delivery", "delivery")
  <2>1. /\ pc'[c] = "delivery" /\ call'[c].number = db.id_counters.delivery + 1
        /\ db'.id_counters.delivery = db.id_counters.delivery + 1
        /\ db'.id_counters.rule = db.id_counters.rule
        /\ db'.id_counters.lead = db.id_counters.lead
    BY <1>7, DrawFacts
  <2>2. Made(c, Providers, Providers, k, k - 1) /\ Counts(Providers, k, k - 1)
    BY <1>4, <1>7 DEF ResetStage
  <2>3. /\ Made(c, Providers, Providers, k, k - 1)' /\ Counts(Providers, k, k)'
        /\ call'[c].number = k
    BY <1>1, <2>1, <2>2 DEF Made, Counts, Tables
  <2>4. QED
    BY <1>1, <1>3, <1>4, <2>1, <2>3 DEF ResetStage, RoutingStage, LeadStage
<1>8. QED
  BY <1>5, <1>6, <1>7

\* The rules, then the leads and their deliveries are made.
LEMMA ResetRows ==
  ASSUME TypeInv, NEW c \in Calls, Resets(c), ResetStage(c),
         InsertRule(c) \/ InsertLead(c) \/ InsertDelivery(c), pc'[c] \notin {"failed", "done"}
  PROVE  ResetStage(c)'
<1>1. Seeding(c) /\ CallOk(c)
  BY DEF Seeding, Resets, TypeInv
<1>2. CASE InsertRule(c)
  <2>1. /\ pc[c] = "rule" /\ Loop(c, Providers, "ruleNumber", "leadNumber")
        /\ db'.routing_rules = db.routing_rules
             \cup {[number |-> call[c].number, integration |-> Target(c)]}
        /\ db'.integrations = db.integrations /\ db'.leads = db.leads
        /\ db'.deliveries = db.deliveries /\ db'.id_counters = db.id_counters
    BY <1>1, <1>2, RuleFacts
  <2>2. db'.workspaces /\ db'.api_keys
    BY <1>2, <2>1, RuleFacts DEF ResetStage, RoutingStage
  <2>3. PICK k \in 1..Providers : k = call[c].k
    BY <1>1, <2>1 DEF CallOk, RoutingStage
  <2>4. /\ k < Providers => pc'[c] = "ruleNumber" /\ call'[c].k = k + 1
        /\ ~(k < Providers) => pc'[c] = "leadNumber" /\ call'[c].k = 1
    BY <2>1, <2>3, Looped, Sizes
  <2>5. Made(c, Providers, k - 1, 0, 0) /\ Counts(k, 0, 0) /\ call[c].number = k
    BY <2>1, <2>3 DEF ResetStage
  <2>6. Target(c) = Of(k, c)
    BY <1>1, <2>3 DEF Target, Of
  <2>7. db'.routing_rules = RulesTo(c, k)
    BY <2>1, <2>3, <2>5, <2>6, OneMore, Sizes DEF Made
  <2>8. Made(c, Providers, k, 0, 0)' /\ Counts(k, 0, 0)'
    BY <2>1, <2>5, <2>7 DEF Made, Counts
  <2>9. CASE k < Providers
    <3>1. pc'[c] = "ruleNumber" /\ call'[c].k - 1 = k
      BY <2>3, <2>4, <2>9, Sizes
    <3>2. QED
      BY <2>2, <2>8, <3>1 DEF ResetStage, RoutingStage, LeadStage
  <2>10. CASE k = Providers
    <3>1. pc'[c] = "leadNumber" /\ call'[c].k - 1 = 0
      BY <2>3, <2>4, <2>10, Sizes
    <3>2. QED
      BY <2>2, <2>8, <2>10, <3>1 DEF ResetStage, RoutingStage, LeadStage
  <2>11. QED
    BY <2>3, <2>9, <2>10, Sizes
<1>3. CASE InsertLead(c)
  <2>1. /\ pc[c] = "lead" /\ pc'[c] = "deliveryNumber" /\ Stepped(c)
        /\ db'.leads = db.leads \cup {[number |-> call[c].number, seeded |-> Seeding(c)]}
        /\ db'.integrations = db.integrations /\ db'.routing_rules = db.routing_rules
        /\ db'.deliveries = db.deliveries /\ db'.id_counters = db.id_counters
    BY <1>3, LeadFacts
  <2>2. db'.workspaces /\ db'.api_keys
    BY <1>3, <2>1, LeadFacts DEF ResetStage, LeadStage
  <2>3. PICK k \in 1..SeedLeads : k = call[c].k
    BY <1>1, <2>1 DEF CallOk, LeadStage
  <2>4. call'[c].k = k
    BY <2>1, <2>3 DEF Stepped
  <2>5. /\ Made(c, Providers, Providers, k - 1, k - 1) /\ Counts(Providers, k, k - 1)
        /\ call[c].number = k
    BY <2>1, <2>3 DEF ResetStage
  <2>6. [number |-> call[c].number, seeded |-> Seeding(c)] = [number |-> k, seeded |-> TRUE]
    BY <1>1, <2>5
  <2>7. db'.leads = RowsTo(k)
    <3>1. RowsTo(k) = RowsTo(k - 1) \cup {[number |-> k, seeded |-> TRUE]}
      BY <2>3, OneMore, Sizes
    <3>2. db.leads = RowsTo(k - 1)
      BY <2>5 DEF Made
    <3>3. QED
      BY <2>1, <2>6, <3>1, <3>2
  <2>8. Made(c, Providers, Providers, k, k - 1)' /\ Counts(Providers, k, k - 1)'
    BY <2>1, <2>5, <2>7 DEF Made, Counts
  <2>9. QED
    BY <2>1, <2>2, <2>4, <2>8 DEF ResetStage, RoutingStage, LeadStage
<1>4. CASE InsertDelivery(c)
  <2>1. /\ pc[c] = "delivery" /\ call[c].k < SeedLeads /\ Loop(c, SeedLeads, "leadNumber", "done")
        /\ db'.deliveries = db.deliveries
             \cup {[number |-> call[c].number, seeded |-> Seeding(c)]}
        /\ db'.integrations = db.integrations /\ db'.routing_rules = db.routing_rules
        /\ db'.leads = db.leads /\ db'.id_counters = db.id_counters
    BY <1>1, <1>4, DeliveryFacts, ReturnFacts DEF Resets
  <2>2. db'.workspaces /\ db'.api_keys
    BY <1>4, <2>1, DeliveryFacts DEF ResetStage, LeadStage
  <2>3. PICK k \in 1..SeedLeads : k = call[c].k
    BY <1>1, <2>1 DEF CallOk, LeadStage
  <2>4. pc'[c] = "leadNumber" /\ call'[c].k - 1 = k
    BY <2>1, <2>3, Looped, Sizes
  <2>5. /\ Made(c, Providers, Providers, k, k - 1) /\ Counts(Providers, k, k)
        /\ call[c].number = k
    BY <2>1, <2>3 DEF ResetStage
  <2>6. [number |-> call[c].number, seeded |-> Seeding(c)] = [number |-> k, seeded |-> TRUE]
    BY <1>1, <2>5
  <2>7. db'.deliveries = RowsTo(k)
    <3>1. RowsTo(k) = RowsTo(k - 1) \cup {[number |-> k, seeded |-> TRUE]}
      BY <2>3, OneMore, Sizes
    <3>2. db.deliveries = RowsTo(k - 1)
      BY <2>5 DEF Made
    <3>3. QED
      BY <2>1, <2>6, <3>1, <3>2
  <2>8. Made(c, Providers, Providers, k, k)' /\ Counts(Providers, k, k)'
    BY <2>1, <2>5, <2>7 DEF Made, Counts
  <2>9. QED
    BY <2>2, <2>4, <2>8 DEF ResetStage, RoutingStage, LeadStage
<1>5. QED
  BY <1>2, <1>3, <1>4

\* What the last delivery leaves.
LEMMA ResetDone ==
  ASSUME TypeInv, NEW c \in Calls, Resets(c), ResetStage(c), InsertDelivery(c), pc'[c] = "done"
  PROVE  db' = SeededBy(c)
<1>1. Seeding(c) /\ CallOk(c)
  BY DEF Seeding, Resets, TypeInv
<1>2. /\ pc[c] = "delivery"
      /\ db'.deliveries = db.deliveries
           \cup {[number |-> call[c].number, seeded |-> Seeding(c)]}
      /\ db'.integrations = db.integrations /\ db'.routing_rules = db.routing_rules
      /\ db'.leads = db.leads /\ db'.id_counters = db.id_counters /\ db' \in Db
  BY DeliveryFacts DEF TypeInv
<1>3. call[c].k \in 1..SeedLeads
  BY <1>1, <1>2 DEF CallOk, LeadStage
<1>4. call[c].k = SeedLeads
  <2>1. CASE call[c].k < SeedLeads
    <3>1. Loop(c, SeedLeads, "leadNumber", "done")
      BY <1>1, <2>1, DeliveryFacts
    <3>2. QED
      BY <2>1, <3>1, Looped, Sizes
  <2>2. QED
    BY <1>3, <2>1, Sizes
<1>5. db'.workspaces /\ db'.api_keys
  BY <1>2, DeliveryFacts DEF ResetStage, LeadStage
<1>6. /\ Made(c, Providers, Providers, SeedLeads, SeedLeads - 1)
      /\ Counts(Providers, SeedLeads, SeedLeads) /\ call[c].number = SeedLeads
  BY <1>2, <1>4 DEF ResetStage
<1>7. [number |-> call[c].number, seeded |-> Seeding(c)] = [number |-> SeedLeads, seeded |-> TRUE]
  BY <1>1, <1>6
<1>8. db'.deliveries = RowsTo(SeedLeads)
  BY <1>2, <1>6, <1>7, OneMore, Sizes DEF Made
<1>9. PICK is, rs, ls, ids :
        /\ is = IntegrationsTo(c, Providers) /\ rs = RulesTo(c, Providers) /\ ls = RowsTo(SeedLeads)
        /\ ids = [rule |-> Providers, lead |-> SeedLeads, delivery |-> SeedLeads]
  OBVIOUS
<1>10. db'.id_counters = ids
  <2>1. db'.id_counters \in Counters
    BY <1>2 DEF Db
  <2>2. /\ db'.id_counters.rule = Providers /\ db'.id_counters.lead = SeedLeads
        /\ db'.id_counters.delivery = SeedLeads
    BY <1>2, <1>6 DEF Counts
  <2>3. QED
    BY <1>9, <2>1, <2>2 DEF Counters
<1>11. /\ db'.integrations = is /\ db'.routing_rules = rs /\ db'.leads = ls /\ db'.deliveries = ls
  BY <1>2, <1>6, <1>8, <1>9 DEF Made
<1>12. db' = [workspaces |-> TRUE, api_keys |-> TRUE, integrations |-> is, routing_rules |-> rs,
              leads |-> ls, deliveries |-> ls, id_counters |-> ids]
  <2>1. db'.workspaces = TRUE /\ db'.api_keys = TRUE
    BY <1>2, <1>5 DEF Db
  <2>2. db' = [workspaces |-> db'.workspaces, api_keys |-> db'.api_keys,
               integrations |-> db'.integrations, routing_rules |-> db'.routing_rules,
               leads |-> db'.leads, deliveries |-> db'.deliveries, id_counters |-> db'.id_counters]
    BY <1>2 DEF Db
  <2>3. QED
    BY <1>10, <1>11, <2>1, <2>2
<1>13. SeededBy(c) = [workspaces |-> TRUE, api_keys |-> TRUE, integrations |-> is,
                      routing_rules |-> rs, leads |-> ls, deliveries |-> ls, id_counters |-> ids]
  BY <1>9 DEF SeededBy, IntegrationsTo, RulesTo, RowsTo, Of
<1>14. QED
  BY <1>12, <1>13

\* A reset goes on alone, or begins to delete, or is over.
LEMMA ResetStepped ==
  ASSUME TypeInv, NEW c \in Calls, Step(c), Resets(c) => ResetStage(c), Running(c)', Resets(c)'
  PROVE  ResetStage(c)'
<1>1. ~(pc'[c] \in {"done", "failed", "dead"})
  BY DEF Running
<1>2. call[c].op = "resetDemo" /\ CallOk(c)
  BY OperationKept DEF Resets, TypeInv
<1>3. ASSUME EnterBody(c) PROVE ResetStage(c)'
  <2>1. pc'[c] = "delete" /\ call'[c].k = 1
    BY <1>2, <1>3, Entered
  <2>2. Deleted(call[c].k)'
    BY <2>1 DEF Deleted
  <2>3. QED
    BY <2>1, <2>2 DEF ResetStage, RoutingStage, LeadStage
<1>4. CASE ~call[c].body
  <2>1. ASSUME Stepped(c) \/ (call'[c].body <=> call[c].body) PROVE FALSE
    BY <1>4, <2>1 DEF Stepped, Resets
  <2>2. CASE CountLeads(c)
    BY <1>3, <2>1, <2>2, CountFacts
  <2>3. CASE InsertDelivery(c)
    BY <1>3, <1>4, <2>1, <2>3, DeliveryFacts, ReturnFacts, Looped, Sizes
  <2>4. CASE InsertRule(c)
    BY <1>3, <1>4, <2>1, <2>4, RuleFacts, ReturnFacts, Looped, Sizes
  <2>5. CASE \/ pc[c] = "ruleNumber" /\ NextPublic(c, "rule", "rule")
             \/ pc[c] = "leadNumber" /\ NextPublic(c, "lead", "lead")
             \/ pc[c] = "deliveryNumber" /\ NextPublic(c, "delivery", "delivery")
    BY <2>1, <2>5, DrawFacts
  <2>6. CASE InsertIntegration(c)
    BY <2>1, <2>6, IntegrationFacts, Looped, Sizes
  <2>7. CASE LookUpWorkspace(c) \/ InsertWorkspace(c) \/ InsertKey(c) \/ InsertLead(c)
    BY <2>1, <2>7, LookUpFacts, WorkspaceFacts, KeyFacts, LeadFacts
  <2>8. CASE ReadRuleCount(c) \/ BumpRuleCount(c)
    BY <2>1, <2>8, ReadFacts, BumpFacts
  <2>9. CASE Delete(c)
    BY <1>2, <1>4, <2>9 DEF Delete, CallOk
  <2>10. QED
    BY <2>2, <2>3, <2>4, <2>5, <2>6, <2>7, <2>8, <2>9 DEF Step
<1>5. CASE call[c].body
  <2>1. Resets(c) /\ ResetStage(c)
    BY <1>2, <1>5 DEF Resets
  <2>2. pc[c] \notin {"ensure", "leadCount", "ruleCount", "bumpRule"}
    BY <1>2, <1>5 DEF CallOk
  <2>3. ~(LookUpWorkspace(c) \/ CountLeads(c) \/ ReadRuleCount(c) \/ BumpRuleCount(c))
    BY <2>2 DEF LookUpWorkspace, CountLeads, ReadRuleCount, BumpRuleCount
  <2>4. QED
    BY <1>1, <2>1, <2>3, ResetDelete, ResetFirst, ResetDraw, ResetRows DEF Step
<1>6. QED
  BY <1>4, <1>5

\* While a call runs that nobody overlaps, nobody else runs.
LEMMA ResetKept ==
  ASSUME TypeInv, ResetInv, [Next]_vars
  PROVE  ResetInv'
<1>1. CASE UNCHANGED vars
  <2>1. ASSUME NEW c \in Calls PROVE ResetStage(c)' <=> ResetStage(c)
    BY <1>1 DEF vars, ResetStage, Deleted, Made, Counts
  <2>2. QED
    BY <1>1, <2>1 DEF vars, ResetInv, Running, Resets
<1>2. ASSUME NEW c \in Calls, Start(c) PROVE ResetInv'
  <2>1. /\ Alone(c) /\ pc[c] = "idle" /\ ~call'[c].body
        /\ overlap' = [x \in Calls |-> IF x = c THEN \E y \in Calls : Running(y)
                                       ELSE overlap[x] \/ Running(x)]
    BY <1>2, StartFacts
  <2>2. ASSUME NEW d \in Calls, Running(d)', ~overlap'[d]
        PROVE  (\A e \in Calls : e # d => ~Running(e)') /\ ~Resets(d)'
    <3>1. CASE d = c
      <4>1. \A e \in Calls : ~Running(e)
        BY <2>1, <2>2, <3>1
      <4>2. QED
        BY <2>1, <3>1, <4>1 DEF Alone, Running, Resets
    <3>2. CASE d # c
      <4>1. ~Running(d)
        BY <2>1, <2>2, <3>2
      <4>2. QED
        BY <2>1, <2>2, <3>2, <4>1 DEF Alone, Running
    <3>3. QED
      BY <3>1, <3>2
  <2>3. QED
    BY <2>2 DEF ResetInv
<1>3. ASSUME NEW c \in Calls, Alone(c), Running(c), overlap' = overlap,
             (Resets(c) => ResetStage(c)) /\ Running(c)' /\ Resets(c)' => ResetStage(c)'
      PROVE  ResetInv'
  <2>1. ASSUME NEW d \in Calls, Running(d)', ~overlap'[d]
        PROVE  (\A e \in Calls : e # d => ~Running(e)') /\ (Resets(d)' => ResetStage(d)')
    <3>1. CASE d = c
      <4>1. /\ \A e \in Calls : e # c => ~Running(e)
            /\ Resets(c) => ResetStage(c)
        BY <1>3, <2>1, <3>1 DEF ResetInv
      <4>2. \A e \in Calls : e # c => ~Running(e)'
        BY <1>3, <4>1 DEF Alone, Running
      <4>3. QED
        BY <1>3, <2>1, <3>1, <4>1, <4>2
    <3>2. CASE d # c
      <4>1. Running(d) /\ ~overlap[d]
        BY <1>3, <2>1, <3>2 DEF Alone, Running
      <4>2. ~Running(c)
        BY <3>2, <4>1 DEF ResetInv
      <4>3. QED
        BY <1>3, <4>2
    <3>3. QED
      BY <3>1, <3>2
  <2>2. QED
    BY <2>1 DEF ResetInv
<1>4. ASSUME NEW c \in Calls, Step(c) PROVE ResetInv'
  <2>1. Alone(c) /\ Running(c) /\ overlap' = overlap
    BY <1>4, OperationKept, Stepping
  <2>2. (Resets(c) => ResetStage(c)) /\ Running(c)' /\ Resets(c)' => ResetStage(c)'
    BY <1>4, ResetStepped
  <2>3. QED
    BY <1>3, <2>1, <2>2
<1>5. ASSUME NEW c \in Calls, Dies(c) PROVE ResetInv'
  <2>1. Alone(c) /\ Running(c) /\ overlap' = overlap /\ pc'[c] = "dead"
    BY <1>5, DiesFacts DEF Stepped
  <2>2. ~Running(c)'
    BY <2>1 DEF Running
  <2>3. QED
    BY <1>3, <2>1, <2>2
<1>6. QED
  BY <1>1, <1>2, <1>4, <1>5 DEF Next, Terminating

\* A reset that nobody overlaps ends with the insertion of the last delivery.
LEMMA ResetEnds ==
  ASSUME TypeInv, ResetInv, NEW c \in Calls, Step(c), call[c].op = "resetDemo", pc'[c] = "done",
         ~overlap'[c]
  PROVE  db' = SeededBy(c)
<1>1. /\ CallOk(c) /\ Seeding(c) /\ Running(c) /\ ~overlap[c]
  BY Stepping DEF TypeInv, Seeding
<1>2. EnterBody(c) => pc'[c] = "delete"
  BY Entered
<1>3. CASE InsertDelivery(c)
  <2>1. CASE call[c].body
    <3>1. Resets(c) /\ ResetStage(c)
      BY <1>1, <2>1 DEF Resets, ResetInv
    <3>2. QED
      BY <1>3, <3>1, ResetDone
  <2>2. CASE ~call[c].body
    BY <1>1, <1>2, <1>3, <2>2, DeliveryFacts, ReturnFacts, Looped, Sizes
  <2>3. QED
    BY <2>1, <2>2
<1>4. CASE \/ pc[c] = "ruleNumber" /\ NextPublic(c, "rule", "rule")
           \/ pc[c] = "leadNumber" /\ NextPublic(c, "lead", "lead")
           \/ pc[c] = "deliveryNumber" /\ NextPublic(c, "delivery", "delivery")
  BY <1>4, DrawFacts
<1>5. CASE InsertIntegration(c)
  BY <1>5, IntegrationFacts, Looped, Sizes
<1>6. CASE InsertRule(c)
  BY <1>1, <1>6, RuleFacts, Looped, Sizes
<1>7. CASE Delete(c)
  BY <1>7, DeleteFacts, Looped
<1>8. CASE LookUpWorkspace(c) \/ InsertWorkspace(c) \/ InsertKey(c) \/ InsertLead(c)
  BY <1>8, LookUpFacts, WorkspaceFacts, KeyFacts, LeadFacts
<1>9. CASE ReadRuleCount(c) \/ BumpRuleCount(c)
  BY <1>9, ReadFacts, BumpFacts
<1>10. CASE CountLeads(c)
  BY <1>2, <1>10, CountFacts
<1>11. QED
  BY <1>3, <1>4, <1>5, <1>6, <1>7, <1>8, <1>9, <1>10 DEF Step

\* Whatever calls have done before, together or dying halfway: a reset that
\* nobody overlaps and that does not fail leaves exactly the seed.
THEOREM ResetsRestoreSeed == Spec => ResetRestoresSeed
<1>1. Init => ResetInv
  BY DEF Init, ResetInv, Running
<1>2. TypeInv /\ ResetInv /\ [Next]_vars => ResetInv'
  BY ResetKept
<1>3. ASSUME TypeInv, ResetInv, [Next]_vars
      PROVE  [\A c \in Calls :
                /\ call[c].op = "resetDemo" /\ Running(c)
                /\ pc'[c] = "done" /\ ~overlap'[c]
                => db' = SeededBy(c)]_vars
  <2> SUFFICES ASSUME NEW c \in Calls, call[c].op = "resetDemo", Running(c), pc'[c] = "done",
                      ~overlap'[c]
               PROVE  db' = SeededBy(c)
    OBVIOUS
  <2>1. pc'[c] # pc[c]
    BY DEF Running
  <2>2. CASE UNCHANGED vars
    BY <2>1, <2>2 DEF vars
  <2>3. ASSUME NEW d \in Calls, Start(d) PROVE FALSE
    BY <1>3, <2>1, <2>3, StartFacts DEF Alone
  <2>4. ASSUME NEW d \in Calls, Dies(d) PROVE FALSE
    BY <1>3, <2>1, <2>4, DiesFacts DEF Alone, Stepped
  <2>5. ASSUME NEW d \in Calls, Step(d) PROVE db' = SeededBy(c)
    <3>1. d = c
      BY <1>3, <2>1, <2>5, OperationKept DEF Alone
    <3>2. QED
      BY <1>3, <2>5, <3>1, ResetEnds
  <2>6. QED
    BY <1>3, <2>2, <2>3, <2>4, <2>5 DEF Next, Terminating
<1>4. QED
  BY <1>1, <1>2, <1>3, TypeCorrect, PTL DEF Spec, ResetRestoresSeed
=============================================================================
