-------------------------- MODULE ShowcaseWorkspace --------------------------
(***************************************************************************)
(* The rows of one showcase user, and the server functions that create,    *)
(* use and reset them.  Every server function first calls ensureWorkspace, *)
(* which seeds the demo data when there are no leads.  Seeding and         *)
(* resetting are dozens of statements that commit one by one; only the     *)
(* unique indexes keep concurrent calls apart.                             *)
(*                                                                         *)
(* Tables without a unique index that matters here (routing_decisions,     *)
(* delivery_attempts, audit_events, and idempotency_records, as each       *)
(* submission has its own key) are left out.                               *)
(***************************************************************************)
EXTENDS Naturals, FiniteSets

CONSTANTS
  Calls,         \* calls of server functions
  Before,        \* whoever seeded the workspace in the initial state
  None,          \* no value
  Operations,    \* what is called, among those of AllOperations
  Providers,     \* number of seeded integrations, each with a rule
  SeedLeads,     \* number of seeded leads
  InitiallySeeded,  \* whether the workspace may be, or not be, seeded before
  MaxFaults      \* bound on calls that die

AllOperations == {"getDashboard", "submitIntake", "saveRule", "resetDemo"}

ASSUME CallAssumption ==
  /\ IsFiniteSet(Calls) /\ Calls # {} /\ Before \notin Calls /\ None \notin AllOperations
  /\ Operations \subseteq AllOperations /\ MaxFaults \in Nat /\ InitiallySeeded \subseteq BOOLEAN
ASSUME SeedAssumption == Providers \in Nat \ {0} /\ SeedLeads \in Nat \ {0}

VARIABLES
  db,       \* the user's rows, by table
  pc, call, \* each call's position and what it knows
  overlap,  \* history: whether another call was running during the call
  faults

vars == <<db, pc, call, overlap, faults>>

Empty == [workspaces |-> FALSE, api_keys |-> FALSE, integrations |-> {}, routing_rules |-> {},
          leads |-> {}, deliveries |-> {},
          id_counters |-> [rule |-> 0, lead |-> 0, delivery |-> 0]]
\* What seedWorkspace makes of an empty database when nobody disturbs it.
SeededBy(c) ==
  LET I(p) == [provider |-> p, by |-> c]
      S(n) == [number |-> n, seeded |-> TRUE]
  IN  [workspaces |-> TRUE, api_keys |-> TRUE,
       integrations |-> {I(p) : p \in 1..Providers},
       routing_rules |-> {[number |-> p, integration |-> I(p)] : p \in 1..Providers},
       leads |-> {S(n) : n \in 1..SeedLeads}, deliveries |-> {S(n) : n \in 1..SeedLeads},
       id_counters |-> [rule |-> Providers, lead |-> SeedLeads, delivery |-> SeedLeads]]

\* body: ensureWorkspace has returned; k: the row of the seed being made, or
\* the table being deleted; number: the number drawn; chosen: the integration
\* a rule is saved with.
NoCall == [op |-> None, body |-> FALSE, k |-> 1, number |-> 0, chosen |-> None]

Running(c) == pc[c] \notin {"idle", "done", "failed", "dead"}
Goto(c, label) == pc' = [pc EXCEPT ![c] = label]
Seeding(c) == ~call[c].body \/ call[c].op = "resetDemo"
-----------------------------------------------------------------------------
Init ==
  /\ \E seeded_before \in InitiallySeeded :
       db = IF seeded_before THEN SeededBy(Before) ELSE Empty
  /\ pc = [c \in Calls |-> "idle"]
  /\ call = [c \in Calls |-> NoCall]
  /\ overlap = [c \in Calls |-> FALSE]
  /\ faults = 0

\* A rule is saved with an integration that the page has listed.
Start(c) ==
  /\ pc[c] = "idle"
  /\ \E op \in Operations, i \in db.integrations \cup {None} :
       /\ (op = "saveRule") <=> (i # None)
       /\ call' = [call EXCEPT ![c] = [NoCall EXCEPT !.op = op, !.chosen = i]]
  /\ overlap' = [x \in Calls |-> IF x = c THEN \E y \in Calls : Running(y)
                                ELSE overlap[x] \/ Running(x)]
  /\ Goto(c, "ensure")
  /\ UNCHANGED <<db, faults>>

\* ensureWorkspace returns and the operation's own statements begin.
EnterBody(c) ==
  /\ call' = [call EXCEPT ![c].body = TRUE, ![c].k = 1]
  /\ Goto(c, CASE call[c].op = "getDashboard" -> "done"
               [] call[c].op = "submitIntake" -> "leadNumber"
               [] call[c].op = "saveRule" -> "ruleCount"
               [] call[c].op = "resetDemo" -> "delete")

Return(c) ==
  IF call[c].body THEN Goto(c, "done") /\ UNCHANGED call ELSE EnterBody(c)

\* select user_id from workspaces.
LookUpWorkspace(c) ==
  /\ pc[c] = "ensure"
  /\ Goto(c, IF db.workspaces THEN "leadCount" ELSE "workspace")
  /\ UNCHANGED <<db, call, overlap, faults>>

\* Mutant: the workspaces row is enough.
Exists == db.workspaces
seeded == db.leads # {}

CountLeads(c) ==
  /\ pc[c] = "leadCount"
  /\ \/ seeded /\ EnterBody(c)
     \/ ~seeded /\ Goto(c, "workspace") /\ UNCHANGED call
  /\ UNCHANGED <<db, overlap, faults>>
-----------------------------------------------------------------------------
(***************************************************************************)
(* seedWorkspace, whose insertions intake and saveRule share.  A statement *)
(* that violates a unique index raises, and the call fails.                *)
(***************************************************************************)
InsertWorkspace(c) ==
  /\ pc[c] = "workspace"
  /\ db' = [db EXCEPT !.workspaces = TRUE]
  /\ Goto(c, "key")
  /\ UNCHANGED <<call, overlap, faults>>

Fails(c) == Goto(c, "failed") /\ UNCHANGED <<db, call>>

keyFree == ~db.api_keys

InsertKey(c) ==
  /\ pc[c] = "key"
  /\ \/ keyFree /\ db' = [db EXCEPT !.api_keys = TRUE] /\ Goto(c, "integration") /\ UNCHANGED call
     \/ ~keyFree /\ Fails(c)
  /\ UNCHANGED <<overlap, faults>>

\* To the next row of a loop, or past it.
Loop(c, count, again, after) ==
  /\ Goto(c, IF call[c].k < count THEN again ELSE after)
  /\ call' = [call EXCEPT ![c].k = IF @ < count THEN @ + 1 ELSE 1]

InsertIntegration(c) ==
  LET p == call[c].k
      taken == \E i \in db.integrations : i.provider = p
  IN  /\ pc[c] = "integration"
      /\ \/ /\ ~taken
            /\ db' = [db EXCEPT !.integrations = @ \cup {[provider |-> p, by |-> c]}]
            /\ Loop(c, Providers, "integration", "ruleNumber")
         \/ taken /\ Fails(c)
      /\ UNCHANGED <<overlap, faults>>

\* nextPublic: insert ... on conflict do update set value = value + 1 returning.
NextPublic(c, kind, next) ==
  /\ db' = [db EXCEPT !.id_counters[kind] = @ + 1]
  /\ call' = [call EXCEPT ![c].number = db.id_counters[kind] + 1]
  /\ Goto(c, next)
  /\ UNCHANGED <<overlap, faults>>

free(table, n) == \A r \in table : r.number # n

\* A seeded rule sends to the integration of this call, a saved one to the
\* integration chosen on the page.
InsertRule(c) ==
  LET n == call[c].number
      target == IF Seeding(c) THEN [provider |-> call[c].k, by |-> c] ELSE call[c].chosen
  IN  /\ pc[c] = "rule"
      /\ \/ /\ free(db.routing_rules, n)
            /\ db' = [db EXCEPT !.routing_rules = @ \cup {[number |-> n, integration |-> target]}]
            /\ IF Seeding(c) THEN Loop(c, Providers, "ruleNumber", "leadNumber") ELSE Return(c)
         \/ ~free(db.routing_rules, n) /\ Fails(c)
      /\ UNCHANGED <<overlap, faults>>

Insert(table, c) == [db EXCEPT ![table] = @ \cup {[number |-> call[c].number, seeded |-> Seeding(c)]}]

InsertLead(c) ==
  /\ pc[c] = "lead"
  /\ \/ /\ free(db.leads, call[c].number)
        /\ db' = Insert("leads", c)
        /\ Goto(c, "deliveryNumber") /\ UNCHANGED call
     \/ ~free(db.leads, call[c].number) /\ Fails(c)
  /\ UNCHANGED <<overlap, faults>>

\* Mutant: the last lead is not seeded.
OneLess == IF SeedLeads = 1 THEN 1 ELSE SeedLeads - 1
seedCount == SeedLeads

InsertDelivery(c) ==
  /\ pc[c] = "delivery"
  /\ \/ /\ free(db.deliveries, call[c].number)
        /\ db' = Insert("deliveries", c)
        /\ IF Seeding(c) /\ call[c].k < seedCount
           THEN Loop(c, seedCount, "leadNumber", "done") ELSE Return(c)
     \/ ~free(db.deliveries, call[c].number) /\ Fails(c)
  /\ UNCHANGED <<overlap, faults>>
-----------------------------------------------------------------------------
ruleCount == db.id_counters.rule

\* saveRule reads the counter and increments it in two statements.
ReadRuleCount(c) ==
  /\ pc[c] = "ruleCount"
  /\ call' = [call EXCEPT ![c].number = ruleCount]
  /\ Goto(c, "bumpRule")
  /\ UNCHANGED <<db, overlap, faults>>

ruleNumber(n) == n + 1

BumpRuleCount(c) ==
  /\ pc[c] = "bumpRule"
  /\ db' = [db EXCEPT !.id_counters.rule = @ + 1]
  /\ call' = [call EXCEPT ![c].number = ruleNumber(@)]
  /\ Goto(c, "rule")
  /\ UNCHANGED <<overlap, faults>>

DeleteOrder == <<"deliveries", "leads", "routing_rules", "integrations", "api_keys",
                 "id_counters", "workspaces">>

\* Mutant: the counters are kept.
KeepCounters(table) ==
  IF table = "id_counters" THEN db ELSE [db EXCEPT ![table] = Empty[table]]
deleted(table) == [db EXCEPT ![table] = Empty[table]]

\* resetWorkspace deletes table by table and seeds.
Delete(c) ==
  /\ pc[c] = "delete"
  /\ db' = deleted(DeleteOrder[call[c].k])
  /\ Loop(c, 7, "delete", "workspace")
  /\ UNCHANGED <<overlap, faults>>

Dies(c) ==
  /\ Running(c) /\ faults < MaxFaults
  /\ Goto(c, "dead")
  /\ faults' = faults + 1
  /\ UNCHANGED <<db, call, overlap>>

Terminating == (\A c \in Calls : pc[c] \in {"done", "failed", "dead"}) /\ UNCHANGED vars

Step(c) ==
  \/ LookUpWorkspace(c) \/ CountLeads(c)
  \/ InsertWorkspace(c) \/ InsertKey(c) \/ InsertIntegration(c)
  \/ pc[c] = "ruleNumber" /\ NextPublic(c, "rule", "rule")
  \/ InsertRule(c)
  \/ pc[c] = "leadNumber" /\ NextPublic(c, "lead", "lead")
  \/ InsertLead(c)
  \/ pc[c] = "deliveryNumber" /\ NextPublic(c, "delivery", "delivery")
  \/ InsertDelivery(c)
  \/ ReadRuleCount(c) \/ BumpRuleCount(c) \/ Delete(c)

Next == (\E c \in Calls : Start(c) \/ Step(c) \/ Dies(c)) \/ Terminating

Spec == Init /\ [][Next]_vars
-----------------------------------------------------------------------------
(***************************************************************************)
(* Properties.                                                             *)
(***************************************************************************)
NoReset == \A c \in Calls : call[c].op # "resetDemo"

\* Without resets a server function whose ensureWorkspace has returned finds
\* the key, all integrations and all seeded rules, even while the seed is still
\* inserting leads and if whoever seeds dies.
BodyHasRouting ==
  NoReset => \A c \in Calls :
    call[c].body =>
      /\ db.api_keys
      /\ \A p \in 1..Providers : \E i \in db.integrations, r \in db.routing_rules :
           i.provider = p /\ r.integration = i

\* Without resets the insertion of the api key elects the one call that seeds:
\* however many pages load at once, at most one is beyond it, also after
\* deaths.  Without deaths the seed is then complete when all calls have
\* returned, although its concurrent seeders fail.
SeedComplete ==
  LET beyond == {c \in Calls : ~call[c].body /\ pc[c] \in
                  {"integration", "ruleNumber", "rule", "leadNumber", "lead",
                   "deliveryNumber", "delivery"}}
  IN  NoReset =>
      /\ Cardinality(beyond) <= 1
      /\ beyond # {} => db.api_keys
      /\ faults = 0 /\ (\A c \in Calls : pc[c] \in {"done", "failed"}) =>
           /\ Cardinality({l \in db.leads : l.seeded}) = SeedLeads
           /\ Cardinality({d \in db.deliveries : d.seeded}) = SeedLeads

\* Whatever calls have done before, together or dying halfway: a reset that
\* nobody overlaps and that does not fail leaves exactly the seed, numbered
\* from the start.
ResetRestoresSeed ==
  [][\A c \in Calls :
       /\ call[c].op = "resetDemo" /\ Running(c)
       /\ pc'[c] = "done" /\ ~overlap'[c]
       => db' = SeededBy(c)]_vars

=============================================================================
