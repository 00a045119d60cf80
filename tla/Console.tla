------------------------------- MODULE Console -------------------------------
(***************************************************************************)
(* The pages of the showcase (routes/_app) and the server functions they   *)
(* call (server/fns.ts).  One tab keeps what it has read in a query cache; *)
(* each mutation names the queries its success makes out of date.  Other   *)
(* tabs of the same account send the same calls.  A query is modelled by   *)
(* the tables it reads and by the part of its answer that later calls are  *)
(* made from; how several calls seed a workspace is in ShowcaseWorkspace,  *)
(* the statements of one delivery are in ShowcaseDelivery.                 *)
(***************************************************************************)
EXTENDS Integers, Sequences, FiniteSets

CONSTANTS
  Pages,             \* pages the tab visits, leads among them
  StartPages,        \* the first of them
  Leads,             \* leads with a detail page
  None,              \* no lead
  MaxEvents          \* bound on navigations, mutations and failing queries together,
                     \* where a failing query, a reset and a mutation of another tab
                     \* count for two

FixedPages == {"routing", "integrations", "deliveries", "dashboard", "settings", "intake-simulator"}
ASSUME ConsoleAssumption ==
  /\ Leads \cap (FixedPages \cup {"rules", "here", "elsewhere"}) = {}
  /\ Pages \subseteq FixedPages \cup Leads /\ StartPages \subseteq Pages
  /\ MaxEvents \in Nat

VARIABLES
  page,          \* the page the tab is on
  cache, fetch,  \* QueryClient: what each query has answered, and its request
  calls,         \* mutations on their way
  rules,         \* routing_rules: id, integration_id
  integrations,  \* integrations: the generation of their ids, 0 while there are none
  delivery,      \* deliveries and delivery_attempts of each lead
  resets,        \* resets that have come to the rules
  writes,        \* history: changes of this tab that the server has completed
  told,          \* history: for each query the last change this tab was told of
  events

consoleDb == <<rules, integrations, delivery, resets, writes>>
consoleVars == <<page, cache, fetch, calls, consoleDb, told, events>>

\* The tables each query reads.
listRules == {"routing_rules", "integrations"}
listIntegrations == {"integrations"}
listDeliveries == {"deliveries", "delivery_attempts", "leads", "integrations"}
getDashboard == {"leads", "deliveries", "delivery_attempts", "routing_decisions", "integrations"}
getSettings == {"api_keys"}
getLead == {"leads", "routing_decisions", "routing_rules", "integrations", "deliveries",
            "delivery_attempts", "audit_events"}
Keys == Leads \cup {"rules", "integrations", "deliveries", "dashboard", "settings"}
Reads == [k \in Keys |->
  CASE k = "rules" -> listRules
    [] k = "integrations" -> listIntegrations
    [] k = "deliveries" -> listDeliveries
    [] k = "dashboard" -> getDashboard
    [] k = "settings" -> getSettings
    [] k \in Leads -> getLead]

Happens(weight) ==
  /\ events + weight <= MaxEvents
  /\ events' = events + weight

Queries(p) ==
  CASE p = "routing" -> {"rules", "integrations"}
    [] p = "intake-simulator" -> {}
    [] OTHER -> {p}

\* The tables each mutation writes.
Writes(op) ==
  CASE op \in {"saveRule", "toggleRule", "deleteRule"} -> {"routing_rules"}
    [] op \in {"toggleIntegration", "testIntegration"} -> {"integrations"}
    [] op \in {"retryDelivery", "simulateFailureOnDelivery"} ->
         {"deliveries", "delivery_attempts", "integrations", "audit_events"}
    [] op = "submitIntake" ->
         {"leads", "routing_decisions", "deliveries", "delivery_attempts", "integrations", "audit_events"}
    [] op = "resetDemo" -> UNION {Reads[k] : k \in Keys}

Seeded(g) == [l \in Leads |-> [gen |-> g, status |-> "failed", attempt_count |-> 0, attempts |-> 0]]
Gone == [gen |-> 0, status |-> "delivered", attempt_count |-> 0, attempts |-> 0]

\* An answer: the ids that later calls are made from, and the delivery of a lead.
Nothing == [ids |-> {}, row |-> Gone, torn |-> FALSE]
Unread == [readAt |-> -1, invalid |-> FALSE, error |-> FALSE, data |-> Nothing]
NoFetch == [stage |-> "idle", readAt |-> 0, data |-> Nothing]
Asked == [NoFetch EXCEPT !.stage = "asked"]
Loaded(k) == cache[k].readAt >= 0 /\ ~cache[k].error

ConsoleInit ==
  /\ page \in StartPages
  /\ cache = [k \in Keys |-> Unread]
  /\ fetch = [k \in Keys |-> IF k \in Queries(page) THEN Asked ELSE NoFetch]
  /\ calls = {}
  /\ rules = {[id |-> 1, integration_id |-> 1, saved |-> 0]}
  /\ integrations = 1
  /\ delivery = Seeded(1)
  /\ resets = 0 /\ writes = 0
  /\ told = [k \in Keys |-> 0]
  /\ events = 0
-----------------------------------------------------------------------------
(* The query client of the tab. *)

\* A page asks for what it has not got, what was invalidated, and what is
\* older than the staleTime.  Requests under way are joined.  The component
\* of a lead stays when the next page is a lead, and mutations under way
\* follow it; otherwise their callbacks keep the page they were made on.
Navigate(p) ==
  /\ Happens(1) /\ p # page
  /\ page' = p
  /\ \E old \in SUBSET Queries(p) :
       fetch' = [k \in Keys |->
         IF /\ k \in Queries(p) /\ fetch[k].stage = "idle"
            /\ cache[k].readAt < 0 \/ cache[k].invalid \/ k \in old
         THEN Asked ELSE fetch[k]]
  /\ calls' = IF {page, p} \subseteq Leads THEN calls
              ELSE {[c EXCEPT !.closure = IF @ = "here" THEN page ELSE @] : c \in calls}
  /\ UNCHANGED <<cache, consoleDb, told>>

\* resetWorkspace, as far as these tables go, and the seed.  Mutant: the
\* integrations go before the rules.
IntegrationsFirst == <<"delivery_attempts", "deliveries", "integrations", "routing_rules", "seed">>
DeleteOrder == <<"delivery_attempts", "deliveries", "routing_rules", "integrations", "seed">>
Deleting == \E c \in calls : c.op = "resetDemo" /\ c.step # DeleteOrder[1]

\* Rules are joined with the integrations; deliveries listed with a Retry button.
View(k) ==
  CASE k = "rules" -> [Nothing EXCEPT !.ids = {r.id : r \in {x \in rules : x.integration_id = integrations}}]
    [] k = "integrations" -> [Nothing EXCEPT !.ids = {integrations} \ {0}]
    [] k = "deliveries" ->
         [Nothing EXCEPT !.ids =
            {<<l, delivery[l].gen>> : l \in {x \in Leads : delivery[x].status \in {"queued", "failed"}}}]
    [] k \in Leads -> [Nothing EXCEPT !.row = delivery[k], !.torn = Deleting]
    [] OTHER -> Nothing

\* A query of one statement, or the first of several; what the others read is newer.
Query(k) ==
  /\ fetch[k].stage = "asked"
  /\ fetch' = [fetch EXCEPT ![k] =
       [stage |-> IF k \in Leads THEN "row" ELSE "read", readAt |-> writes, data |-> View(k)]]
  /\ UNCHANGED <<page, cache, calls, consoleDb, told, events>>

\* getLead reads the attempts of the delivery it has found in a statement of
\* its own.  Mutant: it reads them before the row.
RowLast(k) ==
  /\ fetch[k].stage = "row"
  /\ LET same == fetch[k].data.row.gen = delivery[k].gen
     IN fetch' = [fetch EXCEPT ![k].stage = "read",
          ![k].data.row.attempt_count = IF same THEN delivery[k].attempt_count ELSE 0,
          ![k].data.torn = @ \/ ~same \/ Deleting]
  /\ UNCHANGED <<page, cache, calls, consoleDb, told, events>>
QueryAttempts(k) ==
  /\ fetch[k].stage = "row"
  /\ LET same == fetch[k].data.row.gen = delivery[k].gen
     IN fetch' = [fetch EXCEPT ![k].stage = "read",
          ![k].data.row.attempts = IF same THEN delivery[k].attempts ELSE 0,
          ![k].data.torn = @ \/ ~same \/ Deleting]
  /\ UNCHANGED <<page, cache, calls, consoleDb, told, events>>

Answer(k) ==
  /\ fetch[k].stage = "read"
  /\ cache' = [cache EXCEPT ![k] = [Unread EXCEPT !.readAt = fetch[k].readAt, !.data = fetch[k].data]]
  /\ fetch' = [fetch EXCEPT ![k] = NoFetch]
  /\ UNCHANGED <<page, calls, consoleDb, told, events>>

\* A query and its one repetition fail: the page shows ErrorState.
QueryFails(k) ==
  /\ fetch[k].stage # "idle"
  /\ Happens(2)
  /\ cache' = [cache EXCEPT ![k].error = TRUE, ![k].invalid = TRUE]
  /\ fetch' = [fetch EXCEPT ![k] = NoFetch]
  /\ UNCHANGED <<page, calls, consoleDb, told>>

Refetch(k) ==
  /\ k \in Queries(page) /\ cache[k].error /\ fetch[k].stage = "idle"
  /\ fetch' = [fetch EXCEPT ![k] = Asked]
  /\ UNCHANGED <<page, cache, calls, consoleDb, told, events>>
-----------------------------------------------------------------------------
(* What the pages send. *)

Mutation(op, from, lead, gen, rule) ==
  [op |-> op, from |-> from, closure |-> "here", lead |-> lead, gen |-> gen, rule |-> rule,
   step |-> IF op = "resetDemo" THEN DeleteOrder[1] ELSE "start",
   attempt_count |-> 0, at |-> 0, id |-> events]
Send(c) ==
  /\ Happens(IF c.op = "resetDemo" THEN 2 ELSE 1)
  /\ calls' = calls \cup {c}
  /\ UNCHANGED <<page, cache, fetch, consoleDb, told>>
isPending(op) == \E c \in calls : c.op = op /\ c.closure = "here"
NewRule == 0
\* What pages of any age know: the ids of each seed.
Generations == 1..(IF integrations # 0 THEN integrations ELSE resets)
Ids == {r.id : r \in rules} \cup Generations

\* The form of a rule can hold one that is gone.  Its destinations are those
\* of listIntegrations; while that has not answered it sends "null".
Options == IF cache["integrations"].data.ids = {} THEN {0} ELSE cache["integrations"].data.ids
RoutingPage ==
  /\ page = "routing" /\ Loaded("rules")
  /\ \/ /\ ~isPending("saveRule")
        /\ \E rule \in Ids \cup {NewRule}, gen \in Options : Send(Mutation("saveRule", page, None, gen, rule))
     \/ \E rule \in cache["rules"].data.ids, op \in {"toggleRule", "deleteRule"} :
          Send(Mutation(op, page, None, 0, rule))

IntegrationsPage ==
  /\ page = "integrations" /\ Loaded("integrations")
  /\ \E gen \in cache["integrations"].data.ids :
       \/ Send(Mutation("toggleIntegration", page, None, gen, NewRule))
       \/ ~isPending("testIntegration") /\ Send(Mutation("testIntegration", page, None, gen, NewRule))

DeliveriesPage ==
  /\ page = "deliveries" /\ cache["deliveries"].readAt >= 0 /\ ~isPending("retryDelivery")
  /\ \E d \in cache["deliveries"].data.ids : Send(Mutation("retryDelivery", page, d[1], d[2], NewRule))

LeadDetailPage ==
  /\ page \in Leads /\ Loaded(page) /\ cache[page].data.row.gen # 0
  /\ LET row == cache[page].data.row
     IN \/ /\ row.status = "failed" /\ ~isPending("retryDelivery")
           /\ Send(Mutation("retryDelivery", page, page, row.gen, NewRule))
        \/ /\ ~isPending("simulateFailureOnDelivery")
           /\ Send(Mutation("simulateFailureOnDelivery", page, page, row.gen, NewRule))

Resetting == \E c \in calls : c.op = "resetDemo"
SettingsPage ==
  /\ page = "settings" /\ Loaded("settings") /\ ~Resetting
  /\ Send(Mutation("resetDemo", page, None, 0, NewRule))

IntakePage ==
  /\ page = "intake-simulator" /\ ~isPending("submitIntake")
  /\ Send(Mutation("submitIntake", page, None, 0, NewRule))

\* Other tabs, whose pages may be as old as they like.
Elsewhere ==
  /\ Happens(2)
  /\ \E c \in UNION {{Mutation(op, "elsewhere", l, gen, NewRule) :
                          op \in {"retryDelivery", "simulateFailureOnDelivery"}, l \in Leads, gen \in Generations},
                     {Mutation("saveRule", "elsewhere", None, gen, rule) : rule \in Ids \cup {NewRule}, gen \in Generations},
                     IF Resetting THEN {} ELSE {Mutation("resetDemo", "elsewhere", None, 0, NewRule)}} :
       calls' = calls \cup {[c EXCEPT !.closure = "elsewhere"]}
  /\ UNCHANGED <<page, cache, fetch, consoleDb, told>>
-----------------------------------------------------------------------------
(* The server functions, one statement at a time. *)

Becomes(c, new) ==
  /\ LET last == new.step = "done" /\ c.closure # "elsewhere"
     IN /\ writes' = IF last THEN writes + 1 ELSE writes
        /\ calls' = (calls \ {c}) \cup {IF last THEN [new EXCEPT !.at = writes + 1] ELSE new}
  /\ UNCHANGED <<page, cache, fetch, told, events>>
Advances(c, step) == Becomes(c, [c EXCEPT !.step = step])

\* An update of a rule that is gone affects no row and is answered all the same.
saveRule(c) ==
  /\ c.op = "saveRule" /\ c.step = "start"
  /\ rules' = IF c.rule = NewRule
              THEN rules \cup {[id |-> 10 + c.id, integration_id |-> c.gen, saved |-> resets]}
              ELSE {IF r.id = c.rule THEN [r EXCEPT !.integration_id = c.gen, !.saved = resets] ELSE r : r \in rules}
  /\ Advances(c, "done")
  /\ UNCHANGED <<integrations, delivery, resets>>

deleteRule(c) ==
  /\ c.op = "deleteRule" /\ c.step = "start"
  /\ rules' = {r \in rules : r.id # c.rule}
  /\ Advances(c, "done")
  /\ UNCHANGED <<integrations, delivery, resets>>

\* One assignment, of a column that is not in the model.
Toggle(c) ==
  /\ c.op \in {"toggleRule", "toggleIntegration"} /\ c.step = "start"
  /\ Advances(c, "done")
  /\ UNCHANGED <<rules, integrations, delivery, resets>>

\* The new lead is in no list of the model; ShowcaseIntake has its statements.
submitIntake(c) ==
  /\ c.op = "submitIntake" /\ c.step = "start"
  /\ Advances(c, "done")
  /\ UNCHANGED <<rules, integrations, delivery, resets>>

\* A row is looked up by an id that a reset replaces.  When it goes after it
\* was found, the statements that follow affect nothing and the call is answered.
NotFound == {"not found", "done"}
testIntegration(c) ==
  /\ c.op = "testIntegration" /\ c.step = "start"
  /\ \E step \in IF integrations = c.gen THEN {"done"} ELSE NotFound : Advances(c, step)
  /\ UNCHANGED <<rules, integrations, delivery, resets>>

Found(c) == delivery[c.lead].gen = c.gen
Set(c, row) == delivery' = IF Found(c) THEN [delivery EXCEPT ![c.lead] = row] ELSE delivery

simulateFailureOnDelivery(c) ==
  /\ c.op = "simulateFailureOnDelivery" /\ c.step = "start"
  /\ Set(c, [delivery[c.lead] EXCEPT !.status = "queued"])
  /\ \E step \in IF Found(c) THEN {"claim"} ELSE NotFound : Advances(c, step)
  /\ UNCHANGED <<rules, integrations, resets>>

\* Attempt first, then the row.  The integration's counters and the audit
\* event that follow are taken with the row.
Claimable(c) == Found(c) /\ delivery[c.lead].status \in {"queued", "failed"}
Claim(c, otherwise) ==
  \/ /\ Claimable(c)
     /\ Set(c, [delivery[c.lead] EXCEPT !.status = "processing"])
     /\ Becomes(c, [c EXCEPT !.attempt_count = delivery[c.lead].attempt_count, !.step = "attempt"])
  \/ /\ ~Claimable(c)
     /\ UNCHANGED delivery
     /\ \E step \in otherwise : Advances(c, step)
retryDelivery(c) ==
  /\ c.op = "retryDelivery" /\ c.step = "start"
  /\ Claim(c, IF Found(c) THEN {"done"} ELSE NotFound)
  /\ UNCHANGED <<rules, integrations, resets>>
processDelivery(c) ==
  /\ \/ c.step = "claim" /\ Claim(c, {"done"})
     \/ /\ c.step = "attempt"
        /\ Set(c, [delivery[c.lead] EXCEPT !.attempts = @ + 1])
        /\ Advances(c, "row")
     \/ /\ c.step = "row"
        /\ \E status \in IF c.op = "simulateFailureOnDelivery" THEN {"failed"} ELSE {"delivered", "failed"} :
             Set(c, [delivery[c.lead] EXCEPT !.status = status, !.attempt_count = c.attempt_count + 1])
        /\ Advances(c, "done")
  /\ UNCHANGED <<rules, integrations, resets>>

resetDemo(c) ==
  /\ c.op = "resetDemo" /\ c.step # "done"
  /\ \E i \in DOMAIN DeleteOrder :
       /\ DeleteOrder[i] = c.step
       /\ Advances(c, IF i = Len(DeleteOrder) THEN "done" ELSE DeleteOrder[i + 1])
  /\ rules' = CASE c.step = "routing_rules" -> {}
               [] c.step = "seed" -> rules \cup {[id |-> resets + 1, integration_id |-> resets + 1, saved |-> resets]}
               [] OTHER -> rules
  /\ integrations' = CASE c.step = "integrations" -> 0 [] c.step = "seed" -> resets + 1 [] OTHER -> integrations
  /\ delivery' = CASE c.step = "delivery_attempts" -> [l \in Leads |-> [delivery[l] EXCEPT !.attempts = 0]]
                  [] c.step = "deliveries" -> [l \in Leads |-> Gone]
                  [] c.step = "seed" -> Seeded(resets + 1)
                  [] OTHER -> delivery
  /\ resets' = IF c.step = "routing_rules" THEN resets + 1 ELSE resets
-----------------------------------------------------------------------------
(* What the pages do with an answer. *)

\* Where the callback of a mutation thinks it is.
Where(c) == IF c.closure = "here" THEN page ELSE c.closure

\* The queries a success invalidates, by page.  Mutant: a retry forgets its own list.
OnlyDashboard == {"dashboard"}
onRoutingPage == {"rules"}
onIntegrationsPage == {"integrations"}
onDeliveriesPage == {"deliveries", "dashboard"}
onLeadDetailPage(c) == IF c.op = "retryDelivery" THEN {Where(c), "deliveries"} ELSE {Where(c)}
onSettingsPage == Keys
onIntakePage == {}
Invalidated(c) ==
  CASE c.from = "routing" -> onRoutingPage
    [] c.from = "integrations" -> onIntegrationsPage
    [] c.from = "deliveries" -> onDeliveriesPage
    [] c.from \in Leads -> onLeadDetailPage(c)
    [] c.from = "settings" -> onSettingsPage
    [] OTHER -> onIntakePage

\* invalidateQueries marks the queries and asks again for those of the page;
\* a request under way is dropped, unless it is the first of its query.
invalidateQueries(ks) ==
  /\ cache' = [k \in Keys |-> IF k \in ks /\ cache[k].readAt >= 0 THEN [cache[k] EXCEPT !.invalid = TRUE] ELSE cache[k]]
  /\ fetch' = [k \in Keys |->
       IF k \in ks \cap Queries(page) /\ (fetch[k].stage = "idle" \/ cache[k].readAt >= 0) THEN Asked ELSE fetch[k]]

\* The queries of the page a change was made on that show what it wrote.  A
\* change answered when the user is on another lead is not counted, since its
\* callback takes that lead for its own; nor, away from its page, one that is
\* answered while a request of the query is under way, which will be taken
\* for an answer to the invalidation.
Shows(c) ==
  {k \in Queries(c.from) : /\ Reads[k] \cap Writes(c.op) # {}
                           /\ Where(c) = c.from
                           /\ page = c.from \/ fetch[k].stage = "idle"}

Return(c) ==
  /\ c.step \in {"done", "not found"}
  /\ calls' = calls \ {c}
  /\ IF c.step = "done" /\ c.closure # "elsewhere"
     THEN /\ invalidateQueries(Invalidated(c))
          /\ told' = [k \in Keys |-> IF k \in Shows(c) /\ c.at > told[k] THEN c.at ELSE told[k]]
     ELSE UNCHANGED <<cache, fetch, told>>
  /\ UNCHANGED <<page, consoleDb, events>>

Serve(c) ==
  \/ saveRule(c) \/ deleteRule(c) \/ Toggle(c) \/ submitIntake(c) \/ testIntegration(c)
  \/ retryDelivery(c) \/ simulateFailureOnDelivery(c) \/ processDelivery(c) \/ resetDemo(c)

ConsoleNext ==
  \/ \E p \in Pages : Navigate(p)
  \/ \E k \in Keys : Query(k) \/ QueryAttempts(k) \/ Answer(k) \/ QueryFails(k) \/ Refetch(k)
  \/ RoutingPage \/ IntegrationsPage \/ DeliveriesPage \/ LeadDetailPage \/ SettingsPage \/ IntakePage
  \/ Elsewhere
  \/ \E c \in calls : Serve(c) \/ Return(c)

ConsoleSpec == ConsoleInit /\ [][ConsoleNext]_consoleVars
-----------------------------------------------------------------------------
(* Properties. *)

\* A change made on a page whose success the tab was told of is in what that
\* page shows, whenever it shows anything and is not loading: however
\* requests, changes, navigations and failures cross.
OwnPageShowsChange ==
  \A k \in Queries(page) :
    Loaded(k) /\ fetch[k].stage = "idle" => cache[k].readAt >= told[k]

\* The lead page does not count more attempts than it lists, although it
\* reads the count and the list at different moments and several calls work
\* on the delivery; unless a reset came between.
AttemptsListed ==
  \A l \in Leads : cache[l].readAt >= 0 =>
    cache[l].data.torn \/ cache[l].data.row.attempt_count <= cache[l].data.row.attempts

\* A rule that the join with the integrations hides from every list, and from
\* routing, was saved from a page that had not loaded the integrations, or
\* had loaded them before a reset and was saved after it: no reset leaves a
\* rule behind that was in order.
HiddenRules ==
  \A r \in rules : r.integration_id # integrations =>
    r.integration_id = 0 \/ r.integration_id <= r.saved
=============================================================================
