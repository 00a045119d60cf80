----------------------------- MODULE LeadSearch -----------------------------
(***************************************************************************)
(* Finding leads in the showcase: the list with its filters and its pager  *)
(* (routes/_app/leads.index.tsx on listLeads) and the search box in the    *)
(* header (components/layout/app-shell.tsx on searchLeads).  Leads arrive, *)
(* are delivered and are reset while the user looks.                       *)
(***************************************************************************)
EXTENDS Integers, Sequences, FiniteSets

CONSTANTS
  Sources,     \* sources of leads
  PageSize,    \* page_size
  MaxLeads, MaxPatches,
  Words,       \* texts typed into the search box, other than the empty one
  MaxKeys

ASSUME LeadSearchAssumption ==
  /\ PageSize \in Nat \ {0} /\ MaxLeads \in Nat \ {0}
  /\ Sources # {} /\ "" \notin Sources \cup Words

VARIABLES
  table,      \* leads, oldest first: source and delivery status
  filters,    \* what the user has set
  listing,    \* the query cache: what each setting of the filters was answered
  requests,   \* listLeads on their way
  shrunk,     \* history: a lead has left a list
  patches,
  q, timers, asking,  \* the text in the box, timers, and searches on their way
  hits,       \* the text whose answer is shown, "" for none
  late,       \* history: a search was on its way at the last key
  keys

listVars == <<table, filters, listing, requests, shrunk, patches>>
searchVars == <<q, timers, asking, hits, late, keys>>
leadVars == <<listVars, searchVars>>

Anything == ""
INITIAL == [source |-> Anything, delivery_status |-> Anything, page |-> 1]
Loading == [total |-> -1, items |-> 0, facets |-> {}]
Filters == [source : Sources \cup {Anything}, delivery_status : {Anything, "failed"}, page : 1..MaxLeads]
Lead == [source : Sources, delivery_status : {"failed", "delivered"}]
Seed == <<[source |-> CHOOSE s \in Sources : TRUE, delivery_status |-> "failed"]>>

ListInit ==
  /\ table = Seed
  /\ filters = INITIAL
  /\ listing = [f \in Filters |-> Loading]
  /\ requests = {[filters |-> INITIAL, total |-> -1]}
  /\ shrunk = FALSE /\ patches = 0

\* The leads a where clause lets through, and how many of them are on a page.
matches(f) ==
  Cardinality({i \in DOMAIN table : /\ f.source \in {Anything, table[i].source}
                                    /\ f.delivery_status \in {Anything, table[i].delivery_status}})
offset(f) == (f.page - 1) * PageSize
rowsOf(f) ==
  LET rest == matches(f) - offset(f) IN IF rest < 0 THEN 0 ELSE IF rest < PageSize THEN rest ELSE PageSize

\* listLeads counts in one statement and reads the page in another, then the facets.
listLeadsCount(r) ==
  /\ r.total = -1
  /\ requests' = (requests \ {r}) \cup {[r EXCEPT !.total = matches(r.filters)]}
  /\ UNCHANGED <<table, filters, listing, shrunk, patches>>
listLeadsRows(r) ==
  /\ r.total # -1
  /\ requests' = requests \ {r}
  /\ listing' = [listing EXCEPT ![r.filters] =
       [total |-> r.total, items |-> rowsOf(r.filters), facets |-> {table[i].source : i \in DOMAIN table}]]
  /\ UNCHANGED <<table, filters, shrunk, patches>>

\* The settings are the key of the query: new ones are asked for, those seen
\* before are shown at once and asked for again when they are old.
Show(f) ==
  /\ patches < MaxPatches /\ f \in Filters /\ f # filters
  /\ filters' = f
  /\ LET asked == requests \cup {[filters |-> f, total |-> -1]}
         underway == \E r \in requests : r.filters = f
     IN requests' \in IF underway THEN {requests}
                      ELSE IF listing[f].total = -1 THEN {asked} ELSE {requests, asked}
  /\ patches' = patches + 1
  /\ UNCHANGED <<table, listing, shrunk>>

\* patch: a change of any filter goes back to the first page.  Mutant: it stays.
StaysOnPage(f) == f
ToFirstPage(f) == [f EXCEPT !.page = 1]
\* The number of pages is that of the answer shown.
data == listing[filters]
pages == IF data.total <= PageSize THEN 1 ELSE (data.total + PageSize - 1) \div PageSize
patch ==
  \/ \E s \in data.facets \cup {Anything} : Show(ToFirstPage([filters EXCEPT !.source = s]))
  \/ \E s \in {Anything, "failed"} : Show(ToFirstPage([filters EXCEPT !.delivery_status = s]))
Turn ==
  /\ data.items > 0
  /\ \/ filters.page < pages /\ Show([filters EXCEPT !.page = @ + 1])
     \/ filters.page > 1 /\ Show([filters EXCEPT !.page = @ - 1])
ResetFilters == Show(INITIAL)

\* What other calls do to the table.
Arrives ==
  /\ Len(table) < MaxLeads
  /\ \E l \in Lead : table' = Append(table, l)
  /\ UNCHANGED <<filters, listing, requests, shrunk, patches>>
Delivered ==
  /\ \E i \in DOMAIN table :
       /\ table[i].delivery_status = "failed"
       /\ table' = [table EXCEPT ![i].delivery_status = "delivered"]
  /\ shrunk' = TRUE
  /\ UNCHANGED <<filters, listing, requests, patches>>
Resets ==
  /\ Len(table) > 1
  /\ table' = Seed
  /\ shrunk' = TRUE
  /\ UNCHANGED <<filters, listing, requests, patches>>

ListNext ==
  \/ patch \/ Turn \/ ResetFilters
  \/ \E r \in requests : listLeadsCount(r) \/ listLeadsRows(r)
  \/ Arrives \/ Delivered \/ Resets
-----------------------------------------------------------------------------
SearchInit == q = "" /\ timers = {} /\ asking = {} /\ hits = "" /\ late = FALSE /\ keys = 0

\* The effect of a new text: its cleanup stops the timer of the one before,
\* not a search that is on its way.  Mutant: there is no cleanup.
KeepsTimers(ts) == ts
Stopped(ts) == {}
GlobalSearch(w) ==
  /\ keys < MaxKeys /\ w # q
  /\ q' = w
  /\ timers' = Stopped(timers) \cup (IF w = "" THEN {} ELSE {w})
  /\ hits' = IF w = "" THEN "" ELSE hits
  /\ late' = (asking # {})
  /\ keys' = keys + 1
  /\ UNCHANGED asking
TimesOut(w) ==
  /\ timers' = timers \ {w}
  /\ asking' = asking \cup {[q |-> w, key |-> keys]}
  /\ UNCHANGED <<q, hits, late, keys>>
searchLeads(a) ==
  /\ hits' \in {a.q, ""}
  /\ asking' = asking \ {a}
  /\ UNCHANGED <<q, timers, late, keys>>

SearchNext ==
  \/ \E w \in Words \cup {""} : GlobalSearch(w)
  \/ \E w \in timers : TimesOut(w)
  \/ \E a \in asking : searchLeads(a)

LeadNext ==
  \/ ListNext /\ UNCHANGED searchVars
  \/ SearchNext /\ UNCHANGED listVars

LeadSpec == ListInit /\ SearchInit /\ [][LeadNext]_leadVars
-----------------------------------------------------------------------------
(* Properties. *)

\* What is shown fits what was asked for.  As long as leads only arrive, the
\* pager never leads to an empty page of a list that has leads, whatever was
\* filtered, turned and answered late.  And once the search box is at rest it
\* shows the answer for the text in it, or nothing if that failed, unless a
\* key was pressed while a search was on its way: a text that is typed over
\* within the delay is never searched for.
LeadsShown ==
  /\ ~shrunk /\ data.total > 0 => data.items > 0
  /\ timers = {} /\ asking = {} /\ ~late => hits \in {q, ""}
=============================================================================
