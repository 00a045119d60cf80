------------------------------- MODULE Intake -------------------------------
(***************************************************************************)
(* POST /api/v1/intake/leads on PostgreSQL (intake_leads, ingest_sql):     *)
(* concurrent requests, each one transaction at READ COMMITTED, of clients *)
(* that repeat a request until it is answered.  "leads", "records" and     *)
(* "counters" are the committed tables; what a request has written and not *)
(* committed is in "local".  A payload is what find_duplicate looks at;    *)
(* two payloads have the same hash when they are equal.                    *)
(***************************************************************************)
EXTENDS Naturals, FiniteSets, FiniteSetsExt

CONSTANTS
  Clients,    \* senders of one POST each, which they may send again
  Keys,       \* Idempotency-Key values
  Payloads,   \* records [email, phone, external]; external is source + id
  None,       \* no value
  MaxFaults   \* bound on failed requests and lost responses

ASSUME ClientAssumption == IsFiniteSet(Clients) /\ None \notin Keys
ASSUME PayloadAssumption ==
  \A p \in Payloads : DOMAIN p = {"email", "phone", "external"}
ASSUME FaultAssumption == MaxFaults \in Nat

VARIABLES
  leads,     \* leads with their deliveries, committed
  records,   \* idempotency_records: the lead and payload of each key
  counters,  \* id_counters
  post,      \* the request each client sends
  pc, local, \* the position and transaction of each client's request
  answer,    \* the response each client has
  hist,      \* per key: times handed to the CRM or broker, and times undone
  faults

vars == <<leads, records, counters, post, pc, local, answer, hist, faults>>

Kinds == {"lead", "delivery"}
NoRecord == [lead |-> 0, payload |-> None]
NoAnswer == [status |-> "none", lead |-> 0]

\* ids: the public ids taken; born: the lead's created_at, which also stands
\* for its internal id; before: the leads that were there when the request came.
NoLocal == [duplicate_of |-> 0, born |-> 0, ids |-> [k \in Kinds |-> 0], before |-> {}]

Goto(c, label) == pc' = [pc EXCEPT ![c] = label]
Reply(c, status, lead) ==
  /\ answer' = [answer EXCEPT ![c] = [status |-> status, lead |-> lead]]
  /\ Goto(c, "done")

\* A time after every lead's that is stored or under way.
utc_now == 1 + Max({l.born : l \in leads} \cup {local[c].born : c \in Clients})

\* normalize_lead needs an email or a phone.
normalizes(p) == p.email # None \/ p.phone # None

Oldest(S) == CHOOSE l \in S : \A m \in S : l.born <= m.born
Matching(rows, p, field) == {l \in rows : p[field] # None /\ l.payload[field] = p[field]}

\* By email, then phone, then source and external id; the oldest match.
find_duplicate(rows, p) ==
  LET by(field) == Matching(rows, p, field)
  IN  IF by("email") # {} THEN Oldest(by("email")).born
      ELSE IF by("phone") # {} THEN Oldest(by("phone")).born
      ELSE IF by("external") # {} THEN Oldest(by("external")).born ELSE 0

\* Mutant: a record is found by its key alone.
FoundByKey(c) == records[post[c].key] # NoRecord
SamePayload(c) == records[post[c].key].payload = post[c].payload
-----------------------------------------------------------------------------
Init ==
  /\ leads = {}
  /\ records = [k \in Keys |-> NoRecord]
  /\ counters = [k \in Kinds |-> 0]
  /\ post \in [Clients -> [key: Keys \cup {None}, payload: Payloads]]
  /\ pc = [c \in Clients |-> "lookup"]
  /\ local = [c \in Clients |-> NoLocal]
  /\ answer = [c \in Clients |-> NoAnswer]
  /\ hist = [k \in Keys |-> [handed |-> 0, undone |-> 0]]
  /\ faults = 0

\* SELECT from idempotency_records: a known key is replayed or refused; then
\* the payload is normalised or refused.
Lookup(c) ==
  LET known == post[c].key # None /\ records[post[c].key] # NoRecord
  IN  /\ pc[c] = "lookup"
      /\ \/ known /\ SamePayload(c) /\ Reply(c, "replayed", records[post[c].key].lead)
         \/ known /\ ~SamePayload(c) /\ Reply(c, "conflict", 0)
         \/ ~known /\ ~normalizes(post[c].payload) /\ Reply(c, "invalid", 0)
         \/ ~known /\ normalizes(post[c].payload) /\ Goto(c, "dedup") /\ UNCHANGED answer
      /\ local' = [local EXCEPT ![c] = [NoLocal EXCEPT !.before = {l.born : l \in leads}]]
      /\ UNCHANGED <<leads, records, counters, post, hist, faults>>

\* SELECT leads ORDER BY created_at, find_duplicate, route_lead; then now().
Dedup(c) ==
  /\ pc[c] = "dedup"
  /\ local' = [local EXCEPT ![c].duplicate_of = find_duplicate(leads, post[c].payload),
                            ![c].born = utc_now]
  /\ Goto(c, "get_lead")
  /\ UNCHANGED <<leads, records, counters, post, answer, hist, faults>>

\* Mutant: the counter is read and not advanced.
SameValue(kind) == counters[kind]
next_value(kind) == counters[kind] + 1

\* next_public, first half: the counter row is read, unlocked.
GetCounter(c, kind, here, next) ==
  /\ pc[c] = here
  /\ local' = [local EXCEPT ![c].ids[kind] = next_value(kind)]
  /\ Goto(c, next)
  /\ UNCHANGED <<leads, records, counters, post, answer, hist, faults>>

\* A transaction that has updated a counter row keeps it locked to its end.
Updated(c, kind) ==
  pc[c] \in IF kind = "lead" THEN {"get_delivery", "set_delivery", "deliver", "commit"}
            ELSE {"deliver", "commit"}
Unlocked(c, kind) == \A d \in Clients \ {c} : ~Updated(d, kind)

\* Mutant: the unique index on the key is missing.
AnyKey(k) == k \in Keys \cup {None}
IdFree(kind, n) == \A l \in leads : l.ids[kind] # n
KeyFree(k) == k \in Keys => records[k] = NoRecord

\* Mutant: the inserts of a failed transaction stay.
NoRollBack(c) ==
  /\ Reply(c, "error", 0)
  /\ leads' = leads \cup {[born |-> local[c].born, ids |-> local[c].ids, key |-> post[c].key,
                           payload |-> post[c].payload, duplicate_of |-> 0]}
  /\ UNCHANGED <<records, counters, post, local, hist>>
\* A statement fails: the transaction is rolled back and the client gets a 500.
Abort(c) ==
  LET k == post[c].key
  IN  /\ Reply(c, "error", 0)
      /\ hist' = IF k # None /\ pc[c] = "commit"
                 THEN [hist EXCEPT ![k].undone = @ + 1] ELSE hist
      /\ local' = [local EXCEPT ![c] = [NoLocal EXCEPT !.before = local[c].before]]
      /\ UNCHANGED <<leads, records, counters, post>>

\* next_public, second half: the value read plus one is written.
SetLeadCounter(c) ==
  /\ pc[c] = "set_lead"
  /\ Unlocked(c, "lead")
  /\ Goto(c, "get_delivery")
  /\ UNCHANGED <<leads, records, counters, post, local, answer, hist, faults>>

\* The same flush inserts the lead, so its public id is checked here.
SetDeliveryCounter(c) ==
  /\ pc[c] = "set_delivery"
  /\ Unlocked(c, "delivery")
  /\ \/ /\ IdFree("lead", local[c].ids["lead"])
        /\ Goto(c, "deliver")
        /\ UNCHANGED <<leads, records, counters, post, local, answer, hist>>
     \/ ~IdFree("lead", local[c].ids["lead"]) /\ Abort(c)
  /\ UNCHANGED faults

\* Flush of the delivery, then process_delivery or enqueue_delivery: the lead
\* leaves the system before the commit.
Deliver(c) ==
  LET k == post[c].key
  IN  /\ pc[c] = "deliver"
      /\ \/ /\ IdFree("delivery", local[c].ids["delivery"])
            /\ hist' = IF k = None THEN hist ELSE [hist EXCEPT ![k].handed = @ + 1]
            /\ Goto(c, "commit")
            /\ UNCHANGED <<leads, records, counters, post, local, answer>>
         \/ ~IdFree("delivery", local[c].ids["delivery"]) /\ Abort(c)
      /\ UNCHANGED faults

\* The commit flushes the idempotency record, whose key is unique per user.
Commit(c) ==
  LET k == post[c].key
      lead == [born |-> local[c].born, ids |-> local[c].ids, key |-> k,
               payload |-> post[c].payload, duplicate_of |-> local[c].duplicate_of]
  IN  /\ pc[c] = "commit"
      /\ \/ /\ KeyFree(k)
            /\ leads' = leads \cup {lead}
            /\ counters' = local[c].ids
            /\ records' = IF k = None THEN records
                          ELSE [records EXCEPT ![k] = [lead |-> local[c].ids["lead"],
                                                       payload |-> post[c].payload]]
            /\ Reply(c, "created", local[c].ids["lead"])
            /\ UNCHANGED <<post, local, hist>>
         \/ ~KeyFree(k) /\ Abort(c)
      /\ UNCHANGED faults
-----------------------------------------------------------------------------
InTransaction(c) == pc[c] # "done"

RequestFails(c) ==
  /\ InTransaction(c) /\ faults < MaxFaults
  /\ Abort(c)
  /\ faults' = faults + 1

\* The client sends its request again: after an error, or for want of an answer.
SendAgain(c) ==
  /\ Goto(c, "lookup")
  /\ answer' = [answer EXCEPT ![c] = NoAnswer]
  /\ UNCHANGED <<leads, records, counters, post, local, hist>>

Retry(c) == pc[c] = "done" /\ answer[c].status = "error" /\ SendAgain(c) /\ UNCHANGED faults

LoseAnswer(c) ==
  /\ pc[c] = "done" /\ answer[c].status \in {"created", "replayed"}
  /\ faults < MaxFaults
  /\ SendAgain(c)
  /\ faults' = faults + 1

Answered(c) == pc[c] = "done" /\ answer[c].status # "error"
Terminating == (\A c \in Clients : Answered(c)) /\ UNCHANGED vars

Request(c) ==
  \/ Lookup(c) \/ Dedup(c)
  \/ GetCounter(c, "lead", "get_lead", "set_lead") \/ SetLeadCounter(c)
  \/ GetCounter(c, "delivery", "get_delivery", "set_delivery") \/ SetDeliveryCounter(c)
  \/ Deliver(c) \/ Commit(c)

Next ==
  \/ \E c \in Clients : Request(c) \/ RequestFails(c) \/ Retry(c) \/ LoseAnswer(c)
  \/ Terminating

Spec == Init /\ [][Next]_vars
-----------------------------------------------------------------------------
(***************************************************************************)
(* Properties.                                                             *)
(***************************************************************************)
\* A key has one lead, however often and however concurrently it is posted,
\* and its record names that lead and the payload it came with.
OneLeadPerKey ==
  \A k \in Keys :
    LET mine == {l \in leads : l.key = k}
    IN  /\ Cardinality(mine) <= 1
        /\ \A l \in mine : records[k] = [lead |-> l.ids["lead"], payload |-> l.payload]

\* A client that is told 201 or 200 has a lead with the payload it sent, under
\* its key; it is told 409 only when the key belongs to another payload.
AnswersTruthful ==
  \A c \in Clients :
    /\ answer[c].status \in {"created", "replayed"} =>
         \E l \in leads : /\ l.ids["lead"] = answer[c].lead
                          /\ l.payload = post[c].payload /\ l.key = post[c].key
    /\ answer[c].status = "conflict" =>
         \E l \in leads : l.key = post[c].key /\ l.payload # post[c].payload

\* A lead goes to the CRM or the broker before it is committed: of the times a
\* key's lead went out, one belongs to the lead that exists, those of requests
\* about to commit are open, and every other is of a rolled back transaction.
HandoversAccounted ==
  \A k \in Keys :
    hist[k].handed = hist[k].undone
                     + Cardinality({l \in leads : l.key = k})
                     + Cardinality({c \in Clients : pc[c] = "commit" /\ post[c].key = k})

\* A request that no fault hit gets a 500 only in a race it lost: another one
\* has committed since it began.  So one of several always gets through, and a
\* repetition on its own succeeds.
ErrorsOnlyInRaces ==
  \A c \in Clients :
    faults = 0 /\ answer[c].status = "error" =>
      local[c].before # {l.born : l \in leads}
=============================================================================
