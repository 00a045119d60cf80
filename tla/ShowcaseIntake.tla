--------------------------- MODULE ShowcaseIntake ---------------------------
(***************************************************************************)
(* Lead intake in the showcase (ingestLead, behind the route               *)
(* /api/v1/intake/leads and the server function submitIntake).  Every      *)
(* statement commits by itself; a request that dies leaves what it wrote.  *)
(* Every request has an idempotency key: the route demands the header and  *)
(* the server function makes one up.  The atomic upsert of nextPublic      *)
(* never returns a number twice, so a lead is named by its place and its   *)
(* public id is left out.                                                  *)
(***************************************************************************)
EXTENDS Naturals, Sequences, FiniteSets

CONSTANTS
  Clients,    \* senders of one request each, which they may send again
  Keys,       \* idempotency keys
  Payloads,   \* records [email, phone, external]
  None,       \* no value
  MaxFaults   \* bound on requests that die

ASSUME ClientAssumption == IsFiniteSet(Clients) /\ MaxFaults \in Nat
ASSUME PayloadAssumption ==
  \A p \in Payloads : DOMAIN p = {"email", "phone", "external"}

VARIABLES
  leads,       \* leads in order of insertion; a lead's id is its place
  deliveries,  \* each lead's delivery, by lead: none, queued or processed
  records,     \* idempotency_records
  post,        \* the request each client sends
  pc, local,   \* the position of each client's request and what it has read
  answer,      \* the response each client has
  faults

vars == <<leads, deliveries, records, post, pc, local, answer, faults>>

NoRecord == [lead |-> 0, payload |-> None]
\* replay: a lead with this key and payload was there at the lookup.
NoLocal == [duplicate_of |-> 0, lead |-> 0, replay |-> FALSE]
NoAnswer == [status |-> "none", lead |-> 0]

Goto(c, label) == pc' = [pc EXCEPT ![c] = label]
Reply(c, status, lead) ==
  /\ answer' = [answer EXCEPT ![c] = [status |-> status, lead |-> lead]]
  /\ Goto(c, "done")

normalizes(p) == p.email # None \/ p.phone # None
-----------------------------------------------------------------------------
Init ==
  /\ leads = <<>>
  /\ deliveries = <<>>
  /\ records = [k \in Keys |-> NoRecord]
  /\ post \in [Clients -> [key: Keys, payload: Payloads]]
  /\ pc = [c \in Clients |-> "lookup"]
  /\ local = [c \in Clients |-> NoLocal]
  /\ answer = [c \in Clients |-> NoAnswer]
  /\ faults = 0

\* Mutant: the payload is not compared.
FoundByKey(c) == records[post[c].key] # NoRecord
SamePayload(c) == records[post[c].key].payload = post[c].payload

Lookup(c) ==
  LET known == records[post[c].key] # NoRecord
  IN  /\ pc[c] = "lookup"
      /\ \/ known /\ SamePayload(c) /\ Reply(c, "replayed", records[post[c].key].lead)
         \/ known /\ ~SamePayload(c) /\ Reply(c, "conflict", 0)
         \/ ~known /\ ~normalizes(post[c].payload) /\ Reply(c, "invalid", 0)
         \/ ~known /\ normalizes(post[c].payload) /\ Goto(c, "email") /\ UNCHANGED answer
      /\ local' = [local EXCEPT ![c] = [NoLocal EXCEPT !.replay = \E i \in DOMAIN leads :
                     leads[i].key = post[c].key /\ leads[i].payload = post[c].payload]]
      /\ UNCHANGED <<leads, deliveries, records, post, faults>>

\* select id from leads where field = value order by created_at asc limit 1.
oldest(field, value) ==
  LET hits == {i \in DOMAIN leads : value # None /\ leads[i].payload[field] = value}
  IN  IF hits = {} THEN 0 ELSE CHOOSE i \in hits : \A j \in hits : i <= j

\* One query per field, each only when the fields before it found nothing.
Dedup(c, field, next) ==
  /\ pc[c] = field
  /\ LET hit == oldest(field, post[c].payload[field])
     IN  /\ local' = [local EXCEPT ![c].duplicate_of = hit]
         /\ Goto(c, IF hit # 0 THEN "lead" ELSE next)
  /\ UNCHANGED <<leads, deliveries, records, post, answer, faults>>

unique(key) == \A i \in DOMAIN leads : leads[i].key # key

\* The row violates the unique index on the key, a 500, or is inserted.
InsertLead(c) ==
  /\ pc[c] = "lead"
  /\ \/ /\ unique(post[c].key)
        /\ leads' = Append(leads, [key |-> post[c].key, payload |-> post[c].payload,
                                   duplicate_of |-> local[c].duplicate_of])
        /\ local' = [local EXCEPT ![c].lead = Len(leads) + 1]
        /\ deliveries' = Append(deliveries, "none")
        /\ Goto(c, "delivery")
        /\ UNCHANGED answer
     \/ /\ ~unique(post[c].key)
        /\ Reply(c, "error", 0)
        /\ UNCHANGED <<leads, local, deliveries>>
  /\ UNCHANGED <<records, post, faults>>

\* Mutant: the delivery is queued for a worker, and there is none.
QueuesOnly(c) ==
  /\ pc[c] = "delivery"
  /\ deliveries' = [deliveries EXCEPT ![local[c].lead] = "queued"]
  /\ Goto(c, "record")
  /\ UNCHANGED <<leads, records, post, local, answer, faults>>
\* The routing decision, the delivery and two audit events are inserted.
InsertDelivery(c) ==
  /\ pc[c] = "delivery"
  /\ deliveries' = [deliveries EXCEPT ![local[c].lead] = "queued"]
  /\ Goto(c, "process")
  /\ UNCHANGED <<leads, records, post, local, answer, faults>>

\* processDelivery runs (ShowcaseDelivery).
Process(c) ==
  /\ pc[c] = "process"
  /\ deliveries' = [deliveries EXCEPT ![local[c].lead] = "processed"]
  /\ Goto(c, "record")
  /\ UNCHANGED <<leads, records, post, local, answer, faults>>

isFree(k) == records[k] = NoRecord

\* insert into idempotency_records ... on conflict do nothing; then the answer.
InsertRecord(c) ==
  LET k == post[c].key
      id == local[c].lead
  IN  /\ pc[c] = "record"
      /\ records' = IF isFree(k)
                    THEN [records EXCEPT ![k] = [lead |-> id, payload |-> post[c].payload]]
                    ELSE records
      /\ Reply(c, "created", id)
      /\ UNCHANGED <<leads, deliveries, post, local, faults>>

\* The function instance dies, or the response is lost on its way.
Dies(c) ==
  /\ faults < MaxFaults
  /\ pc[c] # "done" \/ answer[c].status \in {"created", "replayed"}
  /\ Reply(c, "lost", 0)
  /\ faults' = faults + 1
  /\ UNCHANGED <<leads, deliveries, records, post, local>>

Retry(c) ==
  /\ pc[c] = "done" /\ answer[c].status \in {"error", "lost"}
  /\ answer' = [answer EXCEPT ![c] = NoAnswer]
  /\ Goto(c, "lookup")
  /\ UNCHANGED <<leads, deliveries, records, post, local, faults>>

Answered(c) == pc[c] = "done" /\ answer[c].status \notin {"error", "lost"}
Terminating == (\A c \in Clients : Answered(c)) /\ UNCHANGED vars

Request(c) ==
  \/ Lookup(c)
  \/ Dedup(c, "email", "phone") \/ Dedup(c, "phone", "external") \/ Dedup(c, "external", "lead")
  \/ InsertLead(c) \/ InsertDelivery(c) \/ Process(c) \/ InsertRecord(c)

Next ==
  \/ \E c \in Clients : Request(c) \/ Dies(c) \/ Retry(c)
  \/ Terminating

Spec == Init /\ [][Next]_vars
-----------------------------------------------------------------------------
(***************************************************************************)
(* Properties.                                                             *)
(***************************************************************************)
\* A lead whose delivery is missing or unprocessed has its request at work, or
\* the request has died: no other request stops halfway, and none takes over.
OrphansOfTheDead ==
  LET open(i) == deliveries[i] # "processed"
      orphans == {i \in DOMAIN leads : open(i) /\ \A c \in Clients :
                    ~(pc[c] \in {"delivery", "process"} /\ local[c].lead = i)}
  IN  /\ Cardinality(orphans) <= faults
      /\ \A c \in Clients : answer[c].status \in {"created", "replayed"} =>
           ~open(answer[c].lead)

\* A client that is told 201 or 200 has a lead with its key and its payload;
\* it is told 409 only when its key belongs to another payload.
AnswersTruthful ==
  \A c \in Clients :
    /\ answer[c].status \in {"created", "replayed"} =>
         /\ answer[c].lead \in DOMAIN leads
         /\ leads[answer[c].lead].key = post[c].key
         /\ leads[answer[c].lead].payload = post[c].payload
    /\ answer[c].status = "conflict" =>
         \E i \in DOMAIN leads : leads[i].key = post[c].key /\ leads[i].payload # post[c].payload

\* README: "Replaying the same idempotency key and payload returns the original
\* response": a request whose key and payload have a lead is not answered 500.
ReplayReturnsOriginal ==
  \A c \in Clients : pc[c] = "done" /\ local[c].replay => answer[c].status # "error"
=============================================================================
