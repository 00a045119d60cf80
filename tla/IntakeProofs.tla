---------------------------- MODULE IntakeProofs ----------------------------
(***************************************************************************)
(* Theorems about Intake, for any clients, keys, payloads and faults: one  *)
(* lead per idempotency key, public ids that no two leads share and that   *)
(* leave no gap, answers that tell a client the truth, handovers that are  *)
(* accounted for, and errors that only races explain.                      *)
(***************************************************************************)
EXTENDS Intake, FiniteSetTheorems, TLAPS

\* What a transaction keeps; when a lead was born does not matter here.
Local(l) == DOMAIN l = {"duplicate_of", "born", "ids", "before"} /\ l.ids \in [Kinds -> Nat]
Labels == {"lookup", "dedup", "get_lead", "set_lead", "get_delivery", "set_delivery",
           "deliver", "commit", "done"}

Types ==
  /\ DOMAIN records = Keys
  /\ counters \in [Kinds -> Nat]
  /\ post \in [Clients -> [key : Keys \cup {None}, payload : Payloads]]
  /\ pc \in [Clients -> Labels]
  /\ DOMAIN local = Clients /\ \A c \in Clients : Local(local[c])
  /\ DOMAIN answer = Clients

(***************************************************************************)
(* The inductive invariant.  A request that has drawn a number holds a     *)
(* positive one; from its update of the lead counter to its end it is the  *)
(* only one there, so that numbers which were free at its flush still are  *)
(* when it commits.                                                        *)
(***************************************************************************)
Place(c) ==
  LET ids == local[c].ids
  IN  /\ pc[c] \in {"set_lead", "get_delivery", "set_delivery", "deliver", "commit"} => ids["lead"] > 0
      /\ pc[c] \in {"deliver", "commit"} => IdFree("lead", ids["lead"])
      /\ pc[c] = "commit" => IdFree("delivery", ids["delivery"])
Placed == \A c \in Clients : Place(c)

OneAhead == \A c, d \in Clients : Updated(c, "lead") /\ Updated(d, "lead") => c = d

LeadsNumbered == \A l \in leads : l.ids["lead"] > 0

\* A key's record and its lead come together.
RecordsMatch ==
  \A k \in Keys :
    /\ \A l \in leads : l.key = k => records[k] = [lead |-> l.ids["lead"], payload |-> l.payload]
    /\ \A l, m \in leads : l.key = k /\ m.key = k => l = m
    /\ records[k] # NoRecord => \E l \in leads : l.key = k

\* No two stored leads share the number of a lead or of its delivery: the
\* counters are read unlocked, and locks and unique indexes make up for it.
PublicIdsUnique ==
  \A l, m \in leads : \A kind \in Kinds : l.ids[kind] = m.ids[kind] => l = m

IInv == /\ Types /\ Placed /\ OneAhead /\ LeadsNumbered /\ RecordsMatch
        /\ PublicIdsUnique /\ AnswersTruthful
-----------------------------------------------------------------------------
\* Nothing is stored and nobody is answered at first.
LEMMA InitInv == Init => IInv
<1> SUFFICES ASSUME Init PROVE IInv
  OBVIOUS
<1>1. Types
  BY DEF Init, Types, Local, NoLocal, Labels, Kinds
<1>2. Placed /\ OneAhead
  BY DEF Init, Placed, Place, OneAhead, Updated
<1>3. LeadsNumbered /\ RecordsMatch /\ PublicIdsUnique
  BY DEF Init, LeadsNumbered, RecordsMatch, PublicIdsUnique
<1>4. AnswersTruthful
  BY DEF Init, AnswersTruthful, NoAnswer
<1>5. QED
  BY <1>1, <1>2, <1>3, <1>4 DEF IInv

\* A record of a key is that of its lead.
LEMMA RecordOfLead ==
  ASSUME IInv, NEW k \in Keys, records[k] # NoRecord
  PROVE  \E l \in leads : /\ l.key = k
                          /\ records[k] = [lead |-> l.ids["lead"], payload |-> l.payload]
  BY DEF IInv, RecordsMatch

\* A step that stores nothing keeps the invariant if it keeps the transaction
\* in shape, if whoever goes ahead or passes a check is entitled to, and if its
\* answer is true.
LEMMA QuietKeeps ==
  ASSUME IInv, NEW c \in Clients, NEW label \in Labels,
         UNCHANGED <<leads, records, counters, post>>,
         pc' = [pc EXCEPT ![c] = label],
         DOMAIN local' = Clients, \A d \in Clients : d # c => local'[d] = local[d],
         Local(local'[c]),
         DOMAIN answer' = Clients, \A d \in Clients : d # c => answer'[d] = answer[d],
         Place(c)',
         label \in {"get_delivery", "set_delivery", "deliver", "commit"} =>
           \A d \in Clients \ {c} : ~Updated(d, "lead"),
         answer'[c].status \in {"created", "replayed"} =>
           \E l \in leads : /\ l.ids["lead"] = answer'[c].lead
                            /\ l.payload = post[c].payload /\ l.key = post[c].key,
         answer'[c].status = "conflict" =>
           \E l \in leads : l.key = post[c].key /\ l.payload # post[c].payload
  PROVE  IInv'
<1>1. pc' \in [Clients -> Labels] /\ pc'[c] = label /\ \A d \in Clients : d # c => pc'[d] = pc[d]
  BY DEF IInv, Types
<1>2. Types'
  <2>1. \A d \in Clients : Local(local'[d])
    BY DEF IInv, Types
  <2>2. QED
    BY <1>1, <2>1 DEF IInv, Types, Local
<1>3. Placed'
  BY <1>1 DEF IInv, Placed, Place, IdFree
<1>4. OneAhead'
  BY <1>1 DEF IInv, OneAhead, Updated
<1>5. (LeadsNumbered /\ RecordsMatch /\ PublicIdsUnique)'
  BY DEF IInv, LeadsNumbered, RecordsMatch, PublicIdsUnique
<1>6. AnswersTruthful'
  BY DEF IInv, AnswersTruthful
<1>7. QED
  BY <1>2, <1>3, <1>4, <1>5, <1>6 DEF IInv
-----------------------------------------------------------------------------
(***************************************************************************)
(* Each action keeps the invariant.                                        *)
(***************************************************************************)

\* A replay or a refusal tells of the record's lead.
LEMMA LookupKeeps ==
  ASSUME IInv, NEW c \in Clients, Lookup(c)
  PROVE  IInv'
<1> DEFINE fresh == [NoLocal EXCEPT !.before = {l.born : l \in leads}]
           k == post[c].key
<1>1. /\ local' = [local EXCEPT ![c] = fresh]
      /\ UNCHANGED <<leads, records, counters, post>>
  BY DEF Lookup
<1>2. Local(fresh)
  BY DEF Local, NoLocal, Kinds
<1> HIDE DEF fresh
<1>3. /\ DOMAIN local' = Clients /\ Local(local'[c])
      /\ \A d \in Clients : d # c => local'[d] = local[d]
  BY <1>1, <1>2 DEF IInv, Types
<1>4. CASE k # None /\ records[k] # NoRecord /\ SamePayload(c) /\ Reply(c, "replayed", records[k].lead)
  <2>1. /\ pc' = [pc EXCEPT ![c] = "done"]
        /\ answer' = [answer EXCEPT ![c] = [status |-> "replayed", lead |-> records[k].lead]]
    BY <1>4 DEF Reply, Goto
  <2>2. k \in Keys
    BY <1>4 DEF IInv, Types
  <2>3. PICK l \in leads : l.key = k /\ records[k] = [lead |-> l.ids["lead"], payload |-> l.payload]
    BY <1>4, <2>2, RecordOfLead
  <2>4. l.payload = post[c].payload /\ l.ids["lead"] = answer'[c].lead /\ l.key = post[c].key
    BY <1>4, <2>1, <2>3 DEF IInv, Types, SamePayload
  <2>5. Place(c)'
    BY <2>1 DEF IInv, Types, Place
  <2>6. QED
    BY <1>1, <1>3, <2>1, <2>4, <2>5, QuietKeeps DEF IInv, Types, Labels
<1>5. CASE k # None /\ records[k] # NoRecord /\ ~SamePayload(c) /\ Reply(c, "conflict", 0)
  <2>1. /\ pc' = [pc EXCEPT ![c] = "done"]
        /\ answer' = [answer EXCEPT ![c] = [status |-> "conflict", lead |-> 0]]
    BY <1>5 DEF Reply, Goto
  <2>2. k \in Keys
    BY <1>5 DEF IInv, Types
  <2>3. PICK l \in leads : l.key = k /\ records[k] = [lead |-> l.ids["lead"], payload |-> l.payload]
    BY <1>5, <2>2, RecordOfLead
  <2>4. l.payload # post[c].payload /\ l.key = post[c].key
    BY <1>5, <2>3 DEF SamePayload
  <2>5. Place(c)'
    BY <2>1 DEF IInv, Types, Place
  <2>6. QED
    BY <1>1, <1>3, <2>1, <2>4, <2>5, QuietKeeps DEF IInv, Types, Labels
<1>6. CASE Reply(c, "invalid", 0)
  <2>1. /\ pc' = [pc EXCEPT ![c] = "done"]
        /\ answer' = [answer EXCEPT ![c] = [status |-> "invalid", lead |-> 0]]
    BY <1>6 DEF Reply, Goto
  <2>2. Place(c)'
    BY <2>1 DEF IInv, Types, Place
  <2>3. QED
    BY <1>1, <1>3, <2>1, <2>2, QuietKeeps DEF IInv, Types, Labels
<1>7. CASE pc[c] = "lookup" /\ Goto(c, "dedup") /\ UNCHANGED answer
  <2>1. Place(c)'
    BY <1>7 DEF IInv, Types, Place, Goto
  <2>2. QED
    BY <1>1, <1>3, <1>7, <2>1, QuietKeeps DEF IInv, Types, Labels, Goto, AnswersTruthful
<1>8. QED
  BY <1>4, <1>5, <1>6, <1>7 DEF Lookup

\* The time and the duplicate are noted.
LEMMA DedupKeeps ==
  ASSUME IInv, NEW c \in Clients, Dedup(c)
  PROVE  IInv'
<1>1. PICK n, t : local' = [local EXCEPT ![c].duplicate_of = n, ![c].born = t]
  BY DEF Dedup
<1>2. /\ DOMAIN local' = Clients /\ Local(local'[c])
      /\ \A d \in Clients : d # c => local'[d] = local[d]
  BY <1>1 DEF IInv, Types, Local
<1>3. pc' = [pc EXCEPT ![c] = "get_lead"] /\ UNCHANGED <<leads, records, counters, post, answer>>
  BY DEF Dedup, Goto
<1>4. Place(c)'
  BY <1>3 DEF IInv, Types, Place
<1>5. QED
  BY <1>2, <1>3, <1>4, QuietKeeps DEF IInv, Types, Labels, AnswersTruthful

\* A number is drawn: one more than the counter that is read.
LEMMA GetCounterKeeps ==
  ASSUME IInv, NEW c \in Clients,
         \/ GetCounter(c, "lead", "get_lead", "set_lead")
         \/ GetCounter(c, "delivery", "get_delivery", "set_delivery")
  PROVE  IInv'
<1>1. PICK kind \in Kinds :
        /\ local' = [local EXCEPT ![c].ids[kind] = counters[kind] + 1]
        /\ kind = "lead" => pc[c] = "get_lead" /\ pc' = [pc EXCEPT ![c] = "set_lead"]
        /\ kind = "delivery" => pc[c] = "get_delivery" /\ pc' = [pc EXCEPT ![c] = "set_delivery"]
  BY DEF GetCounter, Goto, next_value, Kinds
<1>2. UNCHANGED <<leads, records, counters, post, answer>>
  BY DEF GetCounter
<1>3. counters[kind] + 1 \in Nat /\ counters[kind] + 1 > 0
  BY DEF IInv, Types
<1>4. /\ DOMAIN local' = Clients
      /\ \A d \in Clients : d # c => local'[d] = local[d]
      /\ local'[c] = [local[c] EXCEPT !.ids = [local[c].ids EXCEPT ![kind] = counters[kind] + 1]]
  BY <1>1 DEF IInv, Types
<1>5. local'[c].ids = [local[c].ids EXCEPT ![kind] = counters[kind] + 1] /\ Local(local'[c])
  BY <1>3, <1>4 DEF IInv, Types, Local
<1>6. local'[c].ids["lead"] > 0
  <2>1. CASE kind = "lead"
    BY <1>3, <1>5, <2>1 DEF IInv, Types, Local, Kinds
  <2>2. CASE kind = "delivery"
    BY <1>1, <1>5, <2>2 DEF IInv, Types, Local, Kinds, Placed, Place
  <2>3. QED
    BY <2>1, <2>2 DEF Kinds
<1>7. Place(c)'
  BY <1>1, <1>6 DEF IInv, Types, Place, Kinds
<1>8. kind = "delivery" => \A d \in Clients \ {c} : ~Updated(d, "lead")
  BY <1>1 DEF IInv, OneAhead, Updated
<1>9. QED
  BY <1>1, <1>2, <1>4, <1>5, <1>7, <1>8, QuietKeeps DEF IInv, Types, Labels, Kinds, AnswersTruthful

\* A transaction that is rolled back leaves nothing.
LEMMA AbortKeeps ==
  ASSUME IInv, NEW c \in Clients, Abort(c)
  PROVE  IInv'
<1>1. /\ pc' = [pc EXCEPT ![c] = "done"]
      /\ answer' = [answer EXCEPT ![c] = [status |-> "error", lead |-> 0]]
      /\ local' = [local EXCEPT ![c] = [NoLocal EXCEPT !.before = local[c].before]]
      /\ UNCHANGED <<leads, records, counters, post>>
  BY DEF Abort, Reply, Goto
<1>2. Local([NoLocal EXCEPT !.before = local[c].before])
  BY DEF Local, NoLocal, Kinds
<1>3. Place(c)'
  BY <1>1 DEF IInv, Types, Place
<1>4. QED
  BY <1>1, <1>2, <1>3, QuietKeeps DEF IInv, Types, Labels

\* The lead counter is updated when no other transaction has it locked.
LEMMA SetLeadCounterKeeps ==
  ASSUME IInv, NEW c \in Clients, SetLeadCounter(c)
  PROVE  IInv'
<1>1. /\ pc[c] = "set_lead" /\ pc' = [pc EXCEPT ![c] = "get_delivery"]
      /\ UNCHANGED <<leads, records, counters, post, local, answer>>
      /\ \A d \in Clients \ {c} : ~Updated(d, "lead")
  BY DEF SetLeadCounter, Goto, Unlocked
<1>2. Place(c)'
  BY <1>1 DEF IInv, Types, Placed, Place
<1>3. QED
  BY <1>1, <1>2, QuietKeeps DEF IInv, Types, Labels, AnswersTruthful

\* The lead is flushed with a number that is free.
LEMMA SetDeliveryCounterKeeps ==
  ASSUME IInv, NEW c \in Clients, SetDeliveryCounter(c)
  PROVE  IInv'
<1>1. CASE IdFree("lead", local[c].ids["lead"]) /\ Goto(c, "deliver")
           /\ UNCHANGED <<leads, records, counters, post, local, answer>>
  <2>1. pc[c] = "set_delivery" /\ pc' = [pc EXCEPT ![c] = "deliver"]
    BY <1>1 DEF SetDeliveryCounter, Goto
  <2>2. Place(c)'
    BY <1>1, <2>1 DEF IInv, Types, Placed, Place, IdFree
  <2>3. \A d \in Clients \ {c} : ~Updated(d, "lead")
    BY <2>1 DEF IInv, OneAhead, Updated
  <2>4. QED
    BY <1>1, <2>1, <2>2, <2>3, QuietKeeps DEF IInv, Types, Labels, AnswersTruthful
<1>2. CASE Abort(c)
  BY <1>2, AbortKeeps
<1>3. QED
  BY <1>1, <1>2 DEF SetDeliveryCounter

\* The delivery is flushed with a number that is free.
LEMMA DeliverKeeps ==
  ASSUME IInv, NEW c \in Clients, Deliver(c)
  PROVE  IInv'
<1>1. CASE IdFree("delivery", local[c].ids["delivery"]) /\ Goto(c, "commit")
           /\ UNCHANGED <<leads, records, counters, post, local, answer>>
  <2>1. pc[c] = "deliver" /\ pc' = [pc EXCEPT ![c] = "commit"]
    BY <1>1 DEF Deliver, Goto
  <2>2. Place(c)'
    BY <1>1, <2>1 DEF IInv, Types, Placed, Place, IdFree
  <2>3. \A d \in Clients \ {c} : ~Updated(d, "lead")
    BY <2>1 DEF IInv, OneAhead, Updated
  <2>4. QED
    BY <1>1, <2>1, <2>2, <2>3, QuietKeeps DEF IInv, Types, Labels, AnswersTruthful
<1>2. CASE Abort(c)
  BY <1>2, AbortKeeps
<1>3. QED
  BY <1>1, <1>2 DEF Deliver

\* A client without an answer begins again.
LEMMA SendAgainKeeps ==
  ASSUME IInv, NEW c \in Clients, SendAgain(c)
  PROVE  IInv'
<1>1. /\ pc' = [pc EXCEPT ![c] = "lookup"]
      /\ answer' = [answer EXCEPT ![c] = NoAnswer]
      /\ UNCHANGED <<leads, records, counters, post, local>>
  BY DEF SendAgain, Goto
<1>2. Place(c)'
  BY <1>1 DEF IInv, Types, Place
<1>3. QED
  BY <1>1, <1>2, QuietKeeps DEF IInv, Types, Labels, NoAnswer

\* A commit that finds its key free stores a lead whose numbers are still free,
\* and the key's record with it.
LEMMA CommitKeeps ==
  ASSUME IInv, NEW c \in Clients, Commit(c)
  PROVE  IInv'
<1> DEFINE k == post[c].key
           ids == local[c].ids
           lead == [born |-> local[c].born, ids |-> ids, key |-> k,
                    payload |-> post[c].payload, duplicate_of |-> local[c].duplicate_of]
           record == [lead |-> ids["lead"], payload |-> post[c].payload]
<1>1. CASE Abort(c)
  BY <1>1, AbortKeeps
<1>2. CASE ~Abort(c)
  <2>1. /\ pc[c] = "commit" /\ KeyFree(k)
        /\ leads' = leads \cup {lead} /\ counters' = ids
        /\ records' = IF k = None THEN records ELSE [records EXCEPT ![k] = record]
        /\ pc' = [pc EXCEPT ![c] = "done"]
        /\ answer' = [answer EXCEPT ![c] = [status |-> "created", lead |-> ids["lead"]]]
        /\ UNCHANGED <<post, local>>
    BY <1>2 DEF Commit, Reply, Goto
  <2>2. /\ ids \in [Kinds -> Nat] /\ ids["lead"] > 0
        /\ IdFree("lead", ids["lead"]) /\ IdFree("delivery", ids["delivery"])
    BY <2>1 DEF IInv, Types, Local, Placed, Place
  <2>3. lead.ids = ids /\ lead.key = k /\ lead.payload = post[c].payload
    OBVIOUS
  <2>4. k \in Keys \cup {None} /\ (k # None => k \in Keys /\ records[k] = NoRecord)
    BY <2>1 DEF IInv, Types, KeyFree
  <2>5. k # None => \A l \in leads : l.key # k
    <3> SUFFICES ASSUME k # None, NEW l \in leads, l.key = k PROVE FALSE
      OBVIOUS
    <3>1. records[k] = [lead |-> l.ids["lead"], payload |-> l.payload] /\ l.ids["lead"] > 0
      BY <2>4 DEF IInv, RecordsMatch, LeadsNumbered
    <3>2. records[k].lead = 0
      BY <2>4 DEF NoRecord
    <3>3. QED
      BY <3>1, <3>2
  <2> HIDE DEF lead, k, ids
  <2>6. Types'
    BY <2>1, <2>2 DEF IInv, Types, Labels
  <2>7. \A d \in Clients : d # c => pc'[d] = pc[d] /\ answer'[d] = answer[d]
    BY <2>1 DEF IInv, Types
  <2>8. pc'[c] = "done" /\ answer'[c] = [status |-> "created", lead |-> ids["lead"]]
    BY <2>1 DEF IInv, Types
  <2>9. OneAhead'
    BY <2>7, <2>8 DEF IInv, OneAhead, Updated
  <2>10. Placed'
    <3> SUFFICES ASSUME NEW d \in Clients, d # c PROVE Place(d)'
      BY <2>8 DEF Placed, Place
    <3>1. pc[d] \notin {"get_delivery", "set_delivery", "deliver", "commit"}
      BY <2>1 DEF IInv, OneAhead, Updated
    <3>2. QED
      BY <2>1, <2>7, <3>1 DEF IInv, Placed, Place
  <2>11. LeadsNumbered'
    BY <2>1, <2>2, <2>3 DEF IInv, LeadsNumbered
  <2>12. PublicIdsUnique'
    BY <2>1, <2>2, <2>3 DEF IInv, PublicIdsUnique, IdFree, Kinds
  <2>13. RecordsMatch'
    <3> SUFFICES ASSUME NEW j \in Keys
                 PROVE  /\ \A l \in leads' : l.key = j =>
                             records'[j] = [lead |-> l.ids["lead"], payload |-> l.payload]
                        /\ \A l, m \in leads' : l.key = j /\ m.key = j => l = m
                        /\ records'[j] # NoRecord => \E l \in leads' : l.key = j
      BY DEF RecordsMatch
    <3>1. CASE j = k
      <4>1. j # None /\ records'[j] = record
        BY <2>1, <2>4, <3>1, ClientAssumption DEF IInv, Types
      <4>2. \A l \in leads' : l.key = j => l = lead
        BY <2>1, <2>5, <3>1, <4>1
      <4>3. QED
        BY <2>1, <2>3, <3>1, <4>1, <4>2
    <3>2. CASE j # k
      <4>1. records'[j] = records[j]
        BY <2>1, <3>2 DEF IInv, Types
      <4>2. \A l \in leads' : l.key = j => l \in leads
        BY <2>1, <2>3, <3>2
      <4>3. leads \subseteq leads'
        BY <2>1
      <4>4. QED
        BY <4>1, <4>2, <4>3 DEF IInv, RecordsMatch
    <3>3. QED
      BY <3>1, <3>2
  <2>14. AnswersTruthful'
    <3>1. leads \subseteq leads' /\ lead \in leads' /\ post' = post
      BY <2>1
    <3>2. \A d \in Clients : d # c =>
            /\ answer'[d].status \in {"created", "replayed"} =>
                 \E l \in leads' : /\ l.ids["lead"] = answer'[d].lead
                                   /\ l.payload = post[d].payload /\ l.key = post[d].key
            /\ answer'[d].status = "conflict" =>
                 \E l \in leads' : l.key = post[d].key /\ l.payload # post[d].payload
      BY <2>7, <3>1 DEF IInv, AnswersTruthful
    <3>3. QED
      BY <2>3, <2>8, <3>1, <3>2 DEF AnswersTruthful, k
  <2>15. QED
    BY <2>6, <2>9, <2>10, <2>11, <2>12, <2>13, <2>14 DEF IInv
<1>3. QED
  BY <1>1, <1>2
-----------------------------------------------------------------------------
\* No step of any request, client or fault breaks the invariant.
LEMMA StepKeeps ==
  ASSUME IInv, [Next]_vars
  PROVE  IInv'
<1>1. CASE UNCHANGED vars
  BY <1>1 DEF vars, IInv, Types, Placed, Place, IdFree, OneAhead, Updated, LeadsNumbered,
              RecordsMatch, PublicIdsUnique, AnswersTruthful
<1>2. ASSUME NEW c \in Clients, Request(c) PROVE IInv'
  BY <1>2, LookupKeeps, DedupKeeps, GetCounterKeeps, SetLeadCounterKeeps, SetDeliveryCounterKeeps,
     DeliverKeeps, CommitKeeps DEF Request
<1>3. ASSUME NEW c \in Clients, RequestFails(c) \/ Retry(c) \/ LoseAnswer(c) PROVE IInv'
  BY <1>3, AbortKeeps, SendAgainKeeps DEF RequestFails, Retry, LoseAnswer
<1>4. QED
  BY <1>1, <1>2, <1>3 DEF Next, Terminating

\* The inductive invariant.
THEOREM IntakeInvariance == Spec => []IInv
  BY InitInv, StepKeeps, PTL DEF Spec

\* However often and however concurrently a key is posted, it has one lead,
\* and its record names that lead and the payload it came with.
THEOREM OneLeadForKey == Spec => []OneLeadPerKey
<1>1. IInv => OneLeadPerKey
  <2> SUFFICES ASSUME IInv, NEW k \in Keys
               PROVE  LET mine == {l \in leads : l.key = k}
                      IN  /\ Cardinality(mine) <= 1
                          /\ \A l \in mine : records[k] = [lead |-> l.ids["lead"], payload |-> l.payload]
    BY DEF OneLeadPerKey
  <2> DEFINE mine == {l \in leads : l.key = k}
  <2>1. Cardinality(mine) <= 1
    <3>1. CASE mine = {}
      BY <3>1, FS_EmptySet
    <3>2. CASE mine # {}
      <4>1. PICK l \in mine : TRUE
        BY <3>2
      <4>2. \A m \in mine : m = l
        BY <4>1 DEF IInv, RecordsMatch
      <4>3. mine = {l}
        BY <4>1, <4>2
      <4>4. Cardinality({l}) = 1
        BY FS_Singleton
      <4>5. QED
        BY <4>3, <4>4
    <3>3. QED
      BY <3>1, <3>2
  <2>2. \A l \in mine : records[k] = [lead |-> l.ids["lead"], payload |-> l.payload]
    BY DEF IInv, RecordsMatch
  <2>3. QED
    BY <2>1, <2>2
<1>2. QED
  BY <1>1, IntakeInvariance, PTL

\* No two leads share a public id, and no two deliveries do.
THEOREM PublicIds == Spec => []PublicIdsUnique
<1>1. IInv => PublicIdsUnique
  BY DEF IInv
<1>2. QED
  BY <1>1, IntakeInvariance, PTL

\* A client told 201 or 200 has its lead stored under its key; 409 means that
\* the key belongs to another payload.
THEOREM AnswersTrue == Spec => []AnswersTruthful
<1>1. IInv => AnswersTruthful
  BY DEF IInv
<1>2. QED
  BY <1>1, IntakeInvariance, PTL
-----------------------------------------------------------------------------
(***************************************************************************)
(* Handovers.  A request that stands before its commit has handed its lead *)
(* to the CRM or the broker; it stores that lead, or takes the handover    *)
(* back, as it leaves.                                                     *)
(***************************************************************************)
Mine(k) == {l \in leads : l.key = k}
Committers(k) == {c \in Clients : pc[c] = "commit" /\ post[c].key = k}
Commits(c, k) == IF pc[c] = "commit" /\ post[c].key = k THEN 1 ELSE 0
HandInv ==
  /\ hist \in [Keys -> [handed : Nat, undone : Nat]]
  /\ HandoversAccounted

\* The requests about to commit change by the one that moves.
LEMMA CommittersShift ==
  ASSUME NEW c \in Clients, NEW k \in Keys, post' = post,
         \A d \in Clients \ {c} : pc'[d] = pc[d]
  PROVE  /\ Cardinality(Committers(k)) \in Nat /\ Cardinality(Committers(k)') \in Nat
         /\ Cardinality(Committers(k)') + Commits(c, k) = Cardinality(Committers(k)) + Commits(c, k)'
<1> DEFINE others == {d \in Clients \ {c} : pc[d] = "commit" /\ post[d].key = k}
<1>1. IsFiniteSet(others)
  BY ClientAssumption, FS_Subset
<1>2. /\ Committers(k) = IF Commits(c, k) = 1 THEN others \cup {c} ELSE others
      /\ Committers(k)' = IF Commits(c, k)' = 1 THEN others \cup {c} ELSE others
  BY DEF Committers, Commits
<1>3. Cardinality(others) \in Nat /\ Cardinality(others \cup {c}) = Cardinality(others) + 1
  BY <1>1, FS_CardinalityType, FS_AddElement
<1>4. Commits(c, k) \in {0, 1} /\ Commits(c, k)' \in {0, 1}
  BY DEF Commits
<1> HIDE DEF others
<1>5. /\ Cardinality(Committers(k)) = Cardinality(others) + Commits(c, k)
      /\ Cardinality(Committers(k)') = Cardinality(others) + Commits(c, k)'
  BY <1>2, <1>3, <1>4
<1>6. QED
  BY <1>3, <1>4, <1>5

\* The leads of a key are one or none.
LEMMA MineCounted ==
  ASSUME IInv, NEW k \in Keys
  PROVE  IsFiniteSet(Mine(k)) /\ Cardinality(Mine(k)) \in Nat
<1>1. CASE Mine(k) = {}
  BY <1>1, FS_EmptySet
<1>2. CASE Mine(k) # {}
  <2>1. PICK l \in Mine(k) : Mine(k) = {l}
    BY <1>2 DEF Mine, IInv, RecordsMatch
  <2>2. IsFiniteSet({l}) /\ Cardinality({l}) = 1
    BY FS_Singleton
  <2>3. QED
    BY <2>1, <2>2
<1>3. QED
  BY <1>1, <1>2

\* A step of c that leaves the leads alone and accounts for its place.
LEMMA HandFrame ==
  ASSUME IInv, HandInv, NEW c \in Clients, post' = post, leads' = leads,
         \A d \in Clients \ {c} : pc'[d] = pc[d],
         hist' \in [Keys -> [handed : Nat, undone : Nat]],
         \A k \in Keys : hist'[k].handed + hist[k].undone + Commits(c, k)
                           = hist[k].handed + hist'[k].undone + Commits(c, k)'
  PROVE  HandInv'
<1> SUFFICES ASSUME NEW k \in Keys
             PROVE  hist'[k].handed = hist'[k].undone + Cardinality(Mine(k))
                                      + Cardinality(Committers(k)')
  BY DEF HandInv, HandoversAccounted, Mine, Committers
<1>1. /\ hist[k].handed \in Nat /\ hist[k].undone \in Nat
      /\ hist'[k].handed \in Nat /\ hist'[k].undone \in Nat
      /\ Commits(c, k) \in Nat /\ Commits(c, k)' \in Nat
  BY DEF HandInv, Commits
<1>2. hist[k].handed = hist[k].undone + Cardinality(Mine(k)) + Cardinality(Committers(k))
  BY DEF HandInv, HandoversAccounted, Mine, Committers
<1>3. /\ Cardinality(Committers(k)) \in Nat /\ Cardinality(Committers(k)') \in Nat
      /\ Cardinality(Committers(k)') + Commits(c, k) = Cardinality(Committers(k)) + Commits(c, k)'
  BY CommittersShift
<1>4. QED
  BY <1>1, <1>2, <1>3, MineCounted

\* Away from the commit nothing is handed over or taken back.
LEMMA HandQuiet ==
  ASSUME IInv, HandInv, NEW c \in Clients, post' = post, leads' = leads, hist' = hist,
         pc[c] # "commit", NEW label, label # "commit", pc' = [pc EXCEPT ![c] = label]
  PROVE  HandInv'
<1>1. pc'[c] # "commit" /\ \A d \in Clients \ {c} : pc'[d] = pc[d]
  BY DEF IInv, Types
<1>2. \A k \in Keys : Commits(c, k) = 0 /\ Commits(c, k)' = 0
  BY <1>1 DEF Commits
<1>3. \A k \in Keys : hist[k].handed \in Nat /\ hist[k].undone \in Nat
  BY DEF HandInv
<1>4. QED
  BY <1>1, <1>2, <1>3, HandFrame DEF HandInv

\* A request that fails before its commit takes its handover back.
LEMMA HandAbort ==
  ASSUME IInv, HandInv, NEW c \in Clients, Abort(c)
  PROVE  HandInv'
<1> DEFINE k == post[c].key
<1>1. /\ pc' = [pc EXCEPT ![c] = "done"] /\ post' = post /\ leads' = leads
      /\ hist' = IF k # None /\ pc[c] = "commit"
                 THEN [hist EXCEPT ![k].undone = @ + 1] ELSE hist
  BY DEF Abort, Reply, Goto
<1>2. CASE pc[c] # "commit"
  BY <1>1, <1>2, HandQuiet
<1>3. CASE pc[c] = "commit"
  <2>1. pc'[c] = "done" /\ \A d \in Clients \ {c} : pc'[d] = pc[d]
    BY <1>1 DEF IInv, Types
  <2>2. \A j \in Keys : hist[j] \in [handed : Nat, undone : Nat]
    BY DEF HandInv
  <2>3. hist' \in [Keys -> [handed : Nat, undone : Nat]]
    <3>1. CASE k = None
      BY <1>1, <3>1 DEF HandInv
    <3>2. CASE k # None
      <4>1. k \in Keys
        BY <3>2 DEF IInv, Types
      <4>2. [hist[k] EXCEPT !.undone = @ + 1] \in [handed : Nat, undone : Nat]
        BY <2>2, <4>1
      <4>3. hist' = [hist EXCEPT ![k] = [hist[k] EXCEPT !.undone = @ + 1]]
        BY <1>1, <1>3, <3>2
      <4>4. QED
        BY <4>1, <4>2, <4>3 DEF HandInv
    <3>3. QED
      BY <3>1, <3>2
  <2>4. ASSUME NEW j \in Keys
        PROVE  hist'[j].handed + hist[j].undone + Commits(c, j)
                 = hist[j].handed + hist'[j].undone + Commits(c, j)'
    <3>1. Commits(c, j)' = 0
      BY <2>1 DEF Commits
    <3>2. CASE j = k
      <4>1. /\ Commits(c, j) = 1
            /\ hist'[j].handed = hist[j].handed /\ hist'[j].undone = hist[j].undone + 1
        BY <1>1, <1>3, <2>2, <3>2, ClientAssumption DEF HandInv, Commits
      <4>2. QED
        BY <2>2, <3>1, <4>1
    <3>3. CASE j # k
      <4>1. Commits(c, j) = 0 /\ hist'[j] = hist[j]
        BY <1>1, <3>3 DEF HandInv, Commits
      <4>2. QED
        BY <2>2, <3>1, <4>1
    <3>4. QED
      BY <3>2, <3>3
  <2>5. QED
    BY <1>1, <2>1, <2>3, <2>4, HandFrame
<1>4. QED
  BY <1>2, <1>3

\* The handover, and then the wait for the commit.
LEMMA HandDeliver ==
  ASSUME IInv, HandInv, NEW c \in Clients, Deliver(c)
  PROVE  HandInv'
<1> DEFINE k == post[c].key
<1>1. CASE Abort(c)
  BY <1>1, HandAbort
<1>2. CASE ~Abort(c)
  <2>1. /\ pc[c] = "deliver" /\ pc' = [pc EXCEPT ![c] = "commit"]
        /\ post' = post /\ leads' = leads
        /\ hist' = IF k = None THEN hist ELSE [hist EXCEPT ![k].handed = @ + 1]
    BY <1>2 DEF Deliver, Goto
  <2>2. pc'[c] = "commit" /\ \A d \in Clients \ {c} : pc'[d] = pc[d]
    BY <2>1 DEF IInv, Types
  <2>3. \A j \in Keys : hist[j] \in [handed : Nat, undone : Nat]
    BY DEF HandInv
  <2>4. hist' \in [Keys -> [handed : Nat, undone : Nat]]
    <3>1. CASE k = None
      BY <2>1, <3>1 DEF HandInv
    <3>2. CASE k # None
      <4>1. k \in Keys
        BY <3>2 DEF IInv, Types
      <4>2. [hist[k] EXCEPT !.handed = @ + 1] \in [handed : Nat, undone : Nat]
        BY <2>3, <4>1
      <4>3. hist' = [hist EXCEPT ![k] = [hist[k] EXCEPT !.handed = @ + 1]]
        BY <2>1, <3>2
      <4>4. QED
        BY <4>1, <4>2, <4>3 DEF HandInv
    <3>3. QED
      BY <3>1, <3>2
  <2>5. ASSUME NEW j \in Keys
        PROVE  hist'[j].handed + hist[j].undone + Commits(c, j)
                 = hist[j].handed + hist'[j].undone + Commits(c, j)'
    <3>1. Commits(c, j) = 0
      BY <2>1 DEF Commits
    <3>2. CASE j = k
      <4>1. /\ Commits(c, j)' = 1
            /\ hist'[j].handed = hist[j].handed + 1 /\ hist'[j].undone = hist[j].undone
        BY <2>1, <2>2, <2>3, <3>2, ClientAssumption DEF HandInv, Commits
      <4>2. QED
        BY <2>3, <3>1, <4>1
    <3>3. CASE j # k
      <4>1. Commits(c, j)' = 0 /\ hist'[j] = hist[j]
        BY <2>1, <3>3 DEF HandInv, Commits
      <4>2. QED
        BY <2>3, <3>1, <4>1
    <3>4. QED
      BY <3>2, <3>3
  <2>6. QED
    BY <2>1, <2>2, <2>4, <2>5, HandFrame
<1>3. QED
  BY <1>1, <1>2

\* A key without a record has no lead.
LEMMA KeyUnused ==
  ASSUME IInv, NEW k \in Keys, records[k] = NoRecord
  PROVE  Mine(k) = {}
<1> SUFFICES ASSUME NEW l \in leads, l.key = k PROVE FALSE
  BY DEF Mine
<1>1. records[k] = [lead |-> l.ids["lead"], payload |-> l.payload] /\ l.ids["lead"] > 0
  BY DEF IInv, RecordsMatch, LeadsNumbered
<1>2. records[k].lead = 0
  BY DEF NoRecord
<1>3. QED
  BY <1>1, <1>2

\* The commit turns the handover into the key's one lead.
LEMMA HandCommit ==
  ASSUME IInv, HandInv, NEW c \in Clients, Commit(c)
  PROVE  HandInv'
<1> DEFINE key == post[c].key
           lead == [born |-> local[c].born, ids |-> local[c].ids, key |-> key,
                    payload |-> post[c].payload, duplicate_of |-> local[c].duplicate_of]
<1>1. CASE Abort(c)
  BY <1>1, HandAbort
<1>2. CASE ~Abort(c)
  <2>1. /\ pc[c] = "commit" /\ KeyFree(key) /\ leads' = leads \cup {lead}
        /\ pc' = [pc EXCEPT ![c] = "done"] /\ post' = post /\ hist' = hist
    BY <1>2 DEF Commit, Reply, Goto
  <2>2. pc'[c] = "done" /\ \A d \in Clients \ {c} : pc'[d] = pc[d]
    BY <2>1 DEF IInv, Types
  <2>3. lead.key = key
    OBVIOUS
  <2> HIDE DEF lead
  <2>4. ASSUME NEW k \in Keys
        PROVE  hist'[k].handed = hist'[k].undone + Cardinality(Mine(k)')
                                 + Cardinality(Committers(k)')
    <3>1. /\ Cardinality(Committers(k)) \in Nat /\ Cardinality(Committers(k)') \in Nat
          /\ Cardinality(Committers(k)') + Commits(c, k) = Cardinality(Committers(k)) + Commits(c, k)'
      BY <2>1, <2>2, CommittersShift
    <3>2. Commits(c, k)' = 0
      BY <2>2 DEF Commits
    <3>3. hist[k].handed = hist[k].undone + Cardinality(Mine(k)) + Cardinality(Committers(k))
      BY DEF HandInv, HandoversAccounted, Mine, Committers
    <3>4. hist[k].handed \in Nat /\ hist[k].undone \in Nat
      BY DEF HandInv
    <3>5. CASE k = key
      <4>1. Mine(k) = {}
        BY <2>1, <3>5, KeyUnused DEF KeyFree
      <4>2. Mine(k)' = {lead}
        BY <2>1, <2>3, <3>5, <4>1 DEF Mine
      <4>3. Cardinality({lead}) = 1 /\ Cardinality({}) = 0
        BY FS_Singleton, FS_EmptySet
      <4>4. Cardinality(Mine(k)') = 1 /\ Cardinality(Mine(k)) = 0
        BY <4>1, <4>2, <4>3
      <4>5. Commits(c, k) = 1
        BY <2>1, <3>5 DEF Commits
      <4>6. QED
        BY <2>1, <3>1, <3>2, <3>3, <3>4, <4>4, <4>5
    <3>6. CASE k # key
      <4>1. Mine(k)' = Mine(k)
        BY <2>1, <2>3, <3>6 DEF Mine
      <4>2. Commits(c, k) = 0
        BY <3>6 DEF Commits
      <4>3. QED
        BY <2>1, <3>1, <3>2, <3>3, <4>1, <4>2
    <3>7. QED
      BY <3>5, <3>6
  <2>5. QED
    BY <2>1, <2>4 DEF HandInv, HandoversAccounted, Mine, Committers
<1>3. QED
  BY <1>1, <1>2

\* Every step keeps the account of the handovers.
LEMMA HandStep ==
  ASSUME IInv, HandInv, [Next]_vars
  PROVE  HandInv'
<1>1. CASE UNCHANGED vars
  BY <1>1 DEF vars, HandInv, HandoversAccounted
<1>2. ASSUME NEW c \in Clients, Request(c) PROVE HandInv'
  <2>1. CASE Lookup(c)
    <3>1. PICK label \in {"done", "dedup"} : pc' = [pc EXCEPT ![c] = label]
      BY <2>1 DEF Lookup, Reply, Goto
    <3>2. QED
      BY <2>1, <3>1, HandQuiet DEF Lookup
  <2>2. CASE Dedup(c)
    BY <2>2, HandQuiet DEF Dedup, Goto
  <2>3. CASE \/ GetCounter(c, "lead", "get_lead", "set_lead")
             \/ GetCounter(c, "delivery", "get_delivery", "set_delivery")
    BY <2>3, HandQuiet DEF GetCounter, Goto
  <2>4. CASE SetLeadCounter(c)
    BY <2>4, HandQuiet DEF SetLeadCounter, Goto
  <2>5. CASE SetDeliveryCounter(c)
    BY <2>5, HandQuiet, HandAbort DEF SetDeliveryCounter, Goto
  <2>6. QED
    BY <1>2, <2>1, <2>2, <2>3, <2>4, <2>5, HandDeliver, HandCommit DEF Request
<1>3. ASSUME NEW c \in Clients, Retry(c) \/ LoseAnswer(c) PROVE HandInv'
  BY <1>3, HandQuiet DEF Retry, LoseAnswer, SendAgain, Goto
<1>4. ASSUME NEW c \in Clients, RequestFails(c) PROVE HandInv'
  BY <1>4, HandAbort DEF RequestFails
<1>5. QED
  BY <1>1, <1>2, <1>3, <1>4 DEF Next, Terminating

\* A lead leaves the system before it is committed: every time a key's lead went
\* out belongs to its one lead, to a request about to commit, or to a transaction
\* that was rolled back.
THEOREM HandoversOfKeys == Spec => []HandoversAccounted
<1>1. Init => HandInv
  <2> SUFFICES ASSUME Init PROVE HandInv
    OBVIOUS
  <2>1. \A k \in Keys : {l \in leads : l.key = k} = {}
                        /\ {c \in Clients : pc[c] = "commit" /\ post[c].key = k} = {}
    BY DEF Init
  <2>2. QED
    BY <2>1, FS_EmptySet DEF Init, HandInv, HandoversAccounted
<1>2. HandInv => HandoversAccounted
  BY DEF HandInv
<1>3. QED
  BY <1>1, <1>2, InitInv, StepKeeps, HandStep, PTL DEF Spec
-----------------------------------------------------------------------------
(***************************************************************************)
(* Races.  Public ids are handed out without a gap, so a transaction that  *)
(* commits raises both counters by one; a request since whose lookup       *)
(* nobody has committed therefore holds the next ids and a free key, and   *)
(* no statement of it can fail.                                            *)
(***************************************************************************)
\* A finite, non-empty set of numbers has a greatest one.
LEMMA GreatestExists ==
  ASSUME NEW S \in SUBSET Nat, IsFiniteSet(S), S # {}
  PROVE  \E x \in S : \A y \in S : x >= y
<1> DEFINE Without == {T \in FiniteSubsetsOf(S) : T # {} /\ \A x \in T : \E y \in T : ~(x >= y)}
<1>1. SUFFICES ASSUME Without # {} PROVE FALSE
  BY DEF FiniteSubsetsOf
<1>2. IsWellFoundedOn(StrictSubsetOrdering(S), FiniteSubsetsOf(S))
  BY FS_StrictSubsetOrderingWellFounded
<1>3. PICK T \in Without : \A U \in Without : ~(<<U, T>> \in StrictSubsetOrdering(S))
  BY <1>1, <1>2, WFMin
<1>4. PICK x \in T : TRUE
  OBVIOUS
<1> DEFINE U == T \ {x}
<1>5. T \subseteq S /\ IsFiniteSet(T) /\ IsFiniteSet(U)
  BY FS_Subset DEF FiniteSubsetsOf
<1>6. <<U, T>> \in StrictSubsetOrdering(S)
  BY <1>4, <1>5 DEF StrictSubsetOrdering
<1>7. U = {} \/ \E m \in U : \A y \in U : m >= y
  BY <1>3, <1>5, <1>6 DEF FiniteSubsetsOf
<1>8. \E m \in T : \A y \in T : m >= y
  BY <1>4, <1>5, <1>7
<1>9. QED
  BY <1>8

\* It is what the community modules call its maximum.
LEMMA Greatest ==
  ASSUME NEW S \in SUBSET Nat, IsFiniteSet(S), S # {}
  PROVE  Max(S) \in S /\ \A y \in S : Max(S) >= y
  BY GreatestExists DEF Max

Borns == {l.born : l \in leads}
\* The request has taken its time, and has drawn a number of a kind.
Flying == {"get_lead", "set_lead", "get_delivery", "set_delivery", "deliver", "commit"}
Drawn(c, kind) ==
  pc[c] \in IF kind = "lead" THEN {"set_lead", "get_delivery", "set_delivery", "deliver", "commit"}
            ELSE {"set_delivery", "deliver", "commit"}

Gapless ==
  \A kind \in Kinds :
    /\ \A l \in leads : l.ids[kind] \in 1..counters[kind]
    /\ \A n \in 1..counters[kind] : \E l \in leads : l.ids[kind] = n

\* What a request holds if nobody has committed since it looked its key up.
Unraced(c) ==
  /\ pc[c] \in Flying \cup {"dedup"} => KeyFree(post[c].key)
  /\ \A kind \in Kinds : Drawn(c, kind) => local[c].ids[kind] = counters[kind] + 1
Racer(c) ==
  /\ local[c].born \in Nat /\ local[c].before \subseteq Borns
  /\ pc[c] \in Flying => local[c].born \notin Borns
  /\ \A kind \in Kinds : Drawn(c, kind) => local[c].ids[kind] \in 1..(counters[kind] + 1)
  /\ local[c].before = Borns => Unraced(c)
  /\ pc[c] # "done" => answer[c].status = "none"
  /\ faults = 0 /\ answer[c].status = "error" => local[c].before # Borns

\* No two requests under way have the same time.
Apart == \A c, d \in Clients :
           pc[c] \in Flying /\ pc[d] \in Flying /\ local[c].born = local[d].born => c = d

RaceInv ==
  /\ Borns \in SUBSET Nat /\ IsFiniteSet(Borns) /\ faults \in Nat
  /\ Gapless /\ Apart /\ \A c \in Clients : Racer(c)

\* The time of a new lead is after that of every other.
LEMMA NowIsLater ==
  ASSUME IInv, RaceInv, NEW c \in Clients
  PROVE  /\ utc_now \in Nat /\ utc_now \notin Borns
         /\ \A d \in Clients : local[d].born # utc_now
<1> DEFINE times == {local[d].born : d \in Clients}
           clock == [d \in Clients |-> local[d].born]
<1>1. clock \in Surjection(Clients, times)
  BY DEF Surjection
<1>2. IsFiniteSet(times)
  BY <1>1, ClientAssumption, FS_Surjection
<1>3. IsFiniteSet(Borns \cup times)
  BY <1>2, FS_Union DEF RaceInv
<1>4. Borns \cup times \in SUBSET Nat /\ Borns \cup times # {}
  BY DEF RaceInv, Racer
<1>5. /\ Max(Borns \cup times) \in Nat
      /\ \A y \in Borns \cup times : Max(Borns \cup times) >= y
  BY <1>3, <1>4, Greatest
<1>6. utc_now = 1 + Max(Borns \cup times)
  BY DEF utc_now, Borns
<1>7. \A d \in Clients : local[d].born \in times
  OBVIOUS
<1> HIDE DEF times, clock
<1>8. utc_now \in Nat /\ \A y \in Borns \cup times : y # utc_now
  BY <1>4, <1>5, <1>6
<1>9. QED
  BY <1>7, <1>8

\* A step of c that stores nothing.
LEMMA RaceFrame ==
  ASSUME IInv, RaceInv, NEW c \in Clients, UNCHANGED <<leads, records, counters, post>>,
         \A d \in Clients \ {c} : /\ pc'[d] = pc[d] /\ local'[d] = local[d]
                                  /\ answer'[d] = answer[d],
         faults' \in Nat, faults' >= faults, Racer(c)',
         pc'[c] \in Flying => \A d \in Clients \ {c} :
           pc[d] \in Flying => local[d].born # local'[c].born
  PROVE  RaceInv'
<1>1. Borns' = Borns
  BY DEF Borns
<1>2. faults' = 0 => faults = 0
  BY DEF RaceInv
<1>3. ASSUME NEW d \in Clients \ {c} PROVE Racer(d)'
  BY <1>1, <1>2 DEF RaceInv, Racer, Unraced, Drawn, KeyFree
<1>4. Apart'
  BY DEF RaceInv, Apart
<1>5. Gapless'
  BY DEF RaceInv, Gapless
<1>6. QED
  BY <1>1, <1>3, <1>4, <1>5 DEF RaceInv

\* A statement fails only when something came in between, or by a fault.
LEMMA RaceAbort ==
  ASSUME IInv, RaceInv, NEW c \in Clients, Abort(c), faults' \in Nat, faults' >= faults,
         faults' = 0 => local[c].before # Borns
  PROVE  RaceInv'
<1> DEFINE blank == [NoLocal EXCEPT !.before = local[c].before]
<1>1. /\ pc' = [pc EXCEPT ![c] = "done"]
      /\ answer' = [answer EXCEPT ![c] = [status |-> "error", lead |-> 0]]
      /\ local' = [local EXCEPT ![c] = blank]
      /\ UNCHANGED <<leads, records, counters, post>>
  BY DEF Abort, Reply, Goto
<1>2. blank.before = local[c].before /\ blank.born = 0
  BY DEF NoLocal
<1> HIDE DEF blank
<1>3. /\ pc'[c] = "done" /\ local'[c] = blank /\ answer'[c].status = "error"
      /\ \A d \in Clients \ {c} : /\ pc'[d] = pc[d] /\ local'[d] = local[d]
                                  /\ answer'[d] = answer[d]
  BY <1>1 DEF IInv, Types
<1>4. Borns' = Borns /\ local[c].before \subseteq Borns
  BY <1>1 DEF Borns, RaceInv, Racer
<1>5. Racer(c)'
  BY <1>2, <1>3, <1>4 DEF Racer, Flying, Drawn, Unraced
<1>6. QED
  BY <1>1, <1>3, <1>5, RaceFrame DEF Flying

\* A lookup that finds no record begins with a free key.
LEMMA RaceLookup ==
  ASSUME IInv, RaceInv, NEW c \in Clients, Lookup(c)
  PROVE  RaceInv'
<1> DEFINE fresh == [NoLocal EXCEPT !.before = Borns]
           known == post[c].key # None /\ records[post[c].key] # NoRecord
<1>1. /\ local' = [local EXCEPT ![c] = fresh] /\ pc[c] = "lookup"
      /\ UNCHANGED <<leads, records, counters, post, faults>>
  BY DEF Lookup, Borns
<1>2. fresh.before = Borns /\ fresh.born = 0
  BY DEF NoLocal
<1> HIDE DEF fresh
<1>3. /\ local'[c] = fresh /\ \A d \in Clients \ {c} : local'[d] = local[d]
      /\ Borns' = Borns /\ answer[c].status = "none"
  BY <1>1 DEF IInv, Types, Borns, RaceInv, Racer
<1>4. CASE \E status \in {"replayed", "conflict", "invalid"} : \E lead : Reply(c, status, lead)
  <2>1. PICK status \in {"replayed", "conflict", "invalid"} : \E lead : Reply(c, status, lead)
    BY <1>4
  <2>2. /\ pc'[c] = "done" /\ answer'[c].status = status
        /\ \A d \in Clients \ {c} : pc'[d] = pc[d] /\ answer'[d] = answer[d]
    BY <2>1 DEF Reply, Goto, IInv, Types
  <2>3. Racer(c)'
    BY <1>2, <1>3, <2>2 DEF Racer, Flying, Drawn, Unraced
  <2>4. QED
    BY <1>1, <1>3, <2>2, <2>3, RaceFrame DEF Flying, RaceInv
<1>5. CASE ~known /\ Goto(c, "dedup") /\ UNCHANGED answer
  <2>1. /\ pc'[c] = "dedup" /\ answer'[c].status = "none"
        /\ \A d \in Clients \ {c} : pc'[d] = pc[d] /\ answer'[d] = answer[d]
    BY <1>3, <1>5 DEF Goto, IInv, Types
  <2>2. KeyFree(post[c].key)'
    BY <1>1, <1>5, ClientAssumption DEF KeyFree
  <2>3. Racer(c)'
    BY <1>1, <1>2, <1>3, <2>1, <2>2 DEF Racer, Flying, Drawn, Unraced
  <2>4. QED
    BY <1>1, <1>3, <2>1, <2>3, RaceFrame DEF Flying, RaceInv
<1>6. QED
  BY <1>4, <1>5 DEF Lookup

\* The time that is noted is later than every other.
LEMMA RaceDedup ==
  ASSUME IInv, RaceInv, NEW c \in Clients, Dedup(c)
  PROVE  RaceInv'
<1>1. PICK n : local' = [local EXCEPT ![c].duplicate_of = n, ![c].born = utc_now]
  BY DEF Dedup
<1>2. /\ local'[c].born = utc_now /\ local'[c].before = local[c].before
      /\ \A d \in Clients \ {c} : local'[d] = local[d]
  BY <1>1 DEF IInv, Types, Local
<1>3. /\ pc[c] = "dedup" /\ pc'[c] = "get_lead" /\ answer' = answer
      /\ \A d \in Clients \ {c} : pc'[d] = pc[d]
      /\ UNCHANGED <<leads, records, counters, post, faults>>
  BY DEF Dedup, Goto, IInv, Types
<1>4. Borns' = Borns
  BY <1>3 DEF Borns
<1>5. Racer(c) /\ (local[c].before = Borns => KeyFree(post[c].key))
  BY <1>3 DEF RaceInv, Racer, Unraced
<1>6. KeyFree(post[c].key)' <=> KeyFree(post[c].key)
  BY <1>3 DEF KeyFree
<1>7. Racer(c)'
  BY <1>2, <1>3, <1>4, <1>5, <1>6, NowIsLater DEF Racer, Unraced, Drawn
<1>8. QED
  BY <1>2, <1>3, <1>7, NowIsLater, RaceFrame DEF RaceInv

\* The number that is drawn is the counter's next.
LEMMA RaceGetCounter ==
  ASSUME IInv, RaceInv, NEW c \in Clients,
         \/ GetCounter(c, "lead", "get_lead", "set_lead")
         \/ GetCounter(c, "delivery", "get_delivery", "set_delivery")
  PROVE  RaceInv'
<1>1. PICK kind \in Kinds :
        /\ local' = [local EXCEPT ![c].ids[kind] = counters[kind] + 1]
        /\ kind = "lead" => pc[c] = "get_lead" /\ pc' = [pc EXCEPT ![c] = "set_lead"]
        /\ kind = "delivery" => pc[c] = "get_delivery" /\ pc' = [pc EXCEPT ![c] = "set_delivery"]
  BY DEF GetCounter, Goto, next_value, Kinds
<1>2. UNCHANGED <<leads, records, counters, post, answer, faults>>
  BY DEF GetCounter
<1>3. /\ local'[c] = [local[c] EXCEPT !.ids = [local[c].ids EXCEPT ![kind] = counters[kind] + 1]]
      /\ \A d \in Clients \ {c} : local'[d] = local[d] /\ pc'[d] = pc[d]
  BY <1>1 DEF IInv, Types, Kinds
<1>4. /\ local'[c].born = local[c].born /\ local'[c].before = local[c].before
      /\ local'[c].ids = [local[c].ids EXCEPT ![kind] = counters[kind] + 1]
  BY <1>3 DEF IInv, Types, Local
<1>5. /\ local'[c].ids[kind] = counters[kind] + 1
      /\ \A other \in Kinds \ {kind} : local'[c].ids[other] = local[c].ids[other]
  BY <1>4 DEF IInv, Types, Local
<1>6. pc[c] \in Flying /\ pc'[c] \in Flying
  BY <1>1 DEF IInv, Types, Flying, Kinds
<1>7. \A other \in Kinds \ {kind} : Drawn(c, other)' => Drawn(c, other)
  BY <1>1 DEF IInv, Types, Drawn, Kinds
<1>8. Borns' = Borns /\ Racer(c) /\ (KeyFree(post[c].key)' <=> KeyFree(post[c].key))
  BY <1>2 DEF Borns, RaceInv, KeyFree
<1>9. counters[kind] \in Nat
  BY DEF IInv, Types
<1>10. counters[kind] + 1 \in 1..(counters[kind] + 1)
  BY <1>9
<1>11. \A k \in Kinds : Drawn(c, k)' => local'[c].ids[k] \in 1..(counters'[k] + 1)
  BY <1>2, <1>5, <1>7, <1>8, <1>10 DEF Racer
<1>12. local[c].before = Borns => Unraced(c)'
  BY <1>2, <1>5, <1>6, <1>7, <1>8 DEF Racer, Unraced
<1>13. pc[c] # "done" /\ pc'[c] # "done"
  BY <1>6 DEF Flying
<1>14. Racer(c)'
  BY <1>2, <1>4, <1>6, <1>8, <1>11, <1>12, <1>13 DEF Racer
<1>15. pc'[c] \in Flying => \A d \in Clients \ {c} : pc[d] \in Flying => local[d].born # local'[c].born
  BY <1>3, <1>4, <1>6 DEF RaceInv, Apart
<1>16. /\ UNCHANGED <<leads, records, counters, post>>
       /\ faults' \in Nat /\ faults' >= faults
       /\ \A d \in Clients \ {c} : /\ pc'[d] = pc[d] /\ local'[d] = local[d]
                                  /\ answer'[d] = answer[d]
  BY <1>2, <1>3 DEF RaceInv
<1>17. QED
  BY <1>14, <1>15, <1>16, RaceFrame

\* A transaction that only moves on, with its key and numbers as they were.
LEMMA RaceMoves ==
  ASSUME IInv, RaceInv, NEW c \in Clients, pc[c] \in Flying, NEW label \in Flying,
         pc' = [pc EXCEPT ![c] = label],
         UNCHANGED <<leads, records, counters, post, local, answer, faults>>,
         \A kind \in Kinds : Drawn(c, kind)' => Drawn(c, kind)
  PROVE  RaceInv'
<1>1. pc'[c] = label /\ \A d \in Clients \ {c} : pc'[d] = pc[d]
  BY DEF IInv, Types
<1>2. Borns' = Borns /\ Racer(c) /\ (KeyFree(post[c].key)' <=> KeyFree(post[c].key))
  BY DEF Borns, RaceInv, KeyFree
<1>3. Racer(c)'
  BY <1>1, <1>2 DEF Racer, Unraced, Flying
<1>4. QED
  BY <1>1, <1>3, RaceFrame DEF RaceInv, Apart

\* The numbers a request holds unraced are free.
LEMMA UnracedFree ==
  ASSUME IInv, RaceInv, NEW c \in Clients, NEW kind \in Kinds, Drawn(c, kind),
         local[c].before = Borns
  PROVE  IdFree(kind, local[c].ids[kind])
<1>1. local[c].ids[kind] = counters[kind] + 1 /\ counters[kind] \in Nat
  BY DEF RaceInv, Racer, Unraced, IInv, Types
<1>2. \A l \in leads : l.ids[kind] \in 1..counters[kind]
  BY DEF RaceInv, Gapless
<1>3. QED
  BY <1>1, <1>2 DEF IdFree

\* A flush fails on a number that somebody else has committed meanwhile.
LEMMA RaceFlush ==
  ASSUME IInv, RaceInv, NEW c \in Clients, SetDeliveryCounter(c) \/ Deliver(c)
  PROVE  RaceInv'
<1>1. PICK kind \in Kinds :
        /\ kind = "lead" => pc[c] = "set_delivery"
        /\ kind = "delivery" => pc[c] = "deliver"
        /\ \/ ~IdFree(kind, local[c].ids[kind]) /\ Abort(c)
           \/ /\ pc' = [pc EXCEPT ![c] = IF kind = "lead" THEN "deliver" ELSE "commit"]
              /\ UNCHANGED <<leads, records, counters, post, local, answer>>
  BY DEF SetDeliveryCounter, Deliver, Goto, Kinds
<1>2. faults' = faults /\ faults \in Nat
  BY DEF SetDeliveryCounter, Deliver, RaceInv
<1>3. Drawn(c, kind) /\ pc[c] \in Flying
  BY <1>1 DEF Drawn, Flying, Kinds
<1>4. CASE ~IdFree(kind, local[c].ids[kind]) /\ Abort(c)
  BY <1>2, <1>3, <1>4, UnracedFree, RaceAbort
<1>5. CASE /\ pc' = [pc EXCEPT ![c] = IF kind = "lead" THEN "deliver" ELSE "commit"]
           /\ UNCHANGED <<leads, records, counters, post, local, answer>>
  <2>1. \A k \in Kinds : Drawn(c, k)
    BY <1>1 DEF Drawn, Kinds
  <2>2. QED
    BY <1>2, <1>3, <1>5, <2>1, RaceMoves DEF Flying
<1>6. QED
  BY <1>1, <1>4, <1>5

\* A commit raises both counters by one, and everybody under way has been raced;
\* it fails on a key that somebody else has committed.
LEMMA RaceCommit ==
  ASSUME IInv, RaceInv, NEW c \in Clients, Commit(c)
  PROVE  RaceInv'
<1> DEFINE ids == local[c].ids
           born == local[c].born
           lead == [born |-> born, ids |-> ids, key |-> post[c].key,
                    payload |-> post[c].payload, duplicate_of |-> local[c].duplicate_of]
<1>1. pc[c] = "commit" /\ faults' = faults /\ faults \in Nat
  BY DEF Commit, RaceInv
<1>2. CASE Abort(c)
  <2>1. pc'[c] = "done"
    BY <1>2 DEF Abort, Reply, Goto, IInv, Types
  <2>2. ~KeyFree(post[c].key)
    BY <1>2 DEF Commit, Abort, Reply, IInv, Types
  <2>3. local[c].before # Borns
    BY <1>1, <2>2 DEF RaceInv, Racer, Unraced, Flying
  <2>4. QED
    BY <1>1, <1>2, <2>3, RaceAbort
<1>3. CASE ~Abort(c)
  <2>1. /\ leads' = leads \cup {lead} /\ counters' = ids
        /\ pc' = [pc EXCEPT ![c] = "done"]
        /\ answer' = [answer EXCEPT ![c] = [status |-> "created", lead |-> ids["lead"]]]
        /\ UNCHANGED <<post, local>>
    BY <1>3 DEF Commit, Reply, Goto
  <2>2. lead.born = born /\ lead.ids = ids
    OBVIOUS
  <2> HIDE DEF lead
  <2>3. Borns' = Borns \cup {born}
    BY <2>1, <2>2 DEF Borns
  <2>4. born \in Nat /\ born \notin Borns
    BY <1>1 DEF RaceInv, Racer, Flying
  <2>5. \A kind \in Kinds : /\ counters[kind] \in Nat
                            /\ ids[kind] = counters[kind] + 1 /\ counters'[kind] = ids[kind]
    <3> SUFFICES ASSUME NEW kind \in Kinds
                 PROVE  /\ counters[kind] \in Nat
                        /\ ids[kind] = counters[kind] + 1 /\ counters'[kind] = ids[kind]
      OBVIOUS
    <3>1. IdFree(kind, ids[kind])
      BY <1>1 DEF IInv, Placed, Place, Kinds
    <3>2. counters[kind] \in Nat /\ ids[kind] \in 1..(counters[kind] + 1)
      BY <1>1 DEF RaceInv, Racer, Drawn, IInv, Types
    <3>3. ids[kind] \notin 1..counters[kind]
      BY <3>1 DEF RaceInv, Gapless, IdFree
    <3>4. QED
      BY <2>1, <3>2, <3>3
  <2> HIDE DEF ids, born
  <2>6. Gapless'
    <3> SUFFICES ASSUME NEW kind \in Kinds
                 PROVE  /\ \A l \in leads' : l.ids[kind] \in 1..counters'[kind]
                        /\ \A n \in 1..counters'[kind] : \E l \in leads' : l.ids[kind] = n
      BY DEF Gapless
    <3>1. /\ counters[kind] \in Nat /\ counters'[kind] = counters[kind] + 1
          /\ lead.ids[kind] = counters[kind] + 1
      BY <2>2, <2>5
    <3>2. \A l \in leads : l.ids[kind] \in 1..counters[kind]
      BY DEF RaceInv, Gapless
    <3>3. \A n \in 1..counters[kind] : \E l \in leads : l.ids[kind] = n
      BY DEF RaceInv, Gapless
    <3>4. ASSUME NEW n \in 1..counters'[kind] PROVE \E l \in leads' : l.ids[kind] = n
      <4>1. CASE n = counters[kind] + 1
        BY <2>1, <3>1, <4>1
      <4>2. CASE n # counters[kind] + 1
        BY <2>1, <3>1, <3>3, <3>4, <4>2
      <4>3. QED
        BY <4>1, <4>2
    <3>5. QED
      BY <2>1, <3>1, <3>2, <3>4
  <2>7. /\ pc'[c] = "done" /\ answer'[c].status = "created"
        /\ \A d \in Clients \ {c} : pc'[d] = pc[d] /\ answer'[d] = answer[d]
    BY <2>1 DEF IInv, Types
  <2>8. ASSUME NEW d \in Clients PROVE local'[d].before # Borns' /\ local'[d].before \subseteq Borns'
    BY <2>1, <2>3, <2>4 DEF RaceInv, Racer
  <2>9. Racer(c)'
    BY <2>1, <2>4, <2>7, <2>8 DEF Racer, Flying, Drawn, born
  <2>10. ASSUME NEW d \in Clients \ {c} PROVE Racer(d)'
    <3>1. Racer(d)
      BY DEF RaceInv
    <3>2. pc[d] \in Flying => local[d].born # born
      BY <1>1 DEF RaceInv, Apart, Flying, born
    <3>3. \A kind \in Kinds : Drawn(d, kind)' => local'[d].ids[kind] \in 1..(counters'[kind] + 1)
      <4>1. \A kind \in Kinds : Drawn(d, kind)' => local[d].ids[kind] \in 1..(counters[kind] + 1)
        BY <2>7, <3>1 DEF Racer, Drawn
      <4>2. QED
        BY <2>1, <2>5, <4>1
    <3>4. QED
      BY <1>1, <2>1, <2>3, <2>7, <2>8, <3>1, <3>2, <3>3 DEF Racer
  <2>11. Apart'
    BY <2>1, <2>7 DEF RaceInv, Apart, Flying
  <2>12. Borns' \in SUBSET Nat /\ IsFiniteSet(Borns')
    BY <2>3, <2>4, FS_AddElement DEF RaceInv
  <2>13. QED
    BY <1>1, <2>6, <2>9, <2>10, <2>11, <2>12 DEF RaceInv
<1>4. QED
  BY <1>2, <1>3

\* Every step keeps the races in order.
LEMMA RaceStep ==
  ASSUME IInv, RaceInv, [Next]_vars
  PROVE  RaceInv'
<1>1. CASE UNCHANGED vars
  BY <1>1 DEF vars, RaceInv, Borns, Gapless, Apart, Racer, Unraced, Drawn, KeyFree
<1>2. ASSUME NEW c \in Clients, Request(c) PROVE RaceInv'
  <2>1. CASE SetLeadCounter(c)
    <3>1. /\ pc[c] = "set_lead" /\ pc' = [pc EXCEPT ![c] = "get_delivery"]
          /\ UNCHANGED <<leads, records, counters, post, local, answer, faults>>
      BY <2>1 DEF SetLeadCounter, Goto
    <3>2. pc'[c] = "get_delivery"
      BY <3>1 DEF IInv, Types
    <3>3. \A kind \in Kinds : Drawn(c, kind)' => Drawn(c, kind)
      BY <3>1, <3>2 DEF Drawn
    <3>4. QED
      BY <3>1, <3>3, RaceMoves DEF Flying
  <2>2. QED
    BY <1>2, <2>1, RaceLookup, RaceDedup, RaceGetCounter, RaceFlush, RaceCommit DEF Request
<1>3. ASSUME NEW c \in Clients, Retry(c) \/ LoseAnswer(c) PROVE RaceInv'
  <2>1. /\ pc' = [pc EXCEPT ![c] = "lookup"] /\ answer' = [answer EXCEPT ![c] = NoAnswer]
        /\ UNCHANGED <<leads, records, counters, post, local>>
        /\ faults' \in Nat /\ faults' >= faults
    BY <1>3 DEF Retry, LoseAnswer, SendAgain, Goto, RaceInv
  <2>2. /\ pc'[c] = "lookup" /\ answer'[c].status = "none" /\ Borns' = Borns
        /\ \A d \in Clients \ {c} : pc'[d] = pc[d] /\ answer'[d] = answer[d]
    BY <2>1 DEF IInv, Types, NoAnswer, Borns
  <2>3. Racer(c)'
    BY <2>1, <2>2 DEF RaceInv, Racer, Unraced, Drawn, Flying
  <2>4. QED
    BY <2>1, <2>2, <2>3, RaceFrame DEF Flying
<1>4. ASSUME NEW c \in Clients, RequestFails(c) PROVE RaceInv'
  <2>1. Abort(c) /\ faults' = faults + 1 /\ faults \in Nat
    BY <1>4 DEF RequestFails, RaceInv
  <2>2. faults' \in Nat /\ faults' >= faults /\ faults' # 0
    BY <2>1
  <2>3. QED
    BY <2>1, <2>2, RaceAbort
<1>5. QED
  BY <1>1, <1>2, <1>3, <1>4 DEF Next, Terminating

\* Nobody has committed and nobody has been answered at first.
LEMMA RaceInit == Init => RaceInv
<1> SUFFICES ASSUME Init PROVE RaceInv
  OBVIOUS
<1>1. Borns = {} /\ IsFiniteSet({})
  BY FS_EmptySet DEF Init, Borns
<1>2. Gapless
  BY DEF Init, Gapless
<1>3. Apart /\ \A c \in Clients : Racer(c)
  BY <1>1 DEF Init, Apart, Racer, Unraced, Drawn, Flying, NoLocal, NoAnswer
<1>4. QED
  BY <1>1, <1>2, <1>3 DEF Init, RaceInv

\* The public ids of leads and of deliveries are handed out without a gap, up to
\* the counter: unlocked reads and rolled back transactions skip none.
THEOREM PublicIdsGapless == Spec => []Gapless
<1>1. RaceInv => Gapless
  BY DEF RaceInv
<1>2. QED
  BY <1>1, InitInv, StepKeeps, RaceInit, RaceStep, PTL DEF Spec

\* A request that no fault hit fails only if another one has committed since it
\* began: of several racing for an id or a key, one always gets through.
THEOREM OnlyRacesFail == Spec => []ErrorsOnlyInRaces
<1>1. RaceInv => ErrorsOnlyInRaces
  BY DEF RaceInv, Racer, ErrorsOnlyInRaces, Borns
<1>2. QED
  BY <1>1, InitInv, StepKeeps, RaceInit, RaceStep, PTL DEF Spec
=============================================================================
