------------------------ MODULE ShowcaseIntakeProofs ------------------------
(***************************************************************************)
(* Theorems about ShowcaseIntake, for any clients, keys, payloads and      *)
(* deaths: answers tell the truth, a key has one lead, duplicates point    *)
(* backwards, and only a death leaves a lead unprocessed.                  *)
(***************************************************************************)
EXTENDS ShowcaseIntake, FiniteSetTheorems, WellFoundedInduction, TLAPS

Lead == [key : Keys, payload : Payloads, duplicate_of : Nat]
Local == [duplicate_of : Nat, lead : Nat, replay : BOOLEAN]
Record == [lead : Nat, payload : Payloads \cup {None}]
Statuses == {"none", "replayed", "conflict", "invalid", "created", "error", "lost"}
Response == [status : Statuses, lead : Nat]
Labels == {"lookup", "email", "phone", "external", "lead", "delivery", "process", "record", "done"}

Types ==
  /\ leads \in Seq(Lead)
  /\ deliveries \in Seq({"none", "queued", "processed"}) /\ Len(deliveries) = Len(leads)
  /\ records \in [Keys -> Record]
  /\ post \in [Clients -> [key : Keys, payload : Payloads]]
  /\ pc \in [Clients -> Labels]
  /\ local \in [Clients -> Local]
  /\ answer \in [Clients -> Response]
  /\ faults \in Nat

Processed(i) == deliveries[i] = "processed"
\* The lead i was made for the key and payload of the client's request.
Mine(c, i) ==
  /\ i \in DOMAIN leads
  /\ leads[i].key = post[c].key /\ leads[i].payload = post[c].payload

(***************************************************************************)
(* The inductive invariant.  A request at work on a lead is the only one,  *)
(* and the lead is not processed before it says so.                        *)
(***************************************************************************)
AtWork(c) == pc[c] \in {"delivery", "process"}

Place(c) ==
  /\ local[c].duplicate_of <= Len(leads)
  /\ pc[c] \in {"delivery", "process", "record"} => Mine(c, local[c].lead)
  /\ AtWork(c) => ~Processed(local[c].lead)
  /\ pc[c] = "record" => Processed(local[c].lead)
Placed == \A c \in Clients : Place(c)

Alone == \A c, d \in Clients : AtWork(c) /\ AtWork(d) /\ local[c].lead = local[d].lead => c = d

RecordsMatch ==
  \A k \in Keys : records[k] # NoRecord =>
    LET i == records[k].lead
    IN  /\ i \in DOMAIN leads /\ Processed(i)
        /\ leads[i].key = k /\ leads[i].payload = records[k].payload

Answer(c) ==
  /\ answer[c].status \in {"created", "replayed"} => Mine(c, answer[c].lead) /\ Processed(answer[c].lead)
  /\ answer[c].status = "conflict" =>
       \E i \in DOMAIN leads : leads[i].key = post[c].key /\ leads[i].payload # post[c].payload
Answers == \A c \in Clients : Answer(c)

\* A key has one lead, however often and by however many it is posted.
OneLeadPerKey == \A i, j \in DOMAIN leads : leads[i].key = leads[j].key => i = j

\* Three queries on three states of the table: still the lead that a duplicate
\* is linked to came before it.
LinkedBackwards == \A i \in DOMAIN leads : leads[i].duplicate_of < i

Orphans == {i \in DOMAIN leads : ~Processed(i) /\ \A c \in Clients :
              ~(AtWork(c) /\ local[c].lead = i)}
OrphansCounted == Cardinality(Orphans) <= faults

IInv == /\ Types /\ Placed /\ Alone /\ RecordsMatch /\ Answers
        /\ OneLeadPerKey /\ LinkedBackwards /\ OrphansCounted
-----------------------------------------------------------------------------
\* Nothing is stored and nobody is answered at first.
LEMMA InitInv == Init => IInv
<1> SUFFICES ASSUME Init PROVE IInv
  OBVIOUS
<1>1. Types
  <2>1. NoLocal \in Local /\ NoAnswer \in Response /\ NoRecord \in Record
    BY DEF NoLocal, Local, NoAnswer, Response, Statuses, NoRecord, Record
  <2>2. QED
    BY <2>1 DEF Init, Types, Labels
<1>2. Placed /\ Alone /\ RecordsMatch /\ Answers
  BY DEF Init, Placed, Place, AtWork, NoLocal, Alone, RecordsMatch, Answers, Answer, NoAnswer
<1>3. OneLeadPerKey /\ LinkedBackwards
  BY DEF Init, OneLeadPerKey, LinkedBackwards
<1>4. OrphansCounted
  <2>1. Orphans = {} /\ faults = 0
    BY DEF Init, Orphans
  <2>2. QED
    BY <2>1, FS_EmptySet DEF OrphansCounted
<1>5. QED
  BY <1>1, <1>2, <1>3, <1>4 DEF IInv

\* A set of natural numbers that is not empty has a least one.
LEMMA Least ==
  ASSUME NEW S, S \subseteq Nat, S # {}
  PROVE  \E n \in S : \A m \in S : n <= m
<1> DEFINE below == {ss \in Nat \X Nat : ss[1] < ss[2]}
<1>1. IsWellFoundedOn(below, Nat)
  BY NatLessThanWellFounded DEF OpToRel
<1>2. PICK n \in S : \A m \in S : <<m, n>> \notin below
  <2> HIDE DEF below
  <2>1. QED
    BY <1>1, WFMin
<1>3. \A m \in S : ~(m < n)
  BY <1>2
<1>4. QED
  BY <1>3

\* The lead a query finds is stored.
LEMMA Oldest ==
  ASSUME Types, NEW field, NEW value
  PROVE  oldest(field, value) \in Nat /\ oldest(field, value) <= Len(leads)
<1> DEFINE hits == {i \in DOMAIN leads : value # None /\ leads[i].payload[field] = value}
<1>1. hits \subseteq 1 .. Len(leads) /\ Len(leads) \in Nat
  BY DEF Types
<1>2. CASE hits = {}
  BY <1>1, <1>2 DEF oldest
<1>3. CASE hits # {}
  <2>1. \E i \in hits : \A j \in hits : i <= j
    <3> HIDE DEF hits
    <3>1. hits \subseteq Nat
      BY <1>1
    <3>2. QED
      BY <1>3, <3>1, Least
  <2>2. (CHOOSE i \in hits : \A j \in hits : i <= j) \in hits
    <3> HIDE DEF hits
    <3>1. QED
      BY <2>1, Zenon
  <2>3. oldest(field, value) \in hits
    BY <1>3, <2>2 DEF oldest
  <2>4. QED
    BY <1>1, <2>3
<1>4. QED
  BY <1>2, <1>3

\* There are finitely many orphans; one more raises their number by one at most.
LEMMA OrphansFinite ==
  ASSUME Types
  PROVE  IsFiniteSet(Orphans) /\ Cardinality(Orphans) \in Nat
<1>1. Orphans \in SUBSET (1 .. Len(leads)) /\ Len(leads) \in Nat
  BY DEF Types, Orphans
<1>2. IsFiniteSet(1 .. Len(leads))
  BY <1>1, FS_Interval
<1>3. QED
  BY <1>1, <1>2, FS_Subset, FS_CardinalityType
-----------------------------------------------------------------------------
\* A step that inserts no lead and works on no delivery keeps the invariant if
\* what it answers and what it records is so.  Only a death may end the work on
\* a lead.
LEMMA QuietKeeps ==
  ASSUME IInv, NEW c \in Clients, NEW label \in Labels, NEW l \in Local, NEW a \in Response,
         UNCHANGED <<leads, deliveries, post>>,
         records' \in [Keys -> Record], RecordsMatch',
         pc' = [pc EXCEPT ![c] = label],
         local' = [local EXCEPT ![c] = l],
         answer' = [answer EXCEPT ![c] = a],
         label \notin {"delivery", "process", "record"},
         l.duplicate_of <= Len(leads),
         \/ faults' = faults /\ ~AtWork(c)
         \/ faults' = faults + 1,
         Answer(c)'
  PROVE  IInv'
<1>1. /\ pc'[c] = label /\ local'[c] = l /\ answer'[c] = a
      /\ \A d \in Clients : d # c => pc'[d] = pc[d] /\ local'[d] = local[d] /\ answer'[d] = answer[d]
  BY DEF IInv, Types
<1>2. Types'
  BY DEF IInv, Types
<1>3. Placed'
  BY <1>1 DEF IInv, Placed, Place, AtWork, Mine, Processed
<1>4. Alone'
  BY <1>1 DEF IInv, Alone, AtWork
<1>5. Answers'
  <2> SUFFICES ASSUME NEW d \in Clients, d # c PROVE Answer(d)'
    BY DEF Answers
  <2>1. QED
    BY <1>1 DEF IInv, Answers, Answer, Mine, Processed
<1>6. OneLeadPerKey' /\ LinkedBackwards'
  BY DEF IInv, OneLeadPerKey, LinkedBackwards
<1>7. OrphansCounted'
  <2>1. IsFiniteSet(Orphans) /\ Cardinality(Orphans) \in Nat /\ Cardinality(Orphans) <= faults
    BY OrphansFinite DEF IInv, OrphansCounted
  <2>2. faults \in Nat
    BY DEF IInv, Types
  <2>3. CASE faults' = faults /\ ~AtWork(c)
    <3>1. Orphans' = Orphans
      BY <1>1, <2>3 DEF Orphans, AtWork, Processed
    <3>2. QED
      BY <2>1, <2>3, <3>1 DEF OrphansCounted
  <2>4. CASE faults' = faults + 1
    <3> DEFINE more == Orphans \cup {local[c].lead}
    <3>1. Orphans' \subseteq more
      BY <1>1 DEF Orphans, AtWork, Processed
    <3>2. IsFiniteSet(more) /\ Cardinality(more) <= Cardinality(Orphans) + 1
      <4> DEFINE x == local[c].lead
                 n == Cardinality(Orphans)
      <4>1. IsFiniteSet(Orphans) /\ n \in Nat
        BY <2>1
      <4> HIDE DEF x, n
      <4>2. /\ IsFiniteSet(Orphans \cup {x})
            /\ Cardinality(Orphans \cup {x}) = IF x \in Orphans THEN n ELSE n + 1
        BY <4>1, FS_AddElement DEF n
      <4>3. QED
        BY <4>1, <4>2 DEF x, n
    <3>3. Cardinality(Orphans') <= Cardinality(more) /\ Cardinality(Orphans') \in Nat
      BY <3>1, <3>2, FS_Subset, FS_CardinalityType
    <3>4. Cardinality(more) \in Nat
      BY <3>2, FS_CardinalityType
    <3>5. Cardinality(Orphans') <= faults'
      <4> HIDE DEF more
      <4>1. QED
        BY <2>1, <2>2, <2>4, <3>2, <3>3, <3>4
    <3>6. QED
      BY <3>5 DEF OrphansCounted
  <2>5. QED
    BY <2>3, <2>4
<1>8. QED
  BY <1>2, <1>3, <1>4, <1>5, <1>6, <1>7 DEF IInv

\* A step of a request at work on its lead: nobody else's lead is touched.
LEMMA WorkKeeps ==
  ASSUME IInv, NEW c \in Clients, AtWork(c), NEW text \in {"queued", "processed"},
         NEW label \in {"process", "record"},
         (label = "record") <=> (text = "processed"),
         deliveries' = [deliveries EXCEPT ![local[c].lead] = text],
         pc' = [pc EXCEPT ![c] = label],
         UNCHANGED <<leads, records, post, local, answer, faults>>
  PROVE  IInv'
<1> DEFINE x == local[c].lead
<1>1. x \in DOMAIN leads /\ Mine(c, x) /\ ~Processed(x)
  BY DEF IInv, Placed, Place, AtWork, Mine
<1>2. DOMAIN leads = 1 .. Len(leads) /\ DOMAIN deliveries = 1 .. Len(leads) /\ Len(leads) \in Nat
  BY DEF IInv, Types
<1>3. /\ deliveries'[x] = text /\ \A i \in DOMAIN leads : i # x => deliveries'[i] = deliveries[i]
      /\ pc'[c] = label /\ \A d \in Clients : d # c => pc'[d] = pc[d]
  BY <1>1, <1>2 DEF IInv, Types
<1>4. Types'
  <2>1. /\ deliveries' \in Seq({"none", "queued", "processed"})
        /\ Len(deliveries') = Len(deliveries)
    BY <1>1, <1>2 DEF IInv, Types
  <2>2. QED
    BY <2>1 DEF IInv, Types, Labels
<1>5. \A i \in DOMAIN leads : Processed(i) => Processed(i)'
  BY <1>1, <1>3 DEF Processed
<1>6. Placed'
  <2> SUFFICES ASSUME NEW d \in Clients PROVE Place(d)'
    BY DEF Placed
  <2>1. CASE d = c
    BY <1>1, <1>3, <2>1 DEF IInv, Placed, Place, AtWork, Mine, Processed
  <2>2. CASE d # c
    <3>1. AtWork(d) => local[d].lead # x
      BY <2>2 DEF IInv, Alone
    <3>2. pc[d] = "record" => local[d].lead # x
      BY <1>1 DEF IInv, Placed, Place
    <3>3. pc[d] \in {"delivery", "process", "record"} => local[d].lead \in DOMAIN leads
      BY DEF IInv, Placed, Place, Mine
    <3>4. QED
      BY <1>3, <2>2, <3>1, <3>2, <3>3 DEF IInv, Placed, Place, AtWork, Mine, Processed
  <2>3. QED
    BY <2>1, <2>2
<1>7. Alone'
  BY <1>3 DEF IInv, Alone, AtWork
<1>8. RecordsMatch' /\ Answers'
  BY <1>5 DEF IInv, RecordsMatch, Answers, Answer, Mine
<1>9. OneLeadPerKey' /\ LinkedBackwards'
  BY DEF IInv, OneLeadPerKey, LinkedBackwards
<1>10. OrphansCounted'
  <2>1. Orphans' = Orphans
    <3>1. \A i \in DOMAIN leads : i \in Orphans' <=> i \in Orphans
      <4> SUFFICES ASSUME NEW i \in DOMAIN leads PROVE i \in Orphans' <=> i \in Orphans
        OBVIOUS
      <4>1. CASE i = x
        BY <1>3, <4>1 DEF Orphans, AtWork, Processed
      <4>2. CASE i # x
        BY <1>3, <4>2 DEF Orphans, AtWork, Processed
      <4>3. QED
        BY <4>1, <4>2
    <3>2. QED
      BY <3>1 DEF Orphans
  <2>2. QED
    BY <2>1 DEF IInv, OrphansCounted
<1>11. QED
  BY <1>4, <1>6, <1>7, <1>8, <1>9, <1>10 DEF IInv

\* A new lead is at the end, and its request at work on it; no lead has its key.
LEMMA InsertLeadKeeps ==
  ASSUME IInv, NEW c \in Clients, pc[c] = "lead", unique(post[c].key),
         NEW x \in Nat, x = Len(leads) + 1,
         leads' = Append(leads, [key |-> post[c].key, payload |-> post[c].payload,
                                 duplicate_of |-> local[c].duplicate_of]),
         local' = [local EXCEPT ![c].lead = x],
         deliveries' = Append(deliveries, "none"),
         pc' = [pc EXCEPT ![c] = "delivery"],
         UNCHANGED <<records, post, answer, faults>>
  PROVE  IInv'
<1> DEFINE new == [key |-> post[c].key, payload |-> post[c].payload,
                   duplicate_of |-> local[c].duplicate_of]
<1>1. new \in Lead /\ local[c] \in Local /\ local[c].duplicate_of <= Len(leads)
  BY DEF IInv, Types, Lead, Local, Placed, Place
<1>2. /\ leads' \in Seq(Lead) /\ Len(leads') = x /\ leads'[x] = new
      /\ \A i \in 1 .. Len(leads) : leads'[i] = leads[i]
      /\ deliveries' \in Seq({"none", "queued", "processed"}) /\ Len(deliveries') = x
      /\ deliveries'[x] = "none" /\ \A i \in 1 .. Len(leads) : deliveries'[i] = deliveries[i]
      /\ Len(leads) \in Nat
  <2> HIDE DEF new
  <2>1. leads \in Seq(Lead) /\ deliveries \in Seq({"none", "queued", "processed"})
        /\ Len(deliveries) = Len(leads)
    BY DEF IInv, Types
  <2>2. leads' = Append(leads, new)
    BY DEF new
  <2>3. QED
    BY <1>1, <2>1, <2>2
<1>3. DOMAIN leads = 1 .. Len(leads) /\ DOMAIN leads' = 1 .. x
  BY <1>2 DEF IInv, Types
<1>4. /\ local' \in [Clients -> Local] /\ local'[c].lead = x
      /\ local'[c].duplicate_of = local[c].duplicate_of
      /\ pc' \in [Clients -> Labels] /\ pc'[c] = "delivery"
      /\ \A d \in Clients : d # c => pc'[d] = pc[d] /\ local'[d] = local[d]
  <2>1. local'[c] = [local[c] EXCEPT !.lead = x]
    BY DEF IInv, Types
  <2>2. local'[c] \in Local /\ local'[c].lead = x /\ local'[c].duplicate_of = local[c].duplicate_of
    <3>1. \A l \in Local : /\ [l EXCEPT !.lead = x] \in Local
                           /\ [l EXCEPT !.lead = x].lead = x
                           /\ [l EXCEPT !.lead = x].duplicate_of = l.duplicate_of
      BY DEF Local
    <3>2. QED
      BY <1>1, <2>1, <3>1
  <2>3. QED
    BY <2>2 DEF IInv, Types, Labels
<1>5. /\ x \notin DOMAIN leads /\ x \in DOMAIN leads' /\ x \in Nat
      /\ DOMAIN leads' = DOMAIN leads \cup {x}
  BY <1>2, <1>3
<1>6. Types'
  BY <1>2, <1>4 DEF IInv, Types
<1>7. /\ \A i \in DOMAIN leads : Processed(i)' <=> Processed(i)
      /\ \A d \in Clients, i \in DOMAIN leads : Mine(d, i)' <=> Mine(d, i)
      /\ Mine(c, x)' /\ ~Processed(x)'
  BY <1>2, <1>3, <1>5 DEF Processed, Mine
<1>8. Placed'
  <2> SUFFICES ASSUME NEW d \in Clients PROVE Place(d)'
    BY DEF Placed
  <2>1. CASE d = c
    <3>1. local'[c].duplicate_of <= Len(leads')
      <4>1. local[c].duplicate_of \in Nat
        BY <1>1 DEF Local
      <4>2. QED
        BY <1>1, <1>2, <1>4, <4>1
    <3>2. Mine(c, x)' /\ ~Processed(x)'
      BY <1>7
    <3>3. QED
      BY <1>4, <2>1, <3>1, <3>2 DEF Place, AtWork, Mine, Processed
  <2>2. CASE d # c
    <3>1. local[d].duplicate_of <= Len(leads) /\ local[d].duplicate_of \in Nat
      BY DEF IInv, Types, Local, Placed, Place
    <3>2. local'[d].duplicate_of <= Len(leads')
      BY <1>2, <1>4, <2>2, <3>1
    <3>3. pc[d] \in {"delivery", "process", "record"} => local[d].lead \in DOMAIN leads
      BY DEF IInv, Placed, Place, Mine
    <3>4. \A i \in DOMAIN leads : /\ i \in DOMAIN leads' /\ leads'[i] = leads[i]
                                  /\ deliveries'[i] = deliveries[i]
      BY <1>2, <1>3, <1>5
    <3>5. Place(d) /\ pc'[d] = pc[d] /\ local'[d] = local[d] /\ post' = post
      BY <1>4, <2>2 DEF IInv, Placed
    <3>6. pc[d] \in {"delivery", "process", "record"} => Mine(d, local[d].lead)'
      BY <3>3, <3>4, <3>5 DEF Place, Mine
    <3>7. pc[d] \in {"delivery", "process", "record"} =>
            (Processed(local[d].lead)' <=> Processed(local[d].lead))
      BY <3>3, <3>4, <3>5 DEF Processed
    <3>8. QED
      BY <3>2, <3>5, <3>6, <3>7 DEF Place, AtWork, Mine, Processed
  <2>3. QED
    BY <2>1, <2>2
<1>9. Alone'
  <2>1. \A d \in Clients : AtWork(d) => local[d].lead \in DOMAIN leads
    BY DEF IInv, Placed, Place, AtWork, Mine
  <2>2. QED
    BY <1>4, <1>5, <2>1 DEF IInv, Alone, AtWork
<1>10. RecordsMatch'
  BY <1>2, <1>3, <1>5, <1>7 DEF IInv, RecordsMatch
<1>11. Answers'
  <2> SUFFICES ASSUME NEW d \in Clients PROVE Answer(d)'
    BY DEF Answers
  <2>1. Answer(d)
    BY DEF IInv, Answers
  <2>2. answer[d].status \in {"created", "replayed"} => answer[d].lead \in DOMAIN leads
    BY <2>1 DEF Answer, Mine
  <2>3. \A i \in DOMAIN leads : i \in DOMAIN leads' /\ leads'[i] = leads[i]
    BY <1>2, <1>3, <1>5
  <2>4. QED
    BY <1>7, <2>1, <2>2, <2>3 DEF Answer
<1>12. OneLeadPerKey'
  <2>1. \A i \in DOMAIN leads : leads[i].key # new.key /\ leads'[i] = leads[i]
    BY <1>2, <1>3 DEF unique
  <2>2. QED
    BY <1>2, <1>5, <2>1 DEF IInv, OneLeadPerKey
<1>13. LinkedBackwards'
  <2>1. leads'[x].duplicate_of < x
    BY <1>1, <1>2 DEF Local
  <2>2. QED
    BY <1>2, <1>3, <1>5, <2>1 DEF IInv, LinkedBackwards
<1>14. OrphansCounted'
  <2>1. x \notin Orphans'
    BY <1>4 DEF Orphans, AtWork
  <2>2. \A i \in DOMAIN leads : i \in Orphans' <=> i \in Orphans
    BY <1>4, <1>5, <1>7 DEF Orphans, AtWork
  <2>3. Orphans' = Orphans
    BY <1>5, <2>1, <2>2 DEF Orphans
  <2>4. QED
    BY <2>3 DEF IInv, OrphansCounted
<1>15. QED
  BY <1>6, <1>8, <1>9, <1>10, <1>11, <1>12, <1>13, <1>14 DEF IInv
-----------------------------------------------------------------------------
(***************************************************************************)
(* Each action keeps the invariant.                                        *)
(***************************************************************************)

\* A replay or a refusal tells of the record's lead.
LEMMA LookupKeeps ==
  ASSUME IInv, NEW c \in Clients, Lookup(c)
  PROVE  IInv'
<1> DEFINE k == post[c].key
           l == [NoLocal EXCEPT !.replay = \E i \in DOMAIN leads :
                   leads[i].key = post[c].key /\ leads[i].payload = post[c].payload]
<1>1. /\ local' = [local EXCEPT ![c] = l] /\ pc[c] = "lookup"
      /\ UNCHANGED <<leads, deliveries, records, post, faults>>
  BY DEF Lookup
<1>2. l \in Local /\ l.duplicate_of = 0
  BY DEF Local, NoLocal
<1> HIDE DEF l
<1>3. k \in Keys /\ records[k] \in Record /\ Len(leads) \in Nat /\ answer[c] \in Response
      /\ records \in [Keys -> Record] /\ records' = records
  BY <1>1 DEF IInv, Types
<1>4. RecordsMatch' /\ ~AtWork(c) /\ l.duplicate_of <= Len(leads)
  BY <1>1, <1>2, <1>3 DEF IInv, RecordsMatch, Processed, AtWork
<1>5. records[k] # NoRecord =>
        LET i == records[k].lead
        IN  /\ i \in DOMAIN leads /\ Processed(i)
            /\ leads[i].key = k /\ leads[i].payload = records[k].payload
  BY <1>3 DEF IInv, RecordsMatch
<1>6. ASSUME NEW status \in {"replayed", "conflict", "invalid"}, NEW n \in Nat, Reply(c, status, n),
             status = "replayed" => records[k] # NoRecord /\ SamePayload(c) /\ n = records[k].lead,
             status = "conflict" => records[k] # NoRecord /\ ~SamePayload(c)
      PROVE  IInv'
  <2> DEFINE a == [status |-> status, lead |-> n]
  <2>1. answer' = [answer EXCEPT ![c] = a] /\ pc' = [pc EXCEPT ![c] = "done"]
    BY <1>6 DEF Reply, Goto
  <2>2. a \in Response /\ a.status = status /\ a.lead = n
    BY <1>6 DEF Response, Statuses
  <2> HIDE DEF a
  <2>3. answer'[c] = a
    BY <2>1 DEF IInv, Types
  <2>4. Answer(c)'
    <3>1. CASE status = "replayed"
      BY <1>1, <1>5, <1>6, <2>2, <2>3, <3>1 DEF Answer, Mine, Processed, SamePayload
    <3>2. CASE status = "conflict"
      BY <1>1, <1>5, <1>6, <2>2, <2>3, <3>2 DEF Answer, Mine, Processed, SamePayload
    <3>3. CASE status = "invalid"
      BY <2>2, <2>3, <3>3 DEF Answer
    <3>4. QED
      BY <1>6, <3>1, <3>2, <3>3
  <2>5. QED
    BY <1>1, <1>2, <1>3, <1>4, <2>1, <2>2, <2>4, QuietKeeps DEF Labels
<1>7. CASE Goto(c, "email") /\ UNCHANGED answer
  <2>1. answer' = [answer EXCEPT ![c] = answer[c]] /\ pc' = [pc EXCEPT ![c] = "email"]
    BY <1>7 DEF IInv, Types, Goto
  <2>2. Answer(c)'
    BY <1>1, <1>7 DEF IInv, Answers, Answer, Mine, Processed
  <2>3. QED
    BY <1>1, <1>2, <1>3, <1>4, <2>1, <2>2, QuietKeeps DEF Labels
<1>8. records[k].lead \in Nat
  BY <1>3 DEF Record
<1>9. QED
  BY <1>6, <1>7, <1>8 DEF Lookup

\* What a query finds is stored by then, and stays.
LEMMA DedupKeeps ==
  ASSUME IInv, NEW c \in Clients,
         \/ Dedup(c, "email", "phone") \/ Dedup(c, "phone", "external")
         \/ Dedup(c, "external", "lead")
  PROVE  IInv'
<1>1. PICK hit \in Nat, label \in {"phone", "external", "lead"} :
        /\ hit <= Len(leads)
        /\ local' = [local EXCEPT ![c].duplicate_of = hit]
        /\ pc' = [pc EXCEPT ![c] = label]
  BY Oldest DEF Dedup, Goto, IInv
<1>2. /\ pc[c] \in {"email", "phone", "external"}
      /\ UNCHANGED <<leads, deliveries, records, post, answer, faults>>
  BY DEF Dedup
<1> DEFINE l == [local[c] EXCEPT !.duplicate_of = hit]
<1>3. local' = [local EXCEPT ![c] = l] /\ l \in Local /\ l.duplicate_of = hit
  BY <1>1 DEF IInv, Types, Local
<1> HIDE DEF l
<1>4. answer' = [answer EXCEPT ![c] = answer[c]] /\ answer[c] \in Response
      /\ records' \in [Keys -> Record]
  BY <1>2 DEF IInv, Types
<1>5. RecordsMatch' /\ Answer(c)' /\ ~AtWork(c)
  BY <1>2 DEF IInv, RecordsMatch, Answers, Answer, Mine, Processed, AtWork
<1>6. QED
  BY <1>1, <1>2, <1>3, <1>4, <1>5, QuietKeeps DEF Labels

\* An answer that promises nothing.
LEMMA NoPromise ==
  ASSUME IInv, NEW c \in Clients, NEW label \in {"lookup", "done"},
         NEW a \in Response, a.status \in {"none", "error", "lost"},
         UNCHANGED <<leads, deliveries, records, post, local>>,
         pc' = [pc EXCEPT ![c] = label], answer' = [answer EXCEPT ![c] = a],
         \/ faults' = faults /\ ~AtWork(c)
         \/ faults' = faults + 1
  PROVE  IInv'
<1>1. /\ local' = [local EXCEPT ![c] = local[c]] /\ local[c] \in Local
      /\ local[c].duplicate_of <= Len(leads) /\ records' \in [Keys -> Record]
      /\ answer'[c] = a
  BY DEF IInv, Types, Placed, Place
<1>2. RecordsMatch' /\ Answer(c)'
  BY <1>1 DEF IInv, RecordsMatch, Processed, Answer
<1>3. QED
  BY <1>1, <1>2, QuietKeeps DEF Labels

\* The first request of a key to finish records its lead, which is processed.
LEMMA InsertRecordKeeps ==
  ASSUME IInv, NEW c \in Clients, InsertRecord(c)
  PROVE  IInv'
<1> DEFINE k == post[c].key
           id == local[c].lead
           record == [lead |-> id, payload |-> post[c].payload]
           a == [status |-> "created", lead |-> id]
<1>1. /\ pc[c] = "record" /\ pc' = [pc EXCEPT ![c] = "done"]
      /\ records' = IF records[k] = NoRecord THEN [records EXCEPT ![k] = record] ELSE records
      /\ answer' = [answer EXCEPT ![c] = a]
      /\ UNCHANGED <<leads, deliveries, post, local, faults>>
  BY DEF InsertRecord, Reply, Goto, isFree
<1>2. /\ k \in Keys /\ post[c].payload \in Payloads /\ id \in Nat
      /\ Mine(c, id) /\ Processed(id)
  BY <1>1 DEF IInv, Types, Local, Placed, Place
<1>3. /\ record \in Record /\ record.lead = id /\ record.payload = post[c].payload
      /\ a \in Response /\ a.lead = id
  BY <1>2 DEF Record, Response, Statuses
<1> HIDE DEF record, a, k, id
<1>4. /\ local' = [local EXCEPT ![c] = local[c]] /\ local[c] \in Local
      /\ local[c].duplicate_of <= Len(leads) /\ answer'[c] = a /\ ~AtWork(c)
  BY <1>1 DEF IInv, Types, Placed, Place, AtWork
<1>5. records' \in [Keys -> Record]
  BY <1>1, <1>2, <1>3 DEF IInv, Types
<1>6. RecordsMatch'
  <2> SUFFICES ASSUME NEW j \in Keys, records'[j] # NoRecord
               PROVE  /\ records'[j].lead \in DOMAIN leads /\ Processed(records'[j].lead)
                      /\ leads[records'[j].lead].key = j
                      /\ leads[records'[j].lead].payload = records'[j].payload
    BY <1>1 DEF RecordsMatch, Processed
  <2>1. CASE records'[j] = records[j]
    BY <2>1 DEF IInv, RecordsMatch
  <2>2. CASE records'[j] # records[j]
    <3>1. j = k /\ records'[j] = record
      BY <1>1, <1>2, <2>2 DEF IInv, Types
    <3>2. QED
      BY <1>2, <1>3, <3>1 DEF Mine, k
  <2>3. QED
    BY <2>1, <2>2
<1>7. Answer(c)'
  <2>1. a.status = "created"
    BY DEF a
  <2>2. Mine(c, answer'[c].lead) /\ Processed(answer'[c].lead)
    BY <1>2, <1>3, <1>4
  <2>3. QED
    BY <1>1, <1>4, <2>1, <2>2 DEF Answer, Mine, Processed
<1>8. QED
  BY <1>1, <1>3, <1>4, <1>5, <1>6, <1>7, QuietKeeps DEF Labels
-----------------------------------------------------------------------------
\* No statement, death or repetition breaks the invariant.
LEMMA StepKeeps ==
  ASSUME IInv, [Next]_vars
  PROVE  IInv'
<1>1. CASE UNCHANGED vars
  BY <1>1 DEF vars, IInv, Types, Placed, Place, AtWork, Mine, Processed, Alone, RecordsMatch,
              Answers, Answer, OneLeadPerKey, LinkedBackwards, OrphansCounted, Orphans
<1>2. ASSUME NEW c \in Clients, InsertLead(c) PROVE IInv'
  <2>1. CASE unique(post[c].key)
    <3>1. PICK x \in Nat : x = Len(leads) + 1
      BY DEF IInv, Types
    <3>2. QED
      BY <1>2, <2>1, <3>1, InsertLeadKeeps DEF InsertLead, Goto
  <2>2. CASE ~unique(post[c].key)
    <3>1. [status |-> "error", lead |-> 0] \in Response
      BY DEF Response, Statuses
    <3>2. QED
      BY <1>2, <2>2, <3>1, NoPromise DEF InsertLead, Reply, Goto, AtWork
  <2>3. QED
    BY <2>1, <2>2
<1>3. ASSUME NEW c \in Clients, InsertDelivery(c) \/ Process(c) PROVE IInv'
  BY <1>3, WorkKeeps DEF InsertDelivery, Process, AtWork, Goto
<1>4. ASSUME NEW c \in Clients, Dies(c) PROVE IInv'
  <2>1. [status |-> "lost", lead |-> 0] \in Response
    BY DEF Response, Statuses
  <2>2. QED
    BY <1>4, <2>1, NoPromise DEF Dies, Reply, Goto
<1>5. ASSUME NEW c \in Clients, Retry(c) PROVE IInv'
  <2>1. NoAnswer \in Response /\ NoAnswer.status = "none"
    BY DEF NoAnswer, Response, Statuses
  <2>2. QED
    BY <1>5, <2>1, NoPromise DEF Retry, Goto, AtWork
<1>6. QED
  BY <1>1, <1>2, <1>3, <1>4, <1>5, LookupKeeps, DedupKeeps, InsertRecordKeeps
     DEF Next, Request, Terminating

\* The inductive invariant.
THEOREM ShowcaseIntakeInvariance == Spec => []IInv
  BY InitInv, StepKeeps, PTL DEF Spec

\* A client told 201 or 200 has its lead stored, with its key and payload; 409
\* means that the key belongs to another payload: without any transaction.
THEOREM ShowcaseAnswersTrue == Spec => []AnswersTruthful
<1>1. IInv => AnswersTruthful
  BY DEF IInv, Answers, Answer, Mine, AnswersTruthful
<1>2. QED
  BY <1>1, ShowcaseIntakeInvariance, PTL

\* Only deaths leave leads whose delivery is missing or unprocessed, each death
\* one at most, and no client has been told 201 or 200 for one of them.
THEOREM OnlyDeathsOrphan == Spec => []OrphansOfTheDead
<1>1. IInv => OrphansOfTheDead
  <2> SUFFICES ASSUME IInv PROVE OrphansOfTheDead
    OBVIOUS
  <2>1. Orphans = {i \in DOMAIN leads : deliveries[i] # "processed" /\ \A c \in Clients :
                     ~(pc[c] \in {"delivery", "process"} /\ local[c].lead = i)}
    BY DEF Orphans, Processed, AtWork
  <2>2. \A c \in Clients : answer[c].status \in {"created", "replayed"} =>
          deliveries[answer[c].lead] = "processed"
    BY DEF IInv, Answers, Answer, Processed
  <2>3. QED
    BY <2>1, <2>2 DEF IInv, OrphansCounted, OrphansOfTheDead
<1>2. QED
  BY <1>1, ShowcaseIntakeInvariance, PTL

\* No key has two leads, and a duplicate is linked to a lead before it,
\* although three queries look at three states of the table.
THEOREM LeadsInOrder == Spec => [](OneLeadPerKey /\ LinkedBackwards)
<1>1. IInv => OneLeadPerKey /\ LinkedBackwards
  BY DEF IInv
<1>2. QED
  BY <1>1, ShowcaseIntakeInvariance, PTL
=============================================================================
