----------------------- MODULE ShowcaseDeliveryProofs -----------------------
(***************************************************************************)
(* Theorems about ShowcaseDelivery, for any calls, deliveries and deaths:  *)
(* rows in processing are owned, rows are backed by attempts, what their   *)
(* counters lack is accounted for, and until a failure is simulated on it  *)
(* a row implements DeliveryLifecycle.                                     *)
(***************************************************************************)
EXTENDS ShowcaseDelivery, FiniteSetTheorems, TLAPS

Owning == {"call", "attempt", "update"}
Labels == {"idle", "requeue", "claim", "count", "done", "dead"} \cup Owning
Attempt == [number : Nat, ok : BOOLEAN]

Types ==
  /\ row \in [Deliveries -> Row]
  /\ attempts \in [Deliveries -> Seq(Attempt)]
  /\ pc \in [Calls -> Labels]
  /\ call \in [Calls -> Call]
  /\ frozen \in [Deliveries -> Row]

(***************************************************************************)
(* The inductive invariant.  What a call has claimed says what its update  *)
(* will write; as long as nobody has simulated a failure only one call can *)
(* be between claim and update, and the row is still the one it claimed.   *)
(***************************************************************************)
At(c) ==
  LET d == call[c].delivery
      tried == call[c].claimed.attempt_count
  IN  /\ pc[c] \in {"requeue", "claim"} \cup Owning => d \in Deliveries /\ row[d].status # "absent"
      /\ pc[c] = "requeue" => Simulated(d)
      /\ pc[c] \in Owning => call[c].claimed.status \in Claimable /\ tried <= Len(attempts[d])
      /\ pc[c] = "update" => /\ tried + 1 <= Len(attempts[d])
                             /\ call[c].ok => Succeeded(d) # {}

Placed == \A c \in Calls : At(c)
Frozen == \A d \in Deliveries : Simulated(d) => row[d].status # "absent"

Exclusive ==
  \A d \in Deliveries : ~Simulated(d) =>
    \A c \in Owner(d) : /\ row[d] = [call[c].claimed EXCEPT !.status = "processing"]
                        /\ \A e \in Owner(d) : e = c

SInv == Types /\ Placed /\ Frozen /\ Exclusive /\ ProcessingOwned /\ RowsBacked
-----------------------------------------------------------------------------
\* The null row and the null call have their types.
LEMMA AbsentTypes == Absent \in Row /\ NoCall \in Call
  BY DEF Absent, Row, NoCall, Call

\* Nothing is delivered or claimed at first.
LEMMA InitInv == Init => SInv
<1> SUFFICES ASSUME Init PROVE SInv
  OBVIOUS
<1>1. Types
  BY AbsentTypes DEF Init, Types, Labels
<1>2. Placed /\ Frozen /\ Exclusive /\ ProcessingOwned
  BY DEF Init, Placed, At, Owning, Frozen, Simulated, Exclusive, Owner, ProcessingOwned, Absent
<1>3. RowsBacked
  BY DEF Init, RowsBacked, Absent
<1>4. QED
  BY <1>1, <1>2, <1>3 DEF SInv

\* What the lifecycle shows of an existing row is an existing row.
LEMMA ShownRow ==
  ASSUME SInv, NEW d \in Deliveries, row[d].status # "absent"
  PROVE  shown(d) \in Row /\ shown(d).status # "absent"
<1>1. CASE row[d].status = "processing" /\ Owner(d) # {}
  <2> DEFINE claims == {call[c].claimed : c \in Owner(d)}
  <2>1. shown(d) = CHOOSE r \in claims : TRUE
    BY <1>1 DEF shown
  <2>2. claims # {}
    BY <1>1
  <2>3. shown(d) \in claims
    BY <2>1, <2>2, Zenon
  <2>4. PICK c \in Owner(d) : shown(d) = call[c].claimed
    BY <2>3
  <2>5. c \in Calls /\ pc[c] \in Owning
    BY <2>4 DEF Owner, Owning
  <2>6. call[c].claimed \in Row /\ call[c].claimed.status \in Claimable
    BY <2>5 DEF SInv, Types, Call, Placed, At
  <2>7. QED
    BY <2>4, <2>6 DEF Claimable
<1>2. CASE ~(row[d].status = "processing" /\ Owner(d) # {})
  BY <1>2 DEF shown, SInv, Types
<1>3. QED
  BY <1>1, <1>2

\* The outcome of an attempt is a row, with the attempt's number.
LEMMA SettledRow ==
  ASSUME NEW r \in Row, NEW n \in Nat, NEW ok \in BOOLEAN
  PROVE  /\ settled(r, n, ok) \in Row
         /\ settled(r, n, ok).attempt_count = n
         /\ settled(r, n, ok).status = IF ok THEN "delivered"
                                       ELSE IF n >= MAX_ATTEMPTS THEN "dead_letter" ELSE "failed"
<1> DEFINE status == IF ok THEN "delivered" ELSE IF n >= MAX_ATTEMPTS THEN "dead_letter" ELSE "failed"
           forced == r.force_fail /\ ~ok
<1>1. status \in Claimable \cup {"absent", "processing", "delivered"}
  BY DEF Claimable
<1>2. settled(r, n, ok) = [r EXCEPT !.status = status, !.attempt_count = n, !.force_fail = forced]
  BY DEF settled
<1>3. forced \in BOOLEAN
  OBVIOUS
<1> HIDE DEF status, forced
<1>4. settled(r, n, ok) \in Row /\ settled(r, n, ok).attempt_count = n /\ settled(r, n, ok).status = status
  BY <1>1, <1>2, <1>3 DEF Row
<1>5. QED
  BY <1>4 DEF status
-----------------------------------------------------------------------------
(***************************************************************************)
(* Each action keeps the invariant.                                        *)
(***************************************************************************)

\* A call that begins owns nothing, and no row that others own is touched.
LEMMA BeginKeeps ==
  ASSUME SInv, NEW c \in Calls, NEW d \in Deliveries,
         NEW force \in BOOLEAN, NEW label \in {"requeue", "claim"},
         Begin(c, d, force, label),
         row' \in [Deliveries -> Row], frozen' \in [Deliveries -> Row],
         row'[d].status # "absent",
         row'[d] = row[d] \/ (row[d].status = "absent" /\ row'[d].status = "queued"
                              /\ row'[d].attempt_count = row[d].attempt_count),
         \A e \in Deliveries : e # d => row'[e] = row[e],
         label = "requeue" => Simulated(d)',
         \A e \in Deliveries : Simulated(e) => Simulated(e)',
         \A e \in Deliveries : Simulated(e)' => row'[e].status # "absent"
  PROVE  SInv'
<1> DEFINE new == [NoCall EXCEPT !.delivery = d, !.force_success = force]
<1>1. /\ pc[c] = "idle" /\ pc' = [pc EXCEPT ![c] = label]
      /\ call' = [call EXCEPT ![c] = new] /\ attempts' = attempts
  BY DEF Begin, Goto
<1>2. new \in Call /\ new.delivery = d
  BY AbsentTypes DEF NoCall, Call
<1> HIDE DEF new
<1>3. Types'
  BY <1>1, <1>2 DEF SInv, Types, Labels, Owning
<1>4. \A e \in Deliveries : Owner(e)' = Owner(e)
  BY <1>1, <1>2 DEF SInv, Types, Owner
<1>5. \A e \in Calls : e # c => pc'[e] = pc[e] /\ call'[e] = call[e]
  BY <1>1 DEF SInv, Types
<1>6. pc'[c] = label /\ call'[c] = new
  BY <1>1 DEF SInv, Types
<1>7. \A e \in Deliveries : row[e].status # "absent" => row'[e] = row[e]
  OBVIOUS
<1>8. Placed'
  <2> SUFFICES ASSUME NEW e \in Calls PROVE At(e)'
    BY DEF Placed
  <2>1. CASE e = c
    BY <1>2, <1>6, <2>1 DEF At, Owning
  <2>2. CASE e # c
    BY <1>1, <1>5, <1>7, <2>2 DEF SInv, Placed, At, Owning, Succeeded
  <2>3. QED
    BY <2>1, <2>2
<1>9. Frozen'
  BY DEF Frozen
<1>10. Exclusive'
  <2> SUFFICES ASSUME NEW e \in Deliveries, ~Simulated(e)', NEW o \in Owner(e)'
               PROVE  /\ row'[e] = [call'[o].claimed EXCEPT !.status = "processing"]
                      /\ \A p \in Owner(e)' : p = o
    BY DEF Exclusive
  <2>1. ~Simulated(e) /\ o \in Owner(e) /\ o \in Calls /\ o # c
    BY <1>1, <1>4 DEF Owner
  <2>2. row[e] = [call[o].claimed EXCEPT !.status = "processing"] /\ \A p \in Owner(e) : p = o
    BY <2>1 DEF SInv, Exclusive
  <2>3. row[e].status = "processing"
    BY <2>1, <2>2 DEF SInv, Types, Call, Row
  <2>4. QED
    BY <1>4, <1>5, <1>7, <2>1, <2>2, <2>3
<1>11. ProcessingOwned'
  <2> SUFFICES ASSUME NEW e \in Deliveries, row'[e].status = "processing"
               PROVE  \E o \in Calls : /\ call'[o].delivery = e
                                       /\ pc'[o] \in {"call", "attempt", "update", "dead"}
    BY DEF ProcessingOwned
  <2>1. row[e].status = "processing"
    OBVIOUS
  <2>2. PICK o \in Calls : call[o].delivery = e /\ pc[o] \in {"call", "attempt", "update", "dead"}
    BY <2>1 DEF SInv, ProcessingOwned
  <2>3. QED
    BY <1>1, <1>5, <2>2
<1>12. RowsBacked'
  BY <1>1 DEF SInv, RowsBacked, Succeeded
<1>13. QED
  BY <1>3, <1>8, <1>9, <1>10, <1>11, <1>12 DEF SInv

\* The three server functions.
LEMMA SubmitKeeps ==
  ASSUME SInv, NEW c \in Calls, NEW d \in Deliveries, SubmitIntake(c, d)
  PROVE  SInv'
<1>1. PICK fail \in BOOLEAN : row' = [row EXCEPT ![d].status = "queued", ![d].force_fail = fail]
  BY DEF SubmitIntake
<1>2. row[d].status = "absent" /\ Begin(c, d, FALSE, "claim") /\ frozen' = frozen
  BY DEF SubmitIntake
<1>3. /\ row' \in [Deliveries -> Row] /\ row'[d].status = "queued"
      /\ row'[d].attempt_count = row[d].attempt_count
      /\ \A e \in Deliveries : e # d => row'[e] = row[e]
  BY <1>1 DEF SInv, Types, Row, Claimable
<1>4. \A e \in Deliveries : /\ Simulated(e)' <=> Simulated(e)
                            /\ Simulated(e) => row'[e].status # "absent"
  BY <1>2, <1>3 DEF SInv, Frozen, Simulated
<1>5. frozen' \in [Deliveries -> Row]
  BY <1>2 DEF SInv, Types
<1>6. QED
  BY <1>2, <1>3, <1>4, <1>5, BeginKeeps

\* A retry keeps the invariant.
LEMMA RetryKeeps ==
  ASSUME SInv, NEW c \in Calls, NEW d \in Deliveries, RetryDelivery(c, d)
  PROVE  SInv'
<1>1. row[d].status # "absent" /\ Begin(c, d, TRUE, "claim") /\ row' = row /\ frozen' = frozen
  BY DEF RetryDelivery
<1>2. \A e \in Deliveries : /\ Simulated(e)' <=> Simulated(e)
                            /\ Simulated(e) => row'[e].status # "absent"
  BY <1>1 DEF SInv, Frozen, Simulated
<1>3. row' \in [Deliveries -> Row] /\ frozen' \in [Deliveries -> Row]
  BY <1>1 DEF SInv, Types
<1>4. QED
  BY <1>1, <1>2, <1>3, BeginKeeps

\* A simulated failure keeps the invariant.
LEMMA SimulateKeeps ==
  ASSUME SInv, NEW c \in Calls, NEW d \in Deliveries, SimulateFailureOnDelivery(c, d)
  PROVE  SInv'
<1>1. /\ row[d].status # "absent" /\ Begin(c, d, FALSE, "requeue") /\ row' = row
      /\ frozen' = [frozen EXCEPT ![d] = IF @ = Absent THEN shown(d) ELSE @]
  BY DEF SimulateFailureOnDelivery
<1>2. shown(d) \in Row /\ shown(d) # Absent
  BY <1>1, ShownRow DEF Absent
<1>3. /\ frozen' \in [Deliveries -> Row]
      /\ \A e \in Deliveries : frozen'[e] = IF e = d /\ frozen[e] = Absent THEN shown(d) ELSE frozen[e]
  BY <1>1, <1>2 DEF SInv, Types
<1>4. Simulated(d)' /\ \A e \in Deliveries : Simulated(e) => Simulated(e)'
  BY <1>2, <1>3 DEF Simulated
<1>5. \A e \in Deliveries : Simulated(e)' => row'[e].status # "absent"
  BY <1>1, <1>3 DEF SInv, Frozen, Simulated
<1>6. row' \in [Deliveries -> Row]
  BY <1>1 DEF SInv, Types
<1>7. QED
  BY <1>1, <1>3, <1>4, <1>5, <1>6, BeginKeeps

\* A requeue touches a row on which a failure has been simulated.
LEMMA RequeueKeeps ==
  ASSUME SInv, NEW c \in Calls, Requeue(c)
  PROVE  SInv'
<1> DEFINE d == call[c].delivery
<1>1. /\ pc[c] = "requeue" /\ pc' = [pc EXCEPT ![c] = "claim"]
      /\ row' = [row EXCEPT ![d] = requeued(@)]
      /\ attempts' = attempts /\ call' = call /\ frozen' = frozen
  BY DEF Requeue, Goto
<1>2. d \in Deliveries /\ Simulated(d)
  BY <1>1 DEF SInv, Placed, At
<1> HIDE DEF d
<1>3. /\ row' \in [Deliveries -> Row] /\ row'[d].status = "queued"
      /\ row'[d].attempt_count = row[d].attempt_count
      /\ \A e \in Deliveries : e # d => row'[e] = row[e]
  BY <1>1, <1>2 DEF SInv, Types, Row, requeued, Claimable
<1>4. pc' \in [Calls -> Labels] /\ pc'[c] = "claim" /\ \A e \in Calls : e # c => pc'[e] = pc[e]
  BY <1>1 DEF SInv, Types, Labels, Owning
<1>5. Types'
  BY <1>1, <1>3, <1>4 DEF SInv, Types
<1>6. \A e \in Deliveries : /\ Simulated(e)' <=> Simulated(e)
                            /\ row[e].status # "absent" => row'[e].status # "absent"
                            /\ Owner(e)' = Owner(e)
  BY <1>1, <1>3, <1>4 DEF Simulated, Owner
<1>7. Placed'
  BY <1>1, <1>2, <1>3, <1>4, <1>6 DEF SInv, Placed, At, Owning, Succeeded, d
<1>8. Frozen'
  BY <1>6 DEF SInv, Frozen
<1>9. Exclusive'
  BY <1>1, <1>2, <1>3, <1>6 DEF SInv, Exclusive
<1>10. ProcessingOwned'
  BY <1>1, <1>3, <1>4 DEF SInv, ProcessingOwned
<1>11. RowsBacked'
  BY <1>1, <1>3 DEF SInv, RowsBacked, Succeeded
<1>12. QED
  BY <1>5, <1>7, <1>8, <1>9, <1>10, <1>11 DEF SInv

\* A claim finds no other owner of a row that nobody has simulated a failure on.
LEMMA ClaimKeeps ==
  ASSUME SInv, NEW c \in Calls, Claim(c)
  PROVE  SInv'
<1> DEFINE d == call[c].delivery
<1>1. pc[c] = "claim" /\ attempts' = attempts /\ frozen' = frozen
  BY DEF Claim
<1>2. d \in Deliveries /\ row[d].status # "absent"
  BY <1>1 DEF SInv, Placed, At
<1>3. \A e \in Deliveries : Simulated(e)' <=> Simulated(e)
  BY <1>1 DEF Simulated
<1>4. CASE /\ row[d].status \in Claimable
           /\ row' = [row EXCEPT ![d].status = "processing"]
           /\ call' = [call EXCEPT ![c].claimed = row[d]]
           /\ pc' = [pc EXCEPT ![c] = "call"]
  <2> HIDE DEF d
  <2>1. /\ row' \in [Deliveries -> Row] /\ row'[d] = [row[d] EXCEPT !.status = "processing"]
        /\ row'[d].status = "processing" /\ row'[d].attempt_count = row[d].attempt_count
        /\ \A e \in Deliveries : e # d => row'[e] = row[e]
    BY <1>2, <1>4 DEF SInv, Types, Row
  <2>2. /\ call' \in [Calls -> Call] /\ call'[c].delivery = d /\ call'[c].claimed = row[d]
        /\ \A e \in Calls : e # c => call'[e] = call[e]
    BY <1>2, <1>4 DEF SInv, Types, Call, d
  <2>3. pc' \in [Calls -> Labels] /\ pc'[c] = "call" /\ \A e \in Calls : e # c => pc'[e] = pc[e]
    BY <1>4 DEF SInv, Types, Labels, Owning
  <2>4. Types'
    BY <1>1, <2>1, <2>2, <2>3 DEF SInv, Types
  <2>5. \A e \in Deliveries : row[e].status # "absent" => row'[e].status # "absent"
    BY <2>1
  <2>6. Placed'
    <3> SUFFICES ASSUME NEW e \in Calls PROVE At(e)'
      BY DEF Placed
    <3>1. CASE e = c
      BY <1>2, <1>4, <2>1, <2>2, <2>3, <3>1, <1>1 DEF SInv, RowsBacked, At, Owning
    <3>2. CASE e # c
      BY <1>1, <1>3, <2>2, <2>3, <2>5, <3>2 DEF SInv, Placed, At, Owning, Succeeded
    <3>3. QED
      BY <3>1, <3>2
  <2>7. Frozen'
    BY <1>3, <2>5 DEF SInv, Frozen
  <2>8. \A e \in Deliveries : Owner(e)' = IF e = d THEN Owner(e) \cup {c} ELSE Owner(e)
    BY <2>2, <2>3, <1>1 DEF Owner, d
  <2>9. ~Simulated(d) => Owner(d) = {}
    <3> SUFFICES ASSUME ~Simulated(d), NEW o \in Owner(d) PROVE FALSE
      OBVIOUS
    <3>1. row[d] = [call[o].claimed EXCEPT !.status = "processing"] /\ call[o].claimed \in Row
      BY <1>2 DEF SInv, Exclusive, Types, Call, Owner
    <3>2. row[d].status = "processing"
      BY <3>1 DEF Row
    <3>3. QED
      BY <1>4, <3>2 DEF Claimable, d
  <2>10. Exclusive'
    <3> SUFFICES ASSUME NEW e \in Deliveries, ~Simulated(e)', NEW o \in Owner(e)'
                 PROVE  /\ row'[e] = [call'[o].claimed EXCEPT !.status = "processing"]
                        /\ \A p \in Owner(e)' : p = o
      BY DEF Exclusive
    <3>1. CASE e = d
      BY <1>3, <2>1, <2>2, <2>8, <2>9, <3>1
    <3>2. CASE e # d
      <4>1. o \in Owner(e) /\ o \in Calls /\ o # c /\ ~Simulated(e)
        BY <1>1, <1>3, <2>8, <3>2 DEF Owner
      <4>2. row[e] = [call[o].claimed EXCEPT !.status = "processing"] /\ \A p \in Owner(e) : p = o
        BY <4>1 DEF SInv, Exclusive
      <4>3. row'[e] = row[e] /\ call'[o] = call[o] /\ Owner(e)' = Owner(e)
        BY <2>1, <2>2, <2>8, <3>2, <4>1
      <4>4. QED
        BY <4>2, <4>3
    <3>3. QED
      BY <3>1, <3>2
  <2>11. ProcessingOwned'
    <3> SUFFICES ASSUME NEW e \in Deliveries, row'[e].status = "processing"
                 PROVE  \E o \in Calls : /\ call'[o].delivery = e
                                         /\ pc'[o] \in {"call", "attempt", "update", "dead"}
      BY DEF ProcessingOwned
    <3>1. CASE e = d
      BY <2>2, <2>3, <3>1
    <3>2. CASE e # d
      <4>1. PICK o \in Calls : call[o].delivery = e /\ pc[o] \in {"call", "attempt", "update", "dead"}
        BY <2>1, <3>2 DEF SInv, ProcessingOwned
      <4>2. QED
        BY <1>1, <2>2, <2>3, <4>1
    <3>3. QED
      BY <3>1, <3>2
  <2>12. RowsBacked'
    BY <1>1, <2>1 DEF SInv, RowsBacked, Succeeded
  <2>13. QED
    BY <2>4, <2>6, <2>7, <2>10, <2>11, <2>12 DEF SInv
<1>5. CASE pc' = [pc EXCEPT ![c] = "done"] /\ row' = row /\ call' = call
  <2>1. pc' \in [Calls -> Labels] /\ pc'[c] = "done" /\ \A e \in Calls : e # c => pc'[e] = pc[e]
    BY <1>5 DEF SInv, Types, Labels, Owning
  <2>2. \A e \in Deliveries : Owner(e)' = Owner(e)
    BY <1>1, <1>5, <2>1 DEF Owner
  <2>3. Types' /\ Frozen' /\ RowsBacked'
    BY <1>1, <1>3, <1>5, <2>1 DEF SInv, Types, Frozen, RowsBacked, Succeeded
  <2>4. Placed'
    BY <1>1, <1>3, <1>5, <2>1 DEF SInv, Placed, At, Owning, Succeeded
  <2>5. Exclusive'
    BY <1>3, <1>5, <2>2 DEF SInv, Exclusive
  <2>6. ProcessingOwned'
    BY <1>1, <1>5, <2>1 DEF SInv, ProcessingOwned
  <2>7. QED
    BY <2>3, <2>4, <2>5, <2>6 DEF SInv
<1>6. QED
  BY <1>4, <1>5 DEF Claim, Goto

\* The adapter's answer and the attempt move the call along; its row stays.
LEMMA CallAdapterKeeps ==
  ASSUME SInv, NEW c \in Calls, CallAdapter(c)
  PROVE  SInv'
<1>1. PICK ok \in BOOLEAN : call' = [call EXCEPT ![c].ok = ok]
  BY DEF CallAdapter
<1>2. /\ pc[c] = "call" /\ pc' = [pc EXCEPT ![c] = "attempt"]
      /\ row' = row /\ attempts' = attempts /\ frozen' = frozen
  BY DEF CallAdapter, Goto
<1>3. /\ call' \in [Calls -> Call]
      /\ \A e \in Calls : /\ call'[e].delivery = call[e].delivery
                          /\ call'[e].claimed = call[e].claimed
                          /\ e # c => call'[e] = call[e]
  BY <1>1 DEF SInv, Types, Call
<1>4. pc' \in [Calls -> Labels] /\ pc'[c] = "attempt" /\ \A e \in Calls : e # c => pc'[e] = pc[e]
  BY <1>2 DEF SInv, Types, Labels, Owning
<1>5. \A e \in Deliveries : Owner(e)' = Owner(e) /\ (Simulated(e)' <=> Simulated(e))
  BY <1>2, <1>3, <1>4 DEF Owner, Simulated
<1>6. Types' /\ Frozen' /\ RowsBacked'
  BY <1>2, <1>3, <1>4 DEF SInv, Types, Frozen, Simulated, RowsBacked, Succeeded
<1>7. Placed'
  <2> SUFFICES ASSUME NEW e \in Calls PROVE At(e)'
    BY DEF Placed
  <2>1. At(e)
    BY DEF SInv, Placed
  <2>2. CASE e = c
    BY <1>2, <1>3, <1>4, <2>1, <2>2 DEF At, Owning
  <2>3. CASE e # c
    BY <1>2, <1>3, <1>4, <2>1, <2>3 DEF At, Owning, Simulated, Succeeded
  <2>4. QED
    BY <2>2, <2>3
<1>8. Exclusive'
  BY <1>2, <1>3, <1>5 DEF SInv, Exclusive, Owner
<1>9. ProcessingOwned'
  BY <1>2, <1>3, <1>4 DEF SInv, ProcessingOwned
<1>10. QED
  BY <1>6, <1>7, <1>8, <1>9 DEF SInv

\* The insertion of the attempt keeps the invariant.
LEMMA InsertAttemptKeeps ==
  ASSUME SInv, NEW c \in Calls, InsertAttempt(c)
  PROVE  SInv'
<1> DEFINE d == call[c].delivery
           a == [number |-> attemptNumber(c), ok |-> call[c].ok]
<1>1. /\ pc[c] = "attempt" /\ pc' = [pc EXCEPT ![c] = "update"]
      /\ attempts' = [attempts EXCEPT ![d] = Append(@, a)]
      /\ row' = row /\ call' = call /\ frozen' = frozen
  BY DEF InsertAttempt, Goto, logged
<1>2. /\ d \in Deliveries /\ call[c] \in Call
      /\ call[c].claimed.attempt_count <= Len(attempts[d]) /\ call[c].claimed.attempt_count \in Nat
  BY <1>1 DEF SInv, Placed, At, Owning, Types, Call, Row
<1>3. a \in Attempt
  BY <1>2 DEF Attempt, attemptNumber, Call
<1> DEFINE s == attempts[d]
<1>4. s \in Seq(Attempt)
  BY <1>2 DEF SInv, Types
<1>5. /\ Append(s, a) \in Seq(Attempt) /\ Len(Append(s, a)) = Len(s) + 1 /\ Len(s) \in Nat
      /\ DOMAIN Append(s, a) = 1..(Len(s) + 1) /\ DOMAIN s = 1..Len(s)
      /\ Append(s, a)[Len(s) + 1] = a
      /\ \A k \in DOMAIN s : Append(s, a)[k] = s[k]
  BY <1>3, <1>4
<1>6. attempts'[d] = Append(s, a) /\ \A e \in Deliveries : e # d => attempts'[e] = attempts[e]
  BY <1>1, <1>2 DEF SInv, Types
<1>7. attempts' \in [Deliveries -> Seq(Attempt)]
  BY <1>1, <1>5 DEF SInv, Types
<1>8. \A e \in Deliveries : /\ Len(attempts'[e]) >= Len(attempts[e])
                            /\ Succeeded(e) # {} => Succeeded(e)' # {}
  <2> SUFFICES ASSUME NEW e \in Deliveries
               PROVE  /\ Len(attempts'[e]) >= Len(attempts[e])
                      /\ Succeeded(e) # {} => Succeeded(e)' # {}
    OBVIOUS
  <2>1. CASE e = d
    BY <1>5, <1>6, <2>1 DEF Succeeded
  <2>2. CASE e # d
    BY <1>6, <2>2 DEF SInv, Types, Succeeded
  <2>3. QED
    BY <2>1, <2>2
<1>9. call[c].ok => Succeeded(d)' # {}
  <2> SUFFICES ASSUME call[c].ok PROVE Len(s) + 1 \in Succeeded(d)'
    OBVIOUS
  <2>1. a.ok
    OBVIOUS
  <2>2. QED
    BY <1>1, <1>5, <1>6, <2>1 DEF Succeeded
<1>10. Len(attempts'[d]) = Len(s) + 1
  BY <1>5, <1>6
<1> HIDE DEF a, s, d
<1>11. pc' \in [Calls -> Labels] /\ pc'[c] = "update" /\ \A e \in Calls : e # c => pc'[e] = pc[e]
  BY <1>1 DEF SInv, Types, Labels, Owning
<1>12. Types'
  BY <1>1, <1>7, <1>11 DEF SInv, Types
<1>13. \A e \in Deliveries : Owner(e)' = Owner(e) /\ (Simulated(e)' <=> Simulated(e))
  BY <1>1, <1>11 DEF Owner, Simulated
<1>14. Placed'
  <2> SUFFICES ASSUME NEW e \in Calls PROVE At(e)'
    BY DEF Placed
  <2>1. At(e)
    BY DEF SInv, Placed
  <2>2. CASE e = c
    <3>1. call[c].claimed.attempt_count + 1 <= Len(attempts'[d])
      BY <1>2, <1>5, <1>10 DEF s
    <3>2. QED
      BY <1>1, <1>2, <1>5, <1>9, <1>10, <1>11, <2>1, <2>2, <3>1 DEF At, Owning, d, s
  <2>3. CASE e # c
    <3>1. call[e].claimed.attempt_count \in Nat
      BY DEF SInv, Types, Call, Row
    <3>2. \A f \in Deliveries : Len(attempts[f]) \in Nat /\ Len(attempts'[f]) \in Nat
      BY <1>7 DEF SInv, Types
    <3>3. QED
      BY <1>1, <1>8, <1>11, <1>13, <2>1, <2>3, <3>1, <3>2 DEF At, Owning
  <2>4. QED
    BY <2>2, <2>3
<1>15. Frozen' /\ Exclusive'
  BY <1>1, <1>13 DEF SInv, Frozen, Exclusive
<1>16. ProcessingOwned'
  BY <1>1, <1>11 DEF SInv, ProcessingOwned
<1>17. RowsBacked'
  <2>1. \A e \in Deliveries : /\ row[e].attempt_count \in Nat
                              /\ Len(attempts[e]) \in Nat /\ Len(attempts'[e]) \in Nat
    BY <1>7 DEF SInv, Types, Row
  <2>2. QED
    BY <1>1, <1>8, <2>1 DEF SInv, RowsBacked
<1>18. QED
  BY <1>12, <1>14, <1>15, <1>16, <1>17 DEF SInv

\* The outcome is written over whatever the row has become; it is backed by
\* the attempt that this call has inserted.
LEMMA UpdateRowKeeps ==
  ASSUME SInv, NEW c \in Calls, UpdateRow(c)
  PROVE  SInv'
<1> DEFINE d == call[c].delivery
           n == attemptNumber(c)
           new == settled(row[d], n, call[c].ok)
<1>1. /\ pc[c] = "update" /\ pc' = [pc EXCEPT ![c] = "count"]
      /\ row' = [row EXCEPT ![d] = new]
      /\ attempts' = attempts /\ call' = call /\ frozen' = frozen
  BY DEF UpdateRow, Goto
<1>2. /\ d \in Deliveries /\ n \in Nat /\ call[c].ok \in BOOLEAN /\ row[d] \in Row
      /\ n <= Len(attempts[d])
      /\ call[c].ok => Succeeded(d) # {}
  BY <1>1 DEF SInv, Placed, At, Owning, Types, Call, Row, attemptNumber
<1>3. /\ new \in Row /\ new.attempt_count = n
      /\ new.status = IF call[c].ok THEN "delivered"
                      ELSE IF n >= MAX_ATTEMPTS THEN "dead_letter" ELSE "failed"
  BY <1>2, SettledRow
<1> HIDE DEF d, n, new
<1>4. /\ row' \in [Deliveries -> Row] /\ row'[d] = new
      /\ \A e \in Deliveries : e # d => row'[e] = row[e]
  BY <1>1, <1>2, <1>3 DEF SInv, Types
<1>5. pc' \in [Calls -> Labels] /\ pc'[c] = "count" /\ \A e \in Calls : e # c => pc'[e] = pc[e]
  BY <1>1 DEF SInv, Types, Labels, Owning
<1>6. Types'
  BY <1>1, <1>4, <1>5 DEF SInv, Types
<1>7. \A e \in Deliveries : /\ Simulated(e)' <=> Simulated(e)
                            /\ row[e].status # "absent" => row'[e].status # "absent"
                            /\ Owner(e)' = Owner(e) \ {c}
  BY <1>1, <1>3, <1>4, <1>5 DEF Simulated, Owner
<1>8. Placed' /\ Frozen'
  BY <1>1, <1>5, <1>7 DEF SInv, Placed, At, Owning, Succeeded, Frozen
<1>9. Exclusive'
  <2> SUFFICES ASSUME NEW e \in Deliveries, ~Simulated(e), NEW o \in Owner(e), o # c
               PROVE  /\ row'[e] = [call[o].claimed EXCEPT !.status = "processing"]
                      /\ \A p \in Owner(e) : p = o
    BY <1>1, <1>7 DEF Exclusive
  <2>1. row[e] = [call[o].claimed EXCEPT !.status = "processing"] /\ \A p \in Owner(e) : p = o
    BY DEF SInv, Exclusive
  <2>2. e # d
    BY <1>1, <2>1 DEF Owner, d
  <2>3. QED
    BY <1>4, <2>1, <2>2
<1>10. ProcessingOwned'
  <2> SUFFICES ASSUME NEW e \in Deliveries, row'[e].status = "processing"
               PROVE  \E o \in Calls : /\ call'[o].delivery = e
                                       /\ pc'[o] \in {"call", "attempt", "update", "dead"}
    BY DEF ProcessingOwned
  <2>1. e # d
    BY <1>3, <1>4
  <2>2. PICK o \in Calls : call[o].delivery = e /\ pc[o] \in {"call", "attempt", "update", "dead"}
    BY <1>4, <2>1 DEF SInv, ProcessingOwned
  <2>3. QED
    BY <1>1, <1>5, <2>1, <2>2 DEF d
<1>11. RowsBacked'
  <2> SUFFICES ASSUME NEW e \in Deliveries
               PROVE  /\ row'[e].attempt_count <= Len(attempts[e])
                      /\ row'[e].status = "delivered" => Succeeded(e) # {}
    BY <1>1 DEF RowsBacked, Succeeded
  <2>1. CASE e = d
    BY <1>2, <1>3, <1>4, <2>1
  <2>2. CASE e # d
    BY <1>4, <2>2 DEF SInv, RowsBacked
  <2>3. QED
    BY <2>1, <2>2
<1>12. QED
  BY <1>6, <1>8, <1>9, <1>10, <1>11 DEF SInv

\* A call that counts or dies owns no more; a dead one answers for its row.
LEMMA EndKeeps ==
  ASSUME SInv, NEW c \in Calls, UpdateIntegration(c) \/ Dies(c)
  PROVE  SInv'
<1>1. PICK label \in {"done", "dead"} :
        /\ pc' = [pc EXCEPT ![c] = label]
        /\ pc[c] \in {"call", "attempt", "update", "dead"} => label = "dead"
  BY DEF UpdateIntegration, Dies, Goto
<1>2. row' = row /\ attempts' = attempts /\ call' = call /\ frozen' = frozen
  BY DEF UpdateIntegration, Dies
<1>3. pc' \in [Calls -> Labels] /\ pc'[c] = label /\ \A e \in Calls : e # c => pc'[e] = pc[e]
  BY <1>1 DEF SInv, Types, Labels, Owning
<1>4. \A e \in Deliveries : /\ Simulated(e)' <=> Simulated(e)
                            /\ Owner(e)' = Owner(e) \ {c}
  BY <1>2, <1>3 DEF Simulated, Owner
<1>5. Types' /\ Frozen' /\ RowsBacked'
  BY <1>2, <1>3 DEF SInv, Types, Frozen, Simulated, RowsBacked, Succeeded
<1>6. Placed'
  BY <1>2, <1>3 DEF SInv, Placed, At, Owning, Simulated, Succeeded
<1>7. Exclusive'
  BY <1>2, <1>4 DEF SInv, Exclusive
<1>8. ProcessingOwned'
  BY <1>1, <1>2, <1>3 DEF SInv, ProcessingOwned
<1>9. QED
  BY <1>5, <1>6, <1>7, <1>8 DEF SInv
-----------------------------------------------------------------------------
\* No statement, call or death breaks the invariant.
LEMMA StepKeeps ==
  ASSUME SInv, [Next]_vars
  PROVE  SInv'
<1>1. CASE UNCHANGED vars
  BY <1>1 DEF vars, SInv, Types, Placed, At, Frozen, Simulated, Exclusive, Owner, ProcessingOwned,
              RowsBacked, Succeeded
<1>2. CASE Next
  BY <1>1, <1>2, SubmitKeeps, RetryKeeps, SimulateKeeps, RequeueKeeps, ClaimKeeps, CallAdapterKeeps,
     InsertAttemptKeeps, UpdateRowKeeps, EndKeeps DEF Next, Process, Terminating
<1>3. QED
  BY <1>1, <1>2

\* The inductive invariant.
THEOREM ShowcaseInvariance == Spec => []SInv
  BY InitInv, StepKeeps, PTL DEF Spec

\* Whatever is called on a delivery and in whatever order, a row in processing
\* belongs to a call that will write its outcome, or that died.
THEOREM ProcessingIsOwned == Spec => []ProcessingOwned
<1>1. SInv => ProcessingOwned
  BY DEF SInv
<1>2. QED
  BY <1>1, ShowcaseInvariance, PTL

\* No row counts more attempts than were made or is delivered without a
\* successful one, although simulated failures let calls overwrite each other.
THEOREM RowsAreBacked == Spec => []RowsBacked
<1>1. SInv => RowsBacked
  BY DEF SInv
<1>2. QED
  BY <1>1, ShowcaseInvariance, PTL
-----------------------------------------------------------------------------
(***************************************************************************)
(* The counters.  Every attempt of a delivery belongs to a call that has   *)
(* inserted it, and is counted, about to be counted by a running call, or  *)
(* left uncounted by a dead one.                                           *)
(***************************************************************************)
Counter(ok) == IF ok THEN count.success ELSE count.failure
Pending(ok) == {c \in Calls : pc[c] \in {"update", "count"} /\ call[c].ok = ok}
Open(ok) == {c \in Calls : pc[c] \in {"update", "count", "dead"} /\ call[c].ok = ok}
\* The calls that may have inserted an attempt of d.
Loggers(d) ==
  {c \in Calls : call[c].delivery = d /\ pc[c] \in {"update", "count", "done", "dead"}}

Tallied(ok) ==
  /\ IsFiniteSet(AttemptsBy(ok)) /\ Counter(ok) \in Nat
  /\ Counter(ok) + Cardinality(Pending(ok)) <= Cardinality(AttemptsBy(ok))
  /\ Cardinality(AttemptsBy(ok)) <= Counter(ok) + Cardinality(Open(ok))
CountInv ==
  /\ DOMAIN count = {"success", "failure"}
  /\ \A ok \in BOOLEAN : Tallied(ok)
  /\ \A d \in Deliveries : Len(attempts[d]) <= Cardinality(Loggers(d))

\* Two sets that differ in c alone.
LEMMA OneMore ==
  ASSUME NEW S, NEW T, NEW c, IsFiniteSet(S), IsFiniteSet(T), S \ {c} = T \ {c}
  PROVE  /\ Cardinality(S) \in Nat /\ Cardinality(T) \in Nat
         /\ Cardinality(T) + (IF c \in S THEN 1 ELSE 0) = Cardinality(S) + (IF c \in T THEN 1 ELSE 0)
<1> DEFINE R == S \ {c}
<1>1. IsFiniteSet(R) /\ Cardinality(R) \in Nat
  BY FS_Subset, FS_CardinalityType
<1>2. Cardinality(R \cup {c}) = Cardinality(R) + 1
  BY <1>1, FS_AddElement
<1>3. /\ S = IF c \in S THEN R \cup {c} ELSE R
      /\ T = IF c \in T THEN R \cup {c} ELSE R
  OBVIOUS
<1> HIDE DEF R
<1>4. /\ Cardinality(S) = Cardinality(R) + (IF c \in S THEN 1 ELSE 0)
      /\ Cardinality(T) = Cardinality(R) + (IF c \in T THEN 1 ELSE 0)
  <2>1. CASE c \in S /\ c \in T
    BY <1>2, <1>1, <1>3, <2>1
  <2>2. CASE c \in S /\ c \notin T
    BY <1>2, <1>1, <1>3, <2>2
  <2>3. CASE c \notin S /\ c \in T
    BY <1>2, <1>1, <1>3, <2>3
  <2>4. CASE c \notin S /\ c \notin T
    BY <1>2, <1>1, <1>3, <2>4
  <2>5. QED
    BY <2>1, <2>2, <2>3, <2>4
<1>5. QED
  BY <1>1, <1>4

\* Sets of calls are finite.
LEMMA CallSets ==
  ASSUME NEW S \in SUBSET Calls
  PROVE  /\ IsFiniteSet(S) /\ Cardinality(S) \in Nat /\ Cardinality(S) <= Cardinality(Calls)
         /\ Cardinality(Calls) \in Nat
  BY CallAssumption, FS_Subset, FS_CardinalityType

\* No attempt has been made at first.
LEMMA CountInit == Init => CountInv
<1> SUFFICES ASSUME Init PROVE CountInv
  OBVIOUS
<1>1. \A d \in Deliveries : Len(attempts[d]) = 0 /\ DOMAIN attempts[d] = {}
  BY DEF Init
<1>2. \A d \in Deliveries : Cardinality(Loggers(d)) \in Nat
  BY CallSets DEF Loggers
<1>3. ASSUME NEW ok \in BOOLEAN PROVE Tallied(ok)
  <2>1. AttemptsBy(ok) = {} /\ Pending(ok) = {} /\ Open(ok) = {}
    BY <1>1 DEF AttemptsBy, Pending, Open, Init
  <2>2. Counter(ok) = 0
    BY DEF Counter, Init
  <2>3. Cardinality({}) = 0 /\ IsFiniteSet({})
    BY FS_EmptySet
  <2> QED
    BY <2>1, <2>2, <2>3 DEF Tallied
<1>4. DOMAIN count = {"success", "failure"}
  BY DEF Init
<1>5. QED
  BY <1>1, <1>2, <1>3, <1>4 DEF CountInv

\* A step of c that makes no attempt and counts one at most that c had to count.
LEMMA CountFrame ==
  ASSUME SInv, CountInv, NEW c \in Calls, attempts' = attempts,
         \A e \in Calls \ {c} : pc'[e] = pc[e] /\ call'[e] = call[e],
         \A d \in Deliveries : c \in Loggers(d) => c \in Loggers(d)',
         DOMAIN count' = {"success", "failure"},
         \A ok \in BOOLEAN :
           /\ Counter(ok)' \in Nat
           /\ Counter(ok)' + (IF c \in Pending(ok)' THEN 1 ELSE 0)
                <= Counter(ok) + (IF c \in Pending(ok) THEN 1 ELSE 0)
           /\ Counter(ok) + (IF c \in Open(ok) THEN 1 ELSE 0)
                <= Counter(ok)' + (IF c \in Open(ok)' THEN 1 ELSE 0)
  PROVE  CountInv'
<1>1. ASSUME NEW d \in Deliveries PROVE Len(attempts'[d]) <= Cardinality(Loggers(d)')
  <2>1. Loggers(d) \subseteq Loggers(d)'
    BY DEF Loggers
  <2>2. Loggers(d)' \in SUBSET Calls /\ Loggers(d) \in SUBSET Calls
    BY DEF Loggers
  <2>3. /\ Cardinality(Loggers(d)) <= Cardinality(Loggers(d)')
        /\ Cardinality(Loggers(d)) \in Nat /\ Cardinality(Loggers(d)') \in Nat
    BY <2>1, <2>2, CallSets, FS_Subset
  <2>4. Len(attempts[d]) <= Cardinality(Loggers(d)) /\ Len(attempts[d]) \in Nat
    BY DEF CountInv, SInv, Types
  <2>5. QED
    BY <2>3, <2>4
<1>2. ASSUME NEW ok \in BOOLEAN PROVE Tallied(ok)'
  <2> DEFINE W(S) == IF c \in S THEN 1 ELSE 0
  <2>1. AttemptsBy(ok)' = AttemptsBy(ok)
    BY DEF AttemptsBy
  <2>2. /\ Pending(ok) \in SUBSET Calls /\ Pending(ok)' \in SUBSET Calls
        /\ Open(ok) \in SUBSET Calls /\ Open(ok)' \in SUBSET Calls
        /\ Pending(ok) \ {c} = Pending(ok)' \ {c} /\ Open(ok) \ {c} = Open(ok)' \ {c}
    BY DEF Pending, Open
  <2>3. /\ Cardinality(Pending(ok)) \in Nat /\ Cardinality(Pending(ok)') \in Nat
        /\ Cardinality(Pending(ok)') + W(Pending(ok)) = Cardinality(Pending(ok)) + W(Pending(ok)')
    BY <2>2, CallSets, OneMore
  <2>4. /\ Cardinality(Open(ok)) \in Nat /\ Cardinality(Open(ok)') \in Nat
        /\ Cardinality(Open(ok)') + W(Open(ok)) = Cardinality(Open(ok)) + W(Open(ok)')
    BY <2>2, CallSets, OneMore
  <2>5. /\ Counter(ok) \in Nat /\ Counter(ok)' \in Nat
        /\ Counter(ok)' + W(Pending(ok)') <= Counter(ok) + W(Pending(ok))
        /\ Counter(ok) + W(Open(ok)) <= Counter(ok)' + W(Open(ok)')
    BY DEF CountInv, Tallied
  <2>6. /\ IsFiniteSet(AttemptsBy(ok)) /\ Cardinality(AttemptsBy(ok)) \in Nat
        /\ Counter(ok) + Cardinality(Pending(ok)) <= Cardinality(AttemptsBy(ok))
        /\ Cardinality(AttemptsBy(ok)) <= Counter(ok) + Cardinality(Open(ok))
    BY FS_CardinalityType DEF CountInv, Tallied
  <2>7. \A S : W(S) \in Nat
    OBVIOUS
  <2> HIDE DEF W
  <2>8. /\ Counter(ok)' + Cardinality(Pending(ok)') <= Cardinality(AttemptsBy(ok))
        /\ Cardinality(AttemptsBy(ok)) <= Counter(ok)' + Cardinality(Open(ok)')
    BY <2>3, <2>4, <2>5, <2>6, <2>7
  <2>9. QED
    BY <2>1, <2>5, <2>6, <2>8 DEF Tallied
<1>3. QED
  BY <1>1, <1>2 DEF CountInv

\* A step of c before its attempt is inserted, or after, with no word of counting.
LEMMA CountQuiet ==
  ASSUME SInv, CountInv, NEW c \in Calls, attempts' = attempts, count' = count,
         \A e \in Calls \ {c} : pc'[e] = pc[e] /\ call'[e] = call[e],
         \/ pc[c] \notin {"update", "count", "done", "dead"}
            /\ pc'[c] \notin {"update", "count", "done", "dead"}
         \/ pc[c] = "update" /\ pc'[c] = "count" /\ call'[c] = call[c]
         \/ pc[c] = "claim" /\ pc'[c] = "done"
  PROVE  CountInv'
<1>1. \A d \in Deliveries : c \in Loggers(d) => c \in Loggers(d)'
  BY DEF Loggers
<1>2. ASSUME NEW ok \in BOOLEAN
      PROVE  /\ Counter(ok)' \in Nat
             /\ Counter(ok)' + (IF c \in Pending(ok)' THEN 1 ELSE 0)
                  <= Counter(ok) + (IF c \in Pending(ok) THEN 1 ELSE 0)
             /\ Counter(ok) + (IF c \in Open(ok) THEN 1 ELSE 0)
                  <= Counter(ok)' + (IF c \in Open(ok)' THEN 1 ELSE 0)
  <2>1. Counter(ok)' = Counter(ok) /\ Counter(ok) \in Nat
    BY DEF Counter, CountInv, Tallied
  <2>2. (c \in Pending(ok)' <=> c \in Pending(ok)) /\ (c \in Open(ok)' <=> c \in Open(ok))
    BY DEF Pending, Open
  <2>3. QED
    BY <2>1, <2>2
<1>3. DOMAIN count' = {"success", "failure"}
  BY DEF CountInv
<1>4. QED
  BY <1>1, <1>2, <1>3, CountFrame

\* A call that counts has its attempt to count.
LEMMA CountUp ==
  ASSUME SInv, CountInv, NEW c \in Calls, UpdateIntegration(c)
  PROVE  CountInv'
<1>1. /\ pc[c] = "count" /\ pc'[c] = "done" /\ call' = call /\ attempts' = attempts
      /\ \A e \in Calls \ {c} : pc'[e] = pc[e]
      /\ count' = IF call[c].ok THEN [count EXCEPT !.success = @ + 1]
                  ELSE [count EXCEPT !.failure = @ + 1]
  BY DEF UpdateIntegration, Goto, SInv, Types
<1>2. DOMAIN count = {"success", "failure"} /\ call[c].ok \in BOOLEAN
  BY DEF CountInv, SInv, Types, Call
<1>3. ASSUME NEW ok \in BOOLEAN
      PROVE  /\ Counter(ok)' \in Nat
             /\ Counter(ok)' + (IF c \in Pending(ok)' THEN 1 ELSE 0)
                  <= Counter(ok) + (IF c \in Pending(ok) THEN 1 ELSE 0)
             /\ Counter(ok) + (IF c \in Open(ok) THEN 1 ELSE 0)
                  <= Counter(ok)' + (IF c \in Open(ok)' THEN 1 ELSE 0)
  <2>1. Counter(ok) \in Nat
    BY DEF CountInv, Tallied
  <2>2. c \notin Pending(ok)' /\ c \notin Open(ok)'
    BY <1>1 DEF Pending, Open
  <2>3. CASE call[c].ok = ok
    <3>1. c \in Pending(ok) /\ c \in Open(ok)
      BY <1>1, <2>3 DEF Pending, Open
    <3>2. Counter(ok)' = Counter(ok) + 1
      <4>1. CASE ok
        BY <1>1, <1>2, <2>3, <4>1 DEF Counter
      <4>2. CASE ~ok
        BY <1>1, <1>2, <2>3, <4>2 DEF Counter
      <4>3. QED
        BY <4>1, <4>2
    <3>3. QED
      BY <2>1, <2>2, <3>1, <3>2
  <2>4. CASE call[c].ok # ok
    <3>1. c \notin Pending(ok) /\ c \notin Open(ok)
      BY <2>4 DEF Pending, Open
    <3>2. Counter(ok)' = Counter(ok)
      <4>1. CASE ok
        BY <1>1, <1>2, <2>4, <4>1 DEF Counter
      <4>2. CASE ~ok
        BY <1>1, <1>2, <2>4, <4>2 DEF Counter
      <4>3. QED
        BY <4>1, <4>2
    <3>3. QED
      BY <2>1, <2>2, <3>1, <3>2
  <2>5. QED
    BY <2>3, <2>4
<1>4. /\ DOMAIN count' = {"success", "failure"}
      /\ \A d \in Deliveries : c \in Loggers(d) => c \in Loggers(d)'
  BY <1>1, <1>2 DEF Loggers
<1>5. QED
  BY <1>1, <1>3, <1>4, CountFrame

\* A call that dies leaves its attempt uncounted, if it had one.
LEMMA CountDies ==
  ASSUME SInv, CountInv, NEW c \in Calls, Dies(c)
  PROVE  CountInv'
<1>1. /\ pc[c] \notin {"idle", "done", "dead"} /\ pc'[c] = "dead"
      /\ call' = call /\ attempts' = attempts /\ count' = count
      /\ \A e \in Calls \ {c} : pc'[e] = pc[e]
  BY DEF Dies, Running, Goto, SInv, Types
<1>2. ASSUME NEW ok \in BOOLEAN
      PROVE  /\ Counter(ok)' \in Nat
             /\ Counter(ok)' + (IF c \in Pending(ok)' THEN 1 ELSE 0)
                  <= Counter(ok) + (IF c \in Pending(ok) THEN 1 ELSE 0)
             /\ Counter(ok) + (IF c \in Open(ok) THEN 1 ELSE 0)
                  <= Counter(ok)' + (IF c \in Open(ok)' THEN 1 ELSE 0)
  <2>1. Counter(ok)' = Counter(ok) /\ Counter(ok) \in Nat
    BY <1>1 DEF Counter, CountInv, Tallied
  <2>2. c \notin Pending(ok)' /\ (c \in Open(ok) => c \in Open(ok)')
    BY <1>1 DEF Pending, Open
  <2>3. QED
    BY <2>1, <2>2
<1>3. /\ DOMAIN count' = {"success", "failure"}
      /\ \A d \in Deliveries : c \in Loggers(d) => c \in Loggers(d)'
  BY <1>1 DEF Loggers, CountInv
<1>4. QED
  BY <1>1, <1>2, <1>3, CountFrame

\* An attempt that is inserted is the call's to count.
LEMMA CountInsert ==
  ASSUME SInv, CountInv, NEW c \in Calls, InsertAttempt(c)
  PROVE  CountInv'
<1>0. PICK d \in Deliveries : d = call[c].delivery
  BY DEF InsertAttempt, SInv, Placed, At, Owning
<1> DEFINE a == [number |-> attemptNumber(c), ok |-> call[c].ok]
           s == attempts[d]
           n == Len(s) + 1
<1>1. /\ pc[c] = "attempt" /\ pc'[c] = "update" /\ call' = call /\ count' = count
      /\ attempts' = [attempts EXCEPT ![d] = Append(@, a)]
      /\ \A e \in Calls \ {c} : pc'[e] = pc[e]
  BY <1>0 DEF InsertAttempt, Goto, logged, SInv, Types
<1>2. /\ s \in Seq(Attempt) /\ Len(s) \in Nat /\ call[c].ok \in BOOLEAN
      /\ call[c].claimed.attempt_count \in Nat
  BY DEF SInv, Types, Call, Row
<1>3. a \in Attempt /\ a.ok = call[c].ok
  BY <1>2 DEF Attempt, attemptNumber
<1> HIDE DEF a
<1>4. /\ attempts'[d] = Append(s, a) /\ Len(attempts'[d]) = n
      /\ \A e \in Deliveries \ {d} : attempts'[e] = attempts[e]
      /\ DOMAIN s = 1..Len(s) /\ DOMAIN attempts'[d] = 1..n
      /\ attempts'[d][n] = a /\ \A k \in 1..Len(s) : attempts'[d][k] = s[k]
  BY <1>1, <1>2, <1>3 DEF SInv, Types
<1>5. n <= Cardinality(Calls) /\ Cardinality(Loggers(d)') = Cardinality(Loggers(d)) + 1
      /\ Cardinality(Loggers(d)) \in Nat /\ Cardinality(Calls) \in Nat
  <2>1. Loggers(d)' = Loggers(d) \cup {c} /\ c \notin Loggers(d)
    BY <1>0, <1>1 DEF Loggers
  <2>2. Loggers(d) \in SUBSET Calls /\ Loggers(d) \cup {c} \in SUBSET Calls
    BY DEF Loggers
  <2>3. Cardinality(Loggers(d) \cup {c}) = Cardinality(Loggers(d)) + 1
    BY <2>1, <2>2, CallSets, FS_AddElement
  <2>4. /\ Cardinality(Loggers(d)) \in Nat /\ Cardinality(Calls) \in Nat
        /\ Cardinality(Loggers(d) \cup {c}) <= Cardinality(Calls)
    BY <2>2, CallSets
  <2>5. Len(s) <= Cardinality(Loggers(d))
    BY DEF CountInv
  <2>6. QED
    BY <1>2, <2>1, <2>3, <2>4, <2>5
<1>6. ASSUME NEW e \in Deliveries PROVE Len(attempts'[e]) <= Cardinality(Loggers(e)')
  <2>1. CASE e = d
    BY <1>2, <1>4, <1>5, <2>1 DEF CountInv
  <2>2. CASE e # d
    <3>1. Loggers(e)' = Loggers(e)
      BY <1>0, <1>1, <2>2 DEF Loggers
    <3>2. QED
      BY <1>4, <2>2, <3>1 DEF CountInv
  <2>3. QED
    BY <2>1, <2>2
<1>7. ASSUME NEW ok \in BOOLEAN PROVE Tallied(ok)'
  <2>1. /\ Counter(ok)' = Counter(ok) /\ Counter(ok) \in Nat
        /\ IsFiniteSet(AttemptsBy(ok)) /\ Cardinality(AttemptsBy(ok)) \in Nat
        /\ Counter(ok) + Cardinality(Pending(ok)) <= Cardinality(AttemptsBy(ok))
        /\ Cardinality(AttemptsBy(ok)) <= Counter(ok) + Cardinality(Open(ok))
    BY <1>1, FS_CardinalityType DEF Counter, CountInv, Tallied
  <2>2. Pending(ok) \in SUBSET Calls /\ Open(ok) \in SUBSET Calls
    BY DEF Pending, Open
  <2>3. CASE call[c].ok = ok
    <3>1. Pending(ok)' = Pending(ok) \cup {c} /\ Open(ok)' = Open(ok) \cup {c}
          /\ c \notin Pending(ok) /\ c \notin Open(ok)
      BY <1>1, <2>3 DEF Pending, Open
    <3>2. /\ Cardinality(Pending(ok)') = Cardinality(Pending(ok)) + 1
          /\ Cardinality(Open(ok)') = Cardinality(Open(ok)) + 1
          /\ Cardinality(Pending(ok)) \in Nat /\ Cardinality(Open(ok)) \in Nat
      BY <2>2, <3>1, CallSets, FS_AddElement
    <3>3. AttemptsBy(ok)' = AttemptsBy(ok) \cup {<<d, n>>} /\ <<d, n>> \notin AttemptsBy(ok)
      <4>1. <<d, n>> \notin AttemptsBy(ok)
        BY <1>2, <1>4 DEF AttemptsBy
      <4>2. <<d, n>> \in AttemptsBy(ok)'
        BY <1>2, <1>3, <1>4, <1>5, <2>3 DEF AttemptsBy
      <4>3. ASSUME NEW e \in Deliveries, NEW k \in 1..Cardinality(Calls), <<e, k>> # <<d, n>>
            PROVE  <<e, k>> \in AttemptsBy(ok)' <=> <<e, k>> \in AttemptsBy(ok)
        <5>1. CASE e = d
          <6>1. k # n
            BY <4>3, <5>1
          <6>2. k \in DOMAIN attempts'[d] <=> k \in DOMAIN s
            BY <1>2, <1>4, <6>1
          <6>3. QED
            BY <1>4, <5>1, <6>2 DEF AttemptsBy
        <5>2. CASE e # d
          BY <1>4, <5>2 DEF AttemptsBy
        <5>3. QED
          BY <5>1, <5>2
      <4>4. \A p \in AttemptsBy(ok)' \cup AttemptsBy(ok) :
              p[1] \in Deliveries /\ p[2] \in 1..Cardinality(Calls) /\ p = <<p[1], p[2]>>
        BY DEF AttemptsBy
      <4>5. QED
        BY <4>1, <4>2, <4>3, <4>4
    <3>4. /\ IsFiniteSet(AttemptsBy(ok)')
          /\ Cardinality(AttemptsBy(ok)') = Cardinality(AttemptsBy(ok)) + 1
      <4>1. /\ IsFiniteSet(AttemptsBy(ok) \cup {<<d, n>>})
            /\ Cardinality(AttemptsBy(ok) \cup {<<d, n>>}) = Cardinality(AttemptsBy(ok)) + 1
        BY <2>1, <3>3, FS_AddElement
      <4>2. QED
        BY <3>3, <4>1
    <3>5. QED
      BY <2>1, <3>2, <3>4 DEF Tallied
  <2>4. CASE call[c].ok # ok
    <3>1. Pending(ok)' = Pending(ok) /\ Open(ok)' = Open(ok)
      BY <1>1, <2>4 DEF Pending, Open
    <3>2. AttemptsBy(ok)' = AttemptsBy(ok)
      <4>1. ASSUME NEW e \in Deliveries, NEW k \in 1..Cardinality(Calls)
            PROVE  <<e, k>> \in AttemptsBy(ok)' <=> <<e, k>> \in AttemptsBy(ok)
        <5>1. CASE e = d /\ k = n
          BY <1>2, <1>3, <1>4, <2>4, <5>1 DEF AttemptsBy
        <5>2. CASE e = d /\ k # n
          <6>1. k \in DOMAIN attempts'[d] <=> k \in DOMAIN s
            BY <1>2, <1>4, <5>2
          <6>2. QED
            BY <1>4, <5>2, <6>1 DEF AttemptsBy
        <5>3. CASE e # d
          BY <1>4, <5>3 DEF AttemptsBy
        <5>4. QED
          BY <5>1, <5>2, <5>3
      <4>2. \A p \in AttemptsBy(ok)' \cup AttemptsBy(ok) :
              p[1] \in Deliveries /\ p[2] \in 1..Cardinality(Calls) /\ p = <<p[1], p[2]>>
        BY DEF AttemptsBy
      <4>3. QED
        BY <4>1, <4>2
    <3>3. QED
      BY <2>1, <3>1, <3>2 DEF Tallied
  <2>5. QED
    BY <2>3, <2>4
<1>8. QED
  BY <1>1, <1>6, <1>7 DEF CountInv

\* Every step keeps the counters in account.
LEMMA CountStep ==
  ASSUME SInv, CountInv, [Next]_vars
  PROVE  CountInv'
<1>1. CASE UNCHANGED vars
  <2>1. /\ \A ok \in BOOLEAN : /\ AttemptsBy(ok)' = AttemptsBy(ok) /\ Counter(ok)' = Counter(ok)
                               /\ Pending(ok)' = Pending(ok) /\ Open(ok)' = Open(ok)
        /\ \A d \in Deliveries : Loggers(d)' = Loggers(d) /\ attempts'[d] = attempts[d]
        /\ count' = count
    BY <1>1 DEF vars, AttemptsBy, Counter, Pending, Open, Loggers
  <2>2. QED
    BY <2>1 DEF CountInv, Tallied
<1>2. ASSUME NEW c \in Calls, NEW d \in Deliveries,
             SubmitIntake(c, d) \/ RetryDelivery(c, d) \/ SimulateFailureOnDelivery(c, d)
      PROVE  CountInv'
  <2>1. PICK force \in BOOLEAN, label \in {"claim", "requeue"} : Begin(c, d, force, label)
    BY <1>2 DEF SubmitIntake, RetryDelivery, SimulateFailureOnDelivery
  <2>2. /\ pc[c] = "idle" /\ pc'[c] = label /\ attempts' = attempts /\ count' = count
        /\ \A e \in Calls \ {c} : pc'[e] = pc[e] /\ call'[e] = call[e]
    BY <2>1 DEF Begin, Goto, SInv, Types
  <2>3. QED
    BY <2>2, CountQuiet
<1>3. ASSUME NEW c \in Calls, Requeue(c) \/ Claim(c) \/ CallAdapter(c) \/ UpdateRow(c)
      PROVE  CountInv'
  <2>1. /\ attempts' = attempts /\ count' = count
        /\ \A e \in Calls \ {c} : pc'[e] = pc[e] /\ call'[e] = call[e]
    BY <1>3 DEF Requeue, Claim, CallAdapter, UpdateRow, Goto, SInv, Types
  <2>2. \/ pc[c] \notin {"update", "count", "done", "dead"}
           /\ pc'[c] \notin {"update", "count", "done", "dead"}
        \/ pc[c] = "update" /\ pc'[c] = "count" /\ call'[c] = call[c]
        \/ pc[c] = "claim" /\ pc'[c] = "done"
    BY <1>3 DEF Requeue, Claim, CallAdapter, UpdateRow, Goto, SInv, Types
  <2>3. QED
    BY <2>1, <2>2, CountQuiet
<1>4. QED
  BY <1>1, <1>2, <1>3, CountUp, CountDies, CountInsert DEF Next, Process, Terminating

\* Although attempt, row and counter are three statements that other calls and
\* deaths come between, the counters of an integration lack only what running and
\* dead calls have not added, and count nothing twice.
THEOREM CountersAccounted == Spec => []AttemptsAccounted
<1>1. SInv /\ CountInv => AttemptsAccounted
  <2> SUFFICES ASSUME SInv, CountInv PROVE AttemptsAccounted
    OBVIOUS
  <2>1. Tallied(TRUE) /\ Tallied(FALSE) /\ RowsBacked
    BY DEF CountInv, SInv
  <2>2. Counter(TRUE) = count.success /\ Counter(FALSE) = count.failure
    BY DEF Counter
  <2>3. \A ok \in BOOLEAN : Cardinality(Pending(ok)) \in Nat /\ Cardinality(AttemptsBy(ok)) \in Nat
    BY CallSets, FS_CardinalityType DEF Pending, CountInv, Tallied
  <2>4. /\ count.success <= Cardinality(AttemptsBy(TRUE))
        /\ Cardinality(AttemptsBy(TRUE)) <= count.success + Cardinality(Open(TRUE))
        /\ count.failure <= Cardinality(AttemptsBy(FALSE))
        /\ Cardinality(AttemptsBy(FALSE)) <= count.failure + Cardinality(Open(FALSE))
    <3>1. ASSUME NEW ok \in BOOLEAN, Tallied(ok)
          PROVE  /\ Counter(ok) <= Cardinality(AttemptsBy(ok))
                 /\ Cardinality(AttemptsBy(ok)) <= Counter(ok) + Cardinality(Open(ok))
      BY <2>3, <3>1 DEF Tallied
    <3>2. QED
      BY <2>1, <2>2, <3>1
  <2>5. QED
    BY <2>1, <2>4 DEF AttemptsAccounted, Open
<1>2. QED
  BY <1>1, InitInv, StepKeeps, CountInit, CountStep, PTL DEF Spec
-----------------------------------------------------------------------------
(***************************************************************************)
(* The refinement: what the lifecycle sees of a row is frozen once a       *)
(* failure has been simulated on it; before, it moves with the row, but    *)
(* keeps what the owner has claimed until the outcome is written.          *)
(***************************************************************************)
Seen(d) == IF Simulated(d) THEN frozen[d] ELSE shown(d)

\* The row of an owner is shown as the owner claimed it.
LEMMA ShownOwned ==
  ASSUME SInv, NEW d \in Deliveries, ~Simulated(d), NEW c \in Owner(d)
  PROVE  /\ shown(d) = call[c].claimed
         /\ row[d] = [call[c].claimed EXCEPT !.status = "processing"]
         /\ call[c].claimed \in Row /\ call[c].claimed.status \in Claimable
         /\ Owner(d) = {c}
<1>1. row[d] = [call[c].claimed EXCEPT !.status = "processing"] /\ Owner(d) = {c}
  BY DEF SInv, Exclusive
<1>2. c \in Calls /\ pc[c] \in Owning
  BY DEF Owner, Owning
<1>3. call[c].claimed \in Row /\ call[c].claimed.status \in Claimable
  BY <1>2 DEF SInv, Types, Call, Placed, At
<1>4. row[d].status = "processing"
  BY <1>1, <1>3 DEF Row
<1>5. {call[e].claimed : e \in Owner(d)} = {call[c].claimed}
  BY <1>1
<1>6. shown(d) = CHOOSE r \in {call[c].claimed} : TRUE
  BY <1>1, <1>4, <1>5 DEF shown
<1>7. shown(d) = call[c].claimed
  <2>1. \A r \in {call[c].claimed} : r = call[c].claimed
    OBVIOUS
  <2>2. (CHOOSE r \in {call[c].claimed} : TRUE) \in {call[c].claimed}
    BY Zenon
  <2>3. QED
    BY <1>6, <2>1, <2>2
<1>8. QED
  BY <1>1, <1>3, <1>7

\* What a delivery shows depends on its row, its owners and what they claimed.
LEMMA ShownSame ==
  ASSUME NEW d \in Deliveries, row'[d] = row[d], frozen'[d] = frozen[d], Owner(d)' = Owner(d),
         \A c \in Owner(d) : call'[c].claimed = call[c].claimed
  PROVE  Seen(d)' = Seen(d)
<1>1. {call'[c].claimed : c \in Owner(d)'} = {call[c].claimed : c \in Owner(d)}
  OBVIOUS
<1>2. shown(d)' = shown(d)
  BY <1>1 DEF shown
<1>3. QED
  BY <1>2 DEF Seen, Simulated

\* The lifecycle stutters when it sees no row differently.
LEMMA Stutters ==
  ASSUME \A d \in Deliveries : Seen(d)' = Seen(d)
  PROVE  UNCHANGED Lifecycle!vars
  BY DEF Lifecycle!vars, Seen

\* When it sees one row differently, its functions change there.
LEMMA Moves ==
  ASSUME NEW d \in Deliveries, \A e \in Deliveries : e # d => Seen(e)' = Seen(e)
  PROVE  /\ [e \in Deliveries |-> Seen(e).status]'
              = [[e \in Deliveries |-> Seen(e).status] EXCEPT ![d] = Seen(d)'.status]
         /\ [e \in Deliveries |-> Seen(e).attempt_count]'
              = [[e \in Deliveries |-> Seen(e).attempt_count] EXCEPT ![d] = Seen(d)'.attempt_count]
  OBVIOUS

\* A delivery is inserted: it is accepted.
LEMMA SubmitImplements ==
  ASSUME SInv, NEW c \in Calls, NEW d \in Deliveries, SubmitIntake(c, d)
  PROVE  Lifecycle!Accept(d)
<1>1. PICK fail \in BOOLEAN :
        row' = [row EXCEPT ![d].status = "queued", ![d].force_fail = fail]
  BY DEF SubmitIntake
<1>2. /\ row[d].status = "absent" /\ row[d] \in Row /\ frozen' = frozen
      /\ pc[c] = "idle" /\ pc' = [pc EXCEPT ![c] = "claim"]
      /\ call' = [call EXCEPT ![c] = [NoCall EXCEPT !.delivery = d, !.force_success = FALSE]]
  BY DEF SubmitIntake, Begin, Goto, SInv, Types
<1>3. /\ row'[d].status = "queued" /\ row'[d].attempt_count = row[d].attempt_count
      /\ \A e \in Deliveries : e # d => row'[e] = row[e]
  BY <1>1, <1>2 DEF SInv, Types, Row
<1>4. \A e \in Deliveries : Owner(e)' = Owner(e) /\ c \notin Owner(e)
  BY <1>2 DEF SInv, Types, Owner
<1>5. \A e \in Deliveries : e # d => Seen(e)' = Seen(e)
  <2> SUFFICES ASSUME NEW e \in Deliveries, e # d PROVE Seen(e)' = Seen(e)
    OBVIOUS
  <2>1. \A o \in Owner(e) : call'[o].claimed = call[o].claimed
    BY <1>2, <1>4 DEF SInv, Types, Owner
  <2>2. QED
    BY <1>2, <1>3, <1>4, <2>1, ShownSame
<1>6. ~Simulated(d) /\ ~Simulated(d)'
  BY <1>2 DEF SInv, Frozen, Simulated
<1>7. Seen(d) = row[d] /\ Seen(d)' = row'[d]
  BY <1>2, <1>3, <1>6 DEF Seen, shown
<1>8. QED
  <2> DEFINE status == [e \in Deliveries |-> Seen(e).status]
             tries == [e \in Deliveries |-> Seen(e).attempt_count]
  <2>1. /\ status' = [status EXCEPT ![d] = Seen(d)'.status]
        /\ tries' = [tries EXCEPT ![d] = Seen(d)'.attempt_count]
    BY <1>5, Moves
  <2>2. Seen(d)'.status = "queued" /\ Seen(d)'.attempt_count = Seen(d).attempt_count
    BY <1>3, <1>7
  <2>3. status[d] = "absent" /\ tries[d] = Seen(d).attempt_count
    BY <1>2, <1>7
  <2>4. tries' = tries
    BY <2>1, <2>2, <2>3
  <2>5. status' = [status EXCEPT ![d] = "queued"]
    BY <2>1, <2>2
  <2>6. QED
    BY <2>3, <2>4, <2>5 DEF Lifecycle!Accept, Seen

\* What is simulated is frozen as it was shown.
LEMMA SimulateImplements ==
  ASSUME SInv, NEW c \in Calls, NEW d \in Deliveries, SimulateFailureOnDelivery(c, d)
  PROVE  UNCHANGED Lifecycle!vars
<1>1. /\ row[d].status # "absent" /\ row' = row
      /\ frozen' = [frozen EXCEPT ![d] = IF @ = Absent THEN shown(d) ELSE @]
      /\ pc[c] = "idle" /\ pc' = [pc EXCEPT ![c] = "requeue"]
      /\ call' = [call EXCEPT ![c] = [NoCall EXCEPT !.delivery = d, !.force_success = FALSE]]
  BY DEF SimulateFailureOnDelivery, Begin, Goto
<1>2. /\ frozen'[d] = IF frozen[d] = Absent THEN shown(d) ELSE frozen[d]
      /\ \A e \in Deliveries : e # d => frozen'[e] = frozen[e]
  BY <1>1 DEF SInv, Types
<1>3. \A e \in Deliveries : e # d => Seen(e)' = Seen(e)
  <2> SUFFICES ASSUME NEW e \in Deliveries, e # d PROVE Seen(e)' = Seen(e)
    OBVIOUS
  <2>1. Owner(e)' = Owner(e) /\ \A o \in Owner(e) : call'[o].claimed = call[o].claimed
    BY <1>1 DEF SInv, Types, Owner
  <2>2. QED
    BY <1>1, <1>2, <2>1, ShownSame
<1>4. Seen(d)' = Seen(d)
  <2>1. shown(d) # Absent
    BY <1>1, ShownRow DEF Absent
  <2>2. Seen(d)' = frozen'[d]
    BY <1>2, <2>1 DEF Seen, Simulated
  <2>3. QED
    BY <1>2, <2>2 DEF Seen, Simulated
<1>5. QED
  BY <1>3, <1>4, Stutters

\* Only a simulated row is put back into the queue.
LEMMA RequeueImplements ==
  ASSUME SInv, NEW c \in Calls, Requeue(c)
  PROVE  UNCHANGED Lifecycle!vars
<1> DEFINE d == call[c].delivery
<1>1. /\ pc[c] = "requeue" /\ pc' = [pc EXCEPT ![c] = "claim"]
      /\ row' = [row EXCEPT ![d] = requeued(@)]
      /\ call' = call /\ frozen' = frozen
  BY DEF Requeue, Goto
<1>2. d \in Deliveries /\ Simulated(d)
  BY <1>1 DEF SInv, Placed, At
<1>3. SUFFICES ASSUME NEW e \in Deliveries PROVE Seen(e)' = Seen(e)
  BY Stutters
<1>4. CASE e = d
  BY <1>1, <1>2, <1>4 DEF Seen, Simulated
<1>5. CASE e # d
  <2>1. row'[e] = row[e]
    BY <1>1, <1>5 DEF SInv, Types
  <2>2. Owner(e)' = Owner(e)
    BY <1>1 DEF SInv, Types, Owner
  <2>3. QED
    BY <1>1, <2>1, <2>2, ShownSame
<1>6. QED
  BY <1>4, <1>5

\* A claim is not seen: the row is shown as it was claimed.
LEMMA ClaimImplements ==
  ASSUME SInv, NEW c \in Calls, Claim(c)
  PROVE  UNCHANGED Lifecycle!vars
<1> DEFINE d == call[c].delivery
<1>1. pc[c] = "claim" /\ frozen' = frozen /\ d \in Deliveries /\ row[d] \in Row
  BY DEF Claim, SInv, Placed, At, Types
<1>2. CASE row[d].status \in Claimable
  <2>1. /\ row' = [row EXCEPT ![d].status = "processing"]
        /\ call' = [call EXCEPT ![c].claimed = row[d]]
        /\ pc' = [pc EXCEPT ![c] = "call"]
    BY <1>2 DEF Claim, Goto
  <2>2. /\ call'[c].delivery = d /\ call'[c].claimed = row[d]
        /\ \A e \in Calls : e # c => call'[e] = call[e] /\ pc'[e] = pc[e]
        /\ pc'[c] = "call"
    BY <2>1 DEF SInv, Types, Call
  <2>3. SUFFICES ASSUME NEW e \in Deliveries PROVE Seen(e)' = Seen(e)
    BY Stutters
  <2>4. CASE e # d
    <3>1. row'[e] = row[e]
      BY <1>1, <2>1, <2>4 DEF SInv, Types
    <3>2. Owner(e)' = Owner(e) /\ c \notin Owner(e)
      BY <1>1, <2>2, <2>4 DEF Owner
    <3>3. \A o \in Owner(e) : call'[o].claimed = call[o].claimed
      BY <2>2, <3>2 DEF Owner
    <3>4. QED
      BY <1>1, <3>1, <3>2, <3>3, ShownSame
  <2>5. CASE e = d /\ Simulated(d)
    BY <1>1, <2>5 DEF Seen, Simulated
  <2>6. CASE e = d /\ ~Simulated(d)
    <3>1. row[e].status # "processing"
      BY <1>2, <2>6 DEF Claimable
    <3>2. Owner(e) = {}
      <4>1. ASSUME NEW o \in Owner(e) PROVE FALSE
        BY <1>1, <2>6, <3>1, <4>1, ShownOwned DEF Row
      <4>2. QED
        BY <4>1
    <3>3. Owner(e)' = {c}
      BY <1>1, <2>2, <2>6, <3>2 DEF Owner
    <3>4. {call'[o].claimed : o \in Owner(e)'} = {row[e]}
      BY <2>2, <2>6, <3>3
    <3>5. row'[e].status = "processing"
      BY <1>1, <2>1, <2>6 DEF SInv, Types, Row
    <3>6. shown(e)' = CHOOSE r \in {row[e]} : TRUE
      BY <3>3, <3>4, <3>5 DEF shown
    <3>7. (CHOOSE r \in {row[e]} : TRUE) \in {row[e]}
      BY Zenon
    <3>8. shown(e)' = row[e]
      BY <3>6, <3>7
    <3>9. ~Simulated(e) /\ ~Simulated(e)' /\ shown(e) = row[e]
      BY <1>1, <2>6, <3>1 DEF Simulated, shown
    <3>10. QED
      BY <3>8, <3>9 DEF Seen
  <2>7. QED
    BY <2>4, <2>5, <2>6
<1>3. CASE row[d].status \notin Claimable
  <2>1. row' = row /\ call' = call /\ pc' = [pc EXCEPT ![c] = "done"]
    BY <1>3 DEF Claim, Goto
  <2>2. \A e \in Deliveries : Owner(e)' = Owner(e)
    BY <1>1, <2>1 DEF SInv, Types, Owner
  <2>3. \A e \in Deliveries : Seen(e)' = Seen(e)
    BY <1>1, <2>1, <2>2, ShownSame
  <2>4. QED
    BY <2>3, Stutters
<1>4. QED
  BY <1>2, <1>3

\* The outcome is one atomic attempt, unless a failure has been simulated.
LEMMA UpdateRowImplements ==
  ASSUME SInv, NEW c \in Calls, UpdateRow(c),
         NEW d \in Deliveries, d = call[c].delivery
  PROVE  Lifecycle!Try(d) \/ UNCHANGED Lifecycle!vars
<1> DEFINE n == call[c].claimed.attempt_count + 1
           ok == call[c].ok
<1>1. /\ pc[c] = "update" /\ pc' = [pc EXCEPT ![c] = "count"]
      /\ row' = [row EXCEPT ![d] = settled(row[d], n, ok)]
      /\ call' = call /\ frozen' = frozen
  BY DEF UpdateRow, Goto, attemptNumber
<1>2. row[d] \in Row /\ n \in Nat /\ ok \in BOOLEAN /\ c \in Owner(d)
  BY <1>1 DEF SInv, Types, Call, Row, Owner
<1>3. \A e \in Deliveries : e # d => Seen(e)' = Seen(e)
  <2> SUFFICES ASSUME NEW e \in Deliveries, e # d PROVE Seen(e)' = Seen(e)
    OBVIOUS
  <2>1. row'[e] = row[e] /\ Owner(e)' = Owner(e)
    BY <1>1 DEF SInv, Types, Owner
  <2>2. QED
    BY <1>1, <2>1, ShownSame
<1>4. CASE Simulated(d)
  <2>1. Seen(d)' = Seen(d)
    BY <1>1, <1>4 DEF Seen, Simulated
  <2>2. QED
    BY <1>3, <2>1, Stutters
<1>5. CASE ~Simulated(d)
  <2>1. /\ shown(d) = call[c].claimed
        /\ call[c].claimed.status \in Claimable
        /\ Owner(d) = {c}
    BY <1>2, <1>5, ShownOwned
  <2>2. Owner(d)' = {}
    BY <1>1, <2>1 DEF SInv, Types, Owner
  <2>3. row'[d] = settled(row[d], n, ok)
    BY <1>1 DEF SInv, Types
  <2>4. Seen(d)' = row'[d] /\ Seen(d) = call[c].claimed
    BY <1>1, <1>5, <2>1, <2>2 DEF Seen, Simulated, shown
  <2>5. /\ Seen(d)'.attempt_count = n
        /\ Seen(d)'.status \in Lifecycle!AfterFailure(n) \cup {"delivered"}
    BY <1>2, <2>3, <2>4, SettledRow DEF Lifecycle!AfterFailure
  <2> DEFINE status == [e \in Deliveries |-> Seen(e).status]
             tries == [e \in Deliveries |-> Seen(e).attempt_count]
  <2>6. /\ status' = [status EXCEPT ![d] = Seen(d)'.status]
        /\ tries' = [tries EXCEPT ![d] = Seen(d)'.attempt_count]
    BY <1>3, Moves
  <2>7. status[d] \in Lifecycle!Open /\ tries[d] + 1 = n
    BY <2>1, <2>4 DEF Lifecycle!Open, Claimable
  <2>8. tries' = [tries EXCEPT ![d] = tries[d] + 1]
    BY <2>5, <2>6, <2>7
  <2>9. \E s \in Lifecycle!AfterFailure(tries[d] + 1) \cup {"delivered"} :
          status' = [status EXCEPT ![d] = s]
    BY <2>5, <2>6, <2>7
  <2>10. Lifecycle!Try(d)
    BY <2>7, <2>8, <2>9, Zenon DEF Lifecycle!Try, Lifecycle!Attempt, Seen
  <2>11. QED
    BY <2>10
<1>6. QED
  BY <1>4, <1>5

\* A call that dies as the owner of a row strands it.
LEMMA DiesImplements ==
  ASSUME SInv, NEW c \in Calls, Dies(c)
  PROVE  (\E d \in Deliveries : Lifecycle!Strand(d)) \/ UNCHANGED Lifecycle!vars
<1>1. /\ pc' = [pc EXCEPT ![c] = "dead"]
      /\ row' = row /\ call' = call /\ frozen' = frozen
  BY DEF Dies, Goto
<1>2. \A e \in Deliveries : Owner(e)' = Owner(e) \ {c}
  BY <1>1 DEF SInv, Types, Owner
<1>3. \A e \in Deliveries : c \notin Owner(e) \/ Simulated(e) => Seen(e)' = Seen(e)
  <2> SUFFICES ASSUME NEW e \in Deliveries, c \notin Owner(e) \/ Simulated(e)
               PROVE  Seen(e)' = Seen(e)
    OBVIOUS
  <2>1. CASE c \notin Owner(e)
    <3>1. Owner(e)' = Owner(e)
      BY <1>2, <2>1
    <3>2. QED
      BY <1>1, <3>1, ShownSame
  <2>2. CASE Simulated(e)
    BY <1>1, <2>2 DEF Seen, Simulated
  <2>3. QED
    BY <2>1, <2>2
<1>4. CASE \E d \in Deliveries : c \in Owner(d) /\ ~Simulated(d)
  <2>1. PICK d \in Deliveries : c \in Owner(d) /\ ~Simulated(d)
    BY <1>4
  <2>2. \A e \in Deliveries : e # d => Seen(e)' = Seen(e)
    BY <1>3, <2>1 DEF Owner
  <2>3. /\ shown(d) = call[c].claimed
        /\ row[d] = [call[c].claimed EXCEPT !.status = "processing"]
        /\ call[c].claimed \in Row /\ call[c].claimed.status \in Claimable
        /\ Owner(d) = {c}
    BY <2>1, ShownOwned
  <2>4. Owner(d)' = {}
    BY <1>2, <2>3
  <2>5. Seen(d)' = row[d] /\ Seen(d) = call[c].claimed
    BY <1>1, <2>1, <2>3, <2>4 DEF Seen, Simulated, shown
  <2>6. /\ Seen(d)'.status = "processing"
        /\ Seen(d)'.attempt_count = Seen(d).attempt_count
    BY <2>3, <2>5 DEF Row
  <2> DEFINE status == [e \in Deliveries |-> Seen(e).status]
             tries == [e \in Deliveries |-> Seen(e).attempt_count]
  <2>7. /\ status' = [status EXCEPT ![d] = Seen(d)'.status]
        /\ tries' = [tries EXCEPT ![d] = Seen(d)'.attempt_count]
    BY <2>2, Moves
  <2>8. status[d] \in Lifecycle!Open /\ tries[d] = Seen(d).attempt_count
    BY <2>3, <2>5 DEF Lifecycle!Open, Claimable
  <2>9. status' = [status EXCEPT ![d] = "processing"] /\ tries' = tries
    BY <2>6, <2>7, <2>8
  <2>10. Lifecycle!Strand(d)
    BY <2>8, <2>9 DEF Lifecycle!Strand, Seen
  <2>11. QED
    BY <2>10
<1>5. CASE \A d \in Deliveries : c \notin Owner(d) \/ Simulated(d)
  BY <1>3, <1>5, Stutters
<1>6. QED
  BY <1>4, <1>5

\* The other statements write no row and change no ownership.
LEMMA OthersImplement ==
  ASSUME SInv, NEW c \in Calls,
         \/ \E d \in Deliveries : RetryDelivery(c, d)
         \/ CallAdapter(c) \/ InsertAttempt(c) \/ UpdateIntegration(c)
  PROVE  UNCHANGED Lifecycle!vars
<1>1. row' = row /\ frozen' = frozen
  BY DEF RetryDelivery, CallAdapter, InsertAttempt, UpdateIntegration
<1>2. \A e \in Deliveries : /\ Owner(e)' = Owner(e)
                            /\ \A o \in Owner(e) : call'[o].claimed = call[o].claimed
  <2>1. CASE \E d \in Deliveries : RetryDelivery(c, d)
    <3>1. PICK new : pc[c] = "idle" /\ pc' = [pc EXCEPT ![c] = "claim"] /\ call' = [call EXCEPT ![c] = new]
      BY <2>1 DEF RetryDelivery, Begin, Goto
    <3>2. QED
      BY <3>1 DEF SInv, Types, Owner
  <2>2. CASE CallAdapter(c)
    <3>1. PICK ok \in BOOLEAN : call' = [call EXCEPT ![c].ok = ok]
      BY <2>2 DEF CallAdapter
    <3>2. \A e \in Calls : call'[e].delivery = call[e].delivery /\ call'[e].claimed = call[e].claimed
      BY <3>1 DEF SInv, Types, Call
    <3>3. pc[c] = "call" /\ pc' = [pc EXCEPT ![c] = "attempt"]
      BY <2>2 DEF CallAdapter, Goto
    <3>4. QED
      BY <3>2, <3>3 DEF SInv, Types, Owner
  <2>3. CASE InsertAttempt(c) \/ UpdateIntegration(c)
    BY <2>3 DEF InsertAttempt, UpdateIntegration, Goto, SInv, Types, Owner
  <2>4. QED
    BY <2>1, <2>2, <2>3
<1>3. \A e \in Deliveries : Seen(e)' = Seen(e)
  BY <1>1, <1>2, ShownSame
<1>4. QED
  BY <1>3, Stutters

\* Until a failure is simulated on it a row of the showcase follows the
\* lifecycle of the backend's deliveries, however calls interleave and die.
THEOREM ShowcaseImplementation == Spec => ImplementsLifecycle
<1>1. Init => Lifecycle!Init
  BY DEF Init, Lifecycle!Init, Simulated, shown, Absent
<1>2. SInv /\ [Next]_vars => [Lifecycle!Next]_Lifecycle!vars
  <2> SUFFICES ASSUME SInv, [Next]_vars PROVE [Lifecycle!Next]_Lifecycle!vars
    OBVIOUS
  <2>1. ASSUME NEW c \in Calls, NEW d \in Deliveries, SubmitIntake(c, d) PROVE Lifecycle!Next
    BY <2>1, SubmitImplements DEF Lifecycle!Next
  <2>2. ASSUME NEW c \in Calls, UpdateRow(c) PROVE [Lifecycle!Next]_Lifecycle!vars
    <3>1. PICK d \in Deliveries : d = call[c].delivery
      BY <2>2 DEF UpdateRow, SInv, Placed, At, Owning
    <3>2. QED
      BY <2>2, <3>1, UpdateRowImplements DEF Lifecycle!Next
  <2>3. ASSUME NEW c \in Calls, Dies(c) PROVE [Lifecycle!Next]_Lifecycle!vars
    BY <2>3, DiesImplements DEF Lifecycle!Next
  <2>4. CASE UNCHANGED vars
    <3>1. \A e \in Deliveries : Seen(e)' = Seen(e)
      BY <2>4 DEF vars, Seen, Simulated, shown, Owner
    <3>2. QED
      BY <3>1, Stutters
  <2>5. CASE Next
    BY <2>1, <2>2, <2>3, <2>4, <2>5, SimulateImplements, RequeueImplements, ClaimImplements,
       OthersImplement DEF Next, Process, Terminating
  <2>6. QED
    BY <2>4, <2>5
<1>3. QED
  BY <1>1, <1>2, ShowcaseInvariance, PTL DEF Spec, ImplementsLifecycle, Lifecycle!Spec
=============================================================================
