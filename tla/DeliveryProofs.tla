--------------------------- MODULE DeliveryProofs ---------------------------
(***************************************************************************)
(* Theorems about Delivery, for any workers, deliveries, integrations and  *)
(* number of faults: the type invariant, the attempt log, the processing   *)
(* rows, deals, retries and the budget of attempts, and that the committed *)
(* rows implement DeliveryLifecycle.                                       *)
(***************************************************************************)
EXTENDS Delivery, FiniteSetTheorems, TLAPS

(***************************************************************************)
(* The inductive invariant.  What a session has in its transaction agrees  *)
(* with the committed row it will replace, because it alone holds the row. *)
(***************************************************************************)

\* Which positions a session can be in, and what it works on there.
Place(s) ==
  IF s \in Workers
  THEN /\ pc[s] \in InTransaction \cup {"idle", "claim", "ack"}
       /\ pc[s] # "idle" => tx[s].delivery \in Deliveries
  ELSE /\ pc[s] \in (InTransaction \ {"read"}) \cup {"start", "done"}
       /\ pc[s] \in InTransaction => tx[s].delivery = s
       /\ pc[s] \in InTransaction \cup {"start"} => row[s] = Absent

\* The row a worker holds is committed and claimable.
Claimed(s) ==
  s \in Workers /\ pc[s] \in InTransaction => row[tx[s].delivery].status \in Claimable

\* Before the flush the image has the committed attempt_count.
Before(s) ==
  /\ pc[s] \in {"read", "call", "flush"} =>
       tx[s].image.attempt_count = row[tx[s].delivery].attempt_count
  /\ pc[s] \in {"claim", "read", "call"} => tx[s].result = "none"
  /\ pc[s] = "flush" => tx[s].result # "none"
  /\ pc[s] = "read" => tx[s].image.status = "processing"

\* After it, one more, unless the transaction makes no attempt.
After(s) ==
  pc[s] \in {"enqueue", "commit"} =>
    \/ /\ tx[s].result = "none"
       /\ tx[s].image.attempt_count = row[tx[s].delivery].attempt_count
       /\ \/ s \notin Workers /\ tx[s].image.status = "queued"
          \/ /\ s \in Workers /\ pc[s] = "commit"
             /\ tx[s].delivery \in Orphans /\ tx[s].image.status = "processing"
    \/ /\ tx[s].result # "none"
       /\ tx[s].image.attempt_count = row[tx[s].delivery].attempt_count + 1
       /\ tx[s].image.status =
            outcome_status(tx[s].image.attempt_count, tx[s].result = "ok", s \notin Workers)

\* A transaction's row goes to some integration.
Routed(s) == pc[s] \in InTransaction => tx[s].image.integration \in Integrations

Exclusive ==
  \A s, t \in Sessions, d \in Deliveries : Holds(s, d) /\ Holds(t, d) => s = t

Good(s) == Place(s) /\ Claimed(s) /\ Before(s) /\ After(s) /\ Routed(s)

SessionInv == \A s \in Sessions : Good(s)

\* A committed row that is not absent names an integration.
RowInv == \A d \in Deliveries : row[d].status # "absent" => row[d].integration \in Integrations

IInv == TypeOK /\ SessionInv /\ Exclusive /\ RowInv /\ AttemptLog /\ StuckOnlyIfOrphaned
-----------------------------------------------------------------------------
(***************************************************************************)
(* The helpers of process_delivery.                                        *)
(***************************************************************************)

\* An outcome is one of four statuses, "delivered" exactly on success.
LEMMA OutcomeStatus ==
  ASSUME NEW n \in Nat, NEW ok \in BOOLEAN, NEW now \in BOOLEAN
  PROVE  /\ outcome_status(n, ok, now) \in {"delivered", "dead_letter", "failed", "retry_scheduled"}
         /\ outcome_status(n, ok, now) = "delivered" <=> ok
  BY DEF outcome_status

\* The row written by a flush is a row, with one more attempt.
LEMMA OutcomeRow ==
  ASSUME NEW image \in Row, NEW ok \in BOOLEAN, NEW now \in BOOLEAN
  PROVE  /\ Outcome(image, ok, now) \in Row
         /\ Outcome(image, ok, now).attempt_count = image.attempt_count + 1
         /\ Outcome(image, ok, now).integration = image.integration
         /\ Outcome(image, ok, now).status = outcome_status(image.attempt_count + 1, ok, now)
<1>1. outcome_status(image.attempt_count + 1, ok, now) \in Statuses
  BY OutcomeStatus DEF Row, Statuses, Claimable
<1>2. Len(RETRY_DELAYS_MS) = 3
  BY DEF RETRY_DELAYS_MS
<1>3. next_retry_at(image.attempt_count + 1) \in 0..Len(RETRY_DELAYS_MS)
  BY <1>2 DEF next_retry_at, Row
<1> DEFINE n == image.attempt_count + 1
           status == outcome_status(n, ok, now)
           forced == image.force_fail /\ ~ok
           next == IF ok \/ n >= MAX_ATTEMPTS THEN 0 ELSE next_retry_at(n)
<1>4. forced \in BOOLEAN
  OBVIOUS
<1>5. n \in Nat /\ next \in 0..Len(RETRY_DELAYS_MS)
  BY <1>2, <1>3 DEF Row
<1>6. Outcome(image, ok, now) =
        [image EXCEPT !.status = status, !.attempt_count = n, !.force_fail = forced,
                      !.next_retry_at = next]
  BY DEF Outcome
<1> HIDE DEF n, status, forced, next
<1>7. status \in Statuses
  BY <1>1 DEF n, status
<1>8. QED
  BY <1>4, <1>5, <1>6, <1>7 DEF Row, n, status

\* The null row and the null transaction have their types.
LEMMA AbsentRow == Absent \in Row /\ NoTx \in Tx
<1>1. Len(RETRY_DELAYS_MS) = 3
  BY DEF RETRY_DELAYS_MS
<1>2. Absent \in Row
  BY <1>1 DEF Absent, Row, Statuses
<1>3. QED
  BY <1>2 DEF NoTx, Tx, Results
-----------------------------------------------------------------------------
(***************************************************************************)
(* Type correctness.                                                       *)
(***************************************************************************)

\* The empty tables, idle workers and unsent requests have their types.
LEMMA InitType == Init => TypeOK
  BY AbsentRow, ModeAssumption
  DEF Init, TypeOK, Sessions, History, Labels, InTransaction, Attempts

\* Rolling a transaction back keeps the type of the history.
LEMMA RollBackType ==
  ASSUME TypeOK, NEW s \in Sessions, NEW requeued \in BOOLEAN,
         tx[s].delivery \in Deliveries, RollBack(s, requeued)
  PROVE  hist' \in [Deliveries -> History]
<1>1. hist[tx[s].delivery] \in History
  BY DEF TypeOK
<1> DEFINE d == tx[s].delivery
           lost == hist[d].lost \/ (~requeued /\ ~HasEnqueued(s))
           rolled == hist[d].rolledBack + (IF tx[s].result = "ok" THEN 1 ELSE 0)
           copies == hist[d].copies
                       + (IF requeued /\ (HasEnqueued(s) \/ pc[s] = "ack") THEN 1 ELSE 0)
<1>2. lost \in BOOLEAN
  OBVIOUS
<1>3. rolled \in Nat /\ copies \in Nat
  BY <1>1 DEF History
<1>4. hist' = [hist EXCEPT ![d].rolledBack = rolled, ![d].copies = copies, ![d].lost = lost]
  BY DEF RollBack
<1> HIDE DEF lost, rolled, copies
<1>5. QED
  BY <1>1, <1>2, <1>3, <1>4 DEF TypeOK, History

\* Every step of a worker, a request or the broker keeps the types.
LEMMA StepType ==
  ASSUME TypeOK, SessionInv, [Next]_vars
  PROVE  TypeOK'
<1> USE DEF Sessions
<1>1. ASSUME NEW d \in Deliveries, Insert(d) PROVE TypeOK'
  <2>1. PICK i \in Integrations, f \in BOOLEAN :
          tx' = [tx EXCEPT ![d] =
                   [delivery |-> d, seen |-> success[i], result |-> "none",
                    image |-> [Absent EXCEPT !.status = "queued", !.force_fail = f,
                                             !.integration = i]]]
    BY <1>1 DEF Insert
  <2>2. [Absent EXCEPT !.status = "queued", !.force_fail = f, !.integration = i] \in Row
    BY AbsentRow DEF Row, Statuses, Claimable
  <2>3. tx' \in [Sessions -> Tx]
    BY <2>1, <2>2 DEF TypeOK, Tx, Results
  <2>4. QED
    BY <1>1, <2>3 DEF Insert, Goto, TypeOK, Labels, InTransaction
<1>2. ASSUME NEW w \in Workers, NEW d \in Deliveries, Receive(w, d) PROVE TypeOK'
  <2>1. tx' \in [Sessions -> Tx]
    BY <1>2, AbsentRow DEF Receive, TypeOK, Tx
  <2>2. QED
    BY <1>2, <2>1 DEF Receive, Goto, TypeOK, Labels
<1>3. ASSUME NEW w \in Workers, Claim(w) PROVE TypeOK'
  <2>1. tx[w].delivery \in Deliveries
    BY <1>3 DEF SessionInv, Good, Place, Claim
  <2>2. [row[tx[w].delivery] EXCEPT !.status = "processing"] \in Row
    <3>1. row[tx[w].delivery] \in Row
      BY <2>1 DEF TypeOK
    <3>2. QED
      BY <3>1 DEF Row, Statuses
  <2>3. tx' \in [Sessions -> Tx]
    BY <1>3, <2>2, AbsentRow DEF Claim, TypeOK, Tx
  <2>4. QED
    BY <1>3, <2>3 DEF Claim, Goto, TypeOK, Labels, InTransaction
<1>4. ASSUME NEW w \in Workers, ReadContext(w) PROVE TypeOK'
  <2>1. tx[w].image.integration \in Integrations
    BY <1>4 DEF SessionInv, Good, Routed, ReadContext, InTransaction
  <2>2. tx' \in [Sessions -> Tx]
    <3>1. tx[w] \in Tx /\ success[tx[w].image.integration] \in Nat
      BY <2>1 DEF TypeOK
    <3>2. [tx[w] EXCEPT !.seen = success[tx[w].image.integration]] \in Tx
      BY <3>1 DEF Tx
    <3>3. QED
      BY <1>4, <3>2 DEF ReadContext, TypeOK
  <2>3. QED
    BY <1>4, <2>2 DEF ReadContext, Goto, TypeOK, Labels, InTransaction
<1>5. ASSUME NEW s \in Sessions, CallAdapter(s) PROVE TypeOK'
  <2>1. tx[s].delivery \in Deliveries
    BY <1>5 DEF SessionInv, Good, Place, CallAdapter, InTransaction
  <2>2. PICK ok \in BOOLEAN :
          /\ tx' = [tx EXCEPT ![s].result = IF ok THEN "ok" ELSE "failed"]
          /\ hist' = IF ok THEN [hist EXCEPT ![tx[s].delivery].deals = @ + 1] ELSE hist
    BY <1>5 DEF CallAdapter
  <2>3. tx' \in [Sessions -> Tx]
    BY <2>2 DEF TypeOK, Tx, Results
  <2>4. hist' \in [Deliveries -> History]
    <3>1. hist[tx[s].delivery] \in History
      BY <2>1 DEF TypeOK
    <3>2. [hist[tx[s].delivery] EXCEPT !.deals = @ + 1] \in History
      BY <3>1 DEF History
    <3>3. QED
      BY <2>1, <2>2, <3>2 DEF TypeOK
  <2>5. QED
    BY <1>5, <2>3, <2>4 DEF CallAdapter, Goto, TypeOK, Labels, InTransaction
<1>6. ASSUME NEW s \in Sessions, Flush(s) PROVE TypeOK'
  <2>1. tx[s].image \in Row
    BY DEF TypeOK, Tx
  <2>2. Outcome(tx[s].image, tx[s].result = "ok", s \notin Workers) \in Row
    BY <2>1, OutcomeRow
  <2>3. tx' \in [Sessions -> Tx]
    <3>1. [tx[s] EXCEPT !.image =
             Outcome(tx[s].image, tx[s].result = "ok", s \notin Workers)] \in Tx
      BY <2>2 DEF TypeOK, Tx
    <3>2. QED
      BY <1>6, <3>1 DEF Flush, TypeOK
  <2>4. QED
    BY <1>6, <2>3 DEF Flush, Goto, TypeOK, Labels, InTransaction
<1>7. ASSUME NEW s \in Sessions, Enqueue(s) PROVE TypeOK'
  <2>1. tx[s].delivery \in Deliveries
    BY <1>7 DEF SessionInv, Good, Place, Enqueue, InTransaction
  <2>2. QED
    BY <1>7, <2>1 DEF Enqueue, Goto, TypeOK, Labels, InTransaction
<1>8. ASSUME NEW s \in Sessions, Commit(s) PROVE TypeOK'
  <2>1. /\ tx[s].delivery \in Deliveries
        /\ tx[s].image \in Row /\ tx[s].seen \in Nat
        /\ tx[s].image.integration \in Integrations
    BY <1>8 DEF SessionInv, Good, Place, Routed, Commit, TypeOK, Tx, InTransaction
  <2>2. row' \in [Deliveries -> Row]
    BY <1>8, <2>1 DEF Commit, TypeOK
  <2>3. [number |-> tx[s].image.attempt_count, ok |-> tx[s].result = "ok"] \in Attempts
    BY <2>1 DEF Attempts, Row
  <2>4. attempts' \in [Deliveries -> Seq(Attempts)]
    BY <1>8, <2>1, <2>3 DEF Commit, TypeOK
  <2>5. success' \in [Integrations -> Nat]
    BY <1>8, <2>1 DEF Commit, TypeOK
  <2>6. tx' \in [Sessions -> Tx]
    BY <1>8, <2>1, AbsentRow DEF Commit, TypeOK, Tx
  <2>7. QED
    BY <1>8, <2>2, <2>4, <2>5, <2>6 DEF Commit, Goto, TypeOK, Labels
<1>9. ASSUME NEW w \in Workers, Ack(w) PROVE TypeOK'
  BY <1>9, AbsentRow DEF Ack, Goto, TypeOK, Labels
<1>10. ASSUME NEW w \in Workers, WorkerFails(w) PROVE TypeOK'
  <2>1. tx[w].delivery \in Deliveries
    BY <1>10 DEF SessionInv, Good, Place, WorkerFails, InTransaction
  <2>2. PICK requeued \in BOOLEAN :
          /\ ready' = IF requeued THEN [ready EXCEPT ![tx[w].delivery] = @ + 1] ELSE ready
          /\ RollBack(w, requeued)
    BY <1>10 DEF WorkerFails
  <2>3. hist' \in [Deliveries -> History]
    BY <2>1, <2>2, RollBackType
  <2>4. ready' \in [Deliveries -> Nat]
    BY <2>1, <2>2 DEF TypeOK
  <2>5. QED
    BY <1>10, <2>3, <2>4, AbsentRow, ModeAssumption DEF WorkerFails, Goto, TypeOK, Labels
<1>11. ASSUME NEW d \in Deliveries, RequestFails(d) PROVE TypeOK'
  <2>1. tx[d].delivery \in Deliveries
    BY <1>11 DEF SessionInv, Good, Place, RequestFails, InTransaction
  <2>2. hist' \in [Deliveries -> History]
    BY <1>11, <2>1, RollBackType DEF RequestFails
  <2>3. QED
    BY <1>11, <2>2, AbsentRow, ModeAssumption DEF RequestFails, Goto, TypeOK, Labels
<1>12. CASE UNCHANGED vars
  BY <1>12 DEF vars, TypeOK
<1>13. QED
  BY <1>1, <1>2, <1>3, <1>4, <1>5, <1>6, <1>7, <1>8, <1>9, <1>10, <1>11, <1>12
  DEF Next, WorkerStep, SessionStep, Terminating
-----------------------------------------------------------------------------
(***************************************************************************)
(* The inductive step, for the actions that commit nothing.                *)
(***************************************************************************)

\* A session whose position, transaction and rows do not change stays good.
LEMMA Frame ==
  ASSUME NEW t \in Sessions, Good(t), pc'[t] = pc[t], tx'[t] = tx[t], row' = row
  PROVE  Good(t)'
  BY DEF Good, Place, Claimed, Before, After, Routed

\* A step of s that commits nothing and takes no row keeps the invariant when
\* it leaves s good.
LEMMA LocalStep ==
  ASSUME IInv, NEW s \in Sessions, Good(s)', TypeOK',
         \A t \in Sessions \ {s} : pc'[t] = pc[t] /\ tx'[t] = tx[t],
         row' = row, attempts' = attempts,
         \A d \in Deliveries : Holds(s, d)' =>
             \A t \in Sessions \ {s} : ~Holds(t, d)
  PROVE  IInv'
<1>1. SessionInv'
  BY Frame DEF SessionInv, IInv
<1>2. \A t \in Sessions \ {s}, d \in Deliveries : Holds(t, d)' <=> Holds(t, d)
  BY DEF Holds
<1>3. Exclusive'
  BY <1>2 DEF Exclusive, IInv
<1>4. RowInv' /\ AttemptLog' /\ StuckOnlyIfOrphaned'
  BY DEF IInv, RowInv, AttemptLog, StuckOnlyIfOrphaned
<1>5. QED
  BY <1>1, <1>3, <1>4 DEF IInv

\* A row that a session holds is held by no other.
LEMMA HeldAlone ==
  ASSUME IInv, NEW s \in Sessions, NEW d \in Deliveries, Holds(s, d)
  PROVE  \A t \in Sessions \ {s} : ~Holds(t, d)
  BY DEF IInv, Exclusive

\* While the row of d is absent or claimed by nobody, as its request begins, no
\* other session holds it.
LEMMA UncommittedAlone ==
  ASSUME IInv, NEW d \in Deliveries, row[d] = Absent
  PROVE  \A t \in Sessions \ {d} : ~Holds(t, d)
<1>1. SUFFICES ASSUME NEW t \in Sessions, t # d, Holds(t, d) PROVE FALSE
  OBVIOUS
<1>2. t \in Workers
  BY <1>1 DEF IInv, SessionInv, Good, Place, Holds
<1>3. row[d].status \in Claimable
  BY <1>1, <1>2 DEF IInv, SessionInv, Good, Claimed, Holds
<1>4. QED
  BY <1>3 DEF Absent, Claimable

\* Intake: a request that inserts its row works on a row nobody holds.
LEMMA InsertStep ==
  ASSUME IInv, TypeOK', NEW d \in Deliveries, Insert(d)
  PROVE  IInv'
<1>1. d \in Sessions /\ d \notin Workers
  BY SetAssumption DEF Sessions
<1>2. PICK i \in Integrations, f \in BOOLEAN :
        tx' = [tx EXCEPT ![d] =
                 [delivery |-> d, seen |-> success[i], result |-> "none",
                  image |-> [Absent EXCEPT !.status = "queued", !.force_fail = f,
                                           !.integration = i]]]
  BY DEF Insert
<1>3. /\ tx'[d].delivery = d /\ tx'[d].result = "none"
      /\ tx'[d].image.status = "queued" /\ tx'[d].image.attempt_count = 0
      /\ tx'[d].image.integration = i
  BY <1>1, <1>2 DEF IInv, TypeOK, Absent
<1>4. pc'[d] \in {"call", "enqueue"}
  BY <1>1 DEF Insert, Goto, IInv, TypeOK
<1>5. row[d] = Absent /\ row' = row /\ attempts' = attempts
  BY <1>1 DEF Insert, IInv, SessionInv, Good, Place
<1>6. Good(d)'
  BY <1>1, <1>3, <1>4, <1>5 DEF Good, Place, Claimed, Before, After, Routed, Absent, InTransaction
<1>7. \A t \in Sessions \ {d} : pc'[t] = pc[t] /\ tx'[t] = tx[t]
  BY <1>2 DEF Insert, Goto, IInv, TypeOK
<1>8. \A e \in Deliveries : Holds(d, e)' => e = d
  BY <1>3 DEF Holds
<1>9. QED
  BY <1>1, <1>5, <1>6, <1>7, <1>8, UncommittedAlone, LocalStep

\* A worker that receives a message has no transaction yet.
LEMMA ReceiveStep ==
  ASSUME IInv, TypeOK', NEW w \in Workers, NEW d \in Deliveries, Receive(w, d)
  PROVE  IInv'
<1>1. w \in Sessions
  BY DEF Sessions
<1>2. pc'[w] = "claim" /\ tx'[w].delivery = d /\ tx'[w].result = "none"
  BY <1>1 DEF Receive, Goto, IInv, TypeOK, NoTx
<1>3. Good(w)'
  BY <1>2 DEF Good, Place, Claimed, Before, After, Routed, InTransaction
<1>4. \A t \in Sessions \ {w} : pc'[t] = pc[t] /\ tx'[t] = tx[t]
  BY DEF Receive, Goto, IInv, TypeOK
<1>5. QED
  BY <1>1, <1>2, <1>3, <1>4, LocalStep DEF Receive, Holds, InTransaction

\* The claim waits for the row lock, so the worker then holds it alone and its
\* image has the committed attempt_count.
LEMMA ClaimStep ==
  ASSUME IInv, TypeOK', NEW w \in Workers, Claim(w)
  PROVE  IInv'
<1> DEFINE d == tx[w].delivery
<1>1. w \in Sessions /\ d \in Deliveries
  BY DEF Sessions, Claim, IInv, SessionInv, Good, Place
<1>2. row' = row /\ attempts' = attempts
  BY DEF Claim
<1>3. \A t \in Sessions \ {w} : pc'[t] = pc[t] /\ tx'[t] = tx[t]
  BY DEF Claim, Goto, IInv, TypeOK
<1>4. tx'[w].delivery = d /\ tx'[w].result = tx[w].result
  BY <1>1 DEF Claim, IInv, TypeOK, Tx
<1>5. CASE row[d].status \in Claimable
  <2>1. pc'[w] = "read"
    BY <1>1, <1>5 DEF Claim, Goto, IInv, TypeOK
  <2>2. /\ tx'[w].image.attempt_count = row[d].attempt_count
        /\ tx'[w].image.integration = row[d].integration
        /\ tx'[w].image.status = "processing"
    BY <1>1, <1>5 DEF Claim, IInv, TypeOK, Tx, Row
  <2>3. row[d].integration \in Integrations
    BY <1>1, <1>5 DEF IInv, RowInv, Claimable
  <2>4. tx[w].result = "none"
    BY <1>1 DEF IInv, SessionInv, Good, Before, Claim
  <2>5. Good(w)'
    BY <1>1, <1>2, <1>4, <1>5, <2>1, <2>2, <2>3, <2>4
    DEF Good, Place, Claimed, Before, After, Routed, InTransaction
  <2>6. \A t \in Sessions : ~Holds(t, d)
    BY <1>5 DEF Claim, Claimable
  <2>7. \A e \in Deliveries : Holds(w, e)' => e = d
    BY <1>4 DEF Holds
  <2>8. QED
    BY <1>1, <1>2, <1>3, <2>5, <2>6, <2>7, LocalStep
<1>6. CASE row[d].status \notin Claimable
  <2>1. pc'[w] = "ack"
    BY <1>1, <1>6 DEF Claim, Goto, IInv, TypeOK
  <2>2. Good(w)'
    BY <1>1, <1>4, <2>1 DEF Good, Place, Claimed, Before, After, Routed, InTransaction
  <2>3. QED
    BY <1>1, <1>2, <1>3, <2>1, <2>2, LocalStep DEF Holds, InTransaction
<1>7. QED
  BY <1>5, <1>6

\* Reading the lead and integration keeps the claim, or gives it up to a commit
\* of 'processing' when one of them is gone.
LEMMA ReadContextStep ==
  ASSUME IInv, TypeOK', NEW w \in Workers, ReadContext(w)
  PROVE  IInv'
<1>1. /\ w \in Sessions /\ pc[w] = "read" /\ tx[w].delivery \in Deliveries
      /\ Good(w) /\ tx[w].result = "none" /\ tx[w].image.status = "processing"
  BY DEF Sessions, ReadContext, IInv, SessionInv, Good, Place, Before
<1>2. row' = row /\ attempts' = attempts
  BY DEF ReadContext
<1>3. \A t \in Sessions \ {w} : pc'[t] = pc[t] /\ tx'[t] = tx[t]
  BY DEF ReadContext, Goto, IInv, TypeOK
<1>4. /\ tx'[w].delivery = tx[w].delivery /\ tx'[w].image = tx[w].image
      /\ tx'[w].result = tx[w].result
  BY <1>1 DEF ReadContext, IInv, TypeOK, Tx
<1>5. /\ pc'[w] \in {"commit", "call"}
      /\ pc'[w] = "commit" => tx[w].delivery \in Orphans
  BY <1>1 DEF ReadContext, Goto, IInv, TypeOK
<1>6. Good(w)'
  BY <1>1, <1>2, <1>4, <1>5 DEF Good, Place, Claimed, Before, After, Routed, InTransaction
<1>7. \A d \in Deliveries : Holds(w, d)' => Holds(w, d)
  BY <1>1, <1>4 DEF Holds, InTransaction
<1>8. QED
  BY <1>1, <1>2, <1>3, <1>6, <1>7, HeldAlone, LocalStep

\* A CRM call changes the result the transaction carries and nothing else.
LEMMA CallAdapterStep ==
  ASSUME IInv, TypeOK', NEW s \in Sessions, CallAdapter(s)
  PROVE  IInv'
<1>1. pc[s] = "call" /\ tx[s].delivery \in Deliveries /\ Good(s)
  BY DEF CallAdapter, IInv, SessionInv, Good, Place, Sessions, InTransaction
<1>2. row' = row /\ attempts' = attempts
  BY DEF CallAdapter
<1>3. \A t \in Sessions \ {s} : pc'[t] = pc[t] /\ tx'[t] = tx[t]
  BY DEF CallAdapter, Goto, IInv, TypeOK
<1>4. /\ tx'[s].delivery = tx[s].delivery /\ tx'[s].image = tx[s].image
      /\ tx'[s].result # "none"
  BY <1>1 DEF CallAdapter, IInv, TypeOK, Tx
<1>5. pc'[s] = "flush"
  BY <1>1 DEF CallAdapter, Goto, IInv, TypeOK
<1>6. Good(s)'
  BY <1>1, <1>2, <1>4, <1>5 DEF Good, Place, Claimed, Before, After, Routed, InTransaction
<1>7. \A d \in Deliveries : Holds(s, d)' => Holds(s, d)
  BY <1>1, <1>4 DEF Holds, InTransaction
<1>8. QED
  BY <1>2, <1>3, <1>6, <1>7, HeldAlone, LocalStep

\* The flushed outcome is one attempt more than the committed row.
LEMMA FlushStep ==
  ASSUME IInv, TypeOK', NEW s \in Sessions, Flush(s)
  PROVE  IInv'
<1> DEFINE image == Outcome(tx[s].image, tx[s].result = "ok", s \notin Workers)
<1>1. pc[s] = "flush" /\ tx[s].delivery \in Deliveries /\ Good(s) /\ tx[s].image \in Row
  BY DEF Flush, IInv, SessionInv, Good, Place, Sessions, InTransaction, TypeOK, Tx
<1>2. row' = row /\ attempts' = attempts
  BY DEF Flush
<1>3. \A t \in Sessions \ {s} : pc'[t] = pc[t] /\ tx'[t] = tx[t]
  BY DEF Flush, Goto, IInv, TypeOK
<1>4. /\ tx'[s].delivery = tx[s].delivery /\ tx'[s].image = image
      /\ tx'[s].result = tx[s].result
  BY <1>1 DEF Flush, IInv, TypeOK, Tx
<1>5. /\ image.attempt_count = tx[s].image.attempt_count + 1
      /\ image.integration = tx[s].image.integration
      /\ image.status = outcome_status(image.attempt_count, tx[s].result = "ok", s \notin Workers)
  <2>1. (tx[s].result = "ok") \in BOOLEAN /\ (s \notin Workers) \in BOOLEAN
    OBVIOUS
  <2>2. /\ image.attempt_count = tx[s].image.attempt_count + 1
        /\ image.integration = tx[s].image.integration
        /\ image.status = outcome_status(tx[s].image.attempt_count + 1,
                                         tx[s].result = "ok", s \notin Workers)
    BY <1>1, <2>1, OutcomeRow, Zenon
  <2>3. QED
    BY <2>2, Zenon
<1>6. pc'[s] \in {"enqueue", "commit"}
  BY <1>1 DEF Flush, Goto, IInv, TypeOK
<1> HIDE DEF image
<1>7. Good(s)'
  BY <1>1, <1>2, <1>4, <1>5, <1>6 DEF Good, Place, Claimed, Before, After, Routed, InTransaction
<1>8. \A d \in Deliveries : Holds(s, d)' => Holds(s, d)
  BY <1>1, <1>4 DEF Holds, InTransaction
<1>9. QED
  BY <1>2, <1>3, <1>7, <1>8, HeldAlone, LocalStep

\* Enqueueing a task changes only the broker.
LEMMA EnqueueStep ==
  ASSUME IInv, TypeOK', NEW s \in Sessions, Enqueue(s)
  PROVE  IInv'
<1>1. pc[s] = "enqueue" /\ Good(s) /\ pc'[s] = "commit"
  BY DEF Enqueue, Goto, IInv, SessionInv, TypeOK
<1>2. row' = row /\ attempts' = attempts /\ tx' = tx
  BY DEF Enqueue
<1>3. \A t \in Sessions \ {s} : pc'[t] = pc[t] /\ tx'[t] = tx[t]
  BY <1>2 DEF Enqueue, Goto, IInv, TypeOK
<1>4. Good(s)'
  BY <1>1, <1>2 DEF Good, Place, Claimed, Before, After, Routed, InTransaction
<1>5. \A d \in Deliveries : Holds(s, d)' => Holds(s, d)
  BY <1>1, <1>2 DEF Holds, InTransaction
<1>6. QED
  BY <1>2, <1>3, <1>4, <1>5, HeldAlone, LocalStep

\* Acknowledging, failing: the session leaves its transaction.
LEMMA LeaveStep ==
  ASSUME IInv, TypeOK', NEW s \in Sessions,
         tx' = [tx EXCEPT ![s] = NoTx],
         \/ s \in Workers /\ Goto(s, "idle")
         \/ s \notin Workers /\ Goto(s, "done"),
         row' = row, attempts' = attempts
  PROVE  IInv'
<1>1. pc'[s] = IF s \in Workers THEN "idle" ELSE "done"
  BY DEF Goto, IInv, TypeOK
<1>2. \A t \in Sessions \ {s} : pc'[t] = pc[t] /\ tx'[t] = tx[t]
  BY DEF Goto, IInv, TypeOK
<1>3. Good(s)'
  BY <1>1 DEF Good, Place, Claimed, Before, After, Routed, InTransaction
<1>4. QED
  BY <1>1, <1>2, <1>3, LocalStep DEF Holds, InTransaction
-----------------------------------------------------------------------------
(***************************************************************************)
(* Commit: the transaction's row becomes the committed one.                *)
(***************************************************************************)

\* What a committing session publishes.
LEMMA CommitFacts ==
  ASSUME IInv, NEW s \in Sessions, Commit(s)
  PROVE  LET t == tx[s]
             d == t.delivery
         IN  /\ d \in Deliveries /\ t.image \in Row /\ Good(s) /\ pc[s] = "commit"
             /\ row' = [row EXCEPT ![d] = t.image]
             /\ row[d].status \in Claimable \/ (s = d /\ row[d] = Absent)
             /\ t.image.integration \in Integrations
             /\ t.image.status \notin {"absent"}
             /\ pc'[s] = IF s \in Workers THEN "ack" ELSE "done"
             /\ tx'[s].delivery = d
             /\ \A u \in Sessions \ {s} : pc'[u] = pc[u] /\ tx'[u] = tx[u]
<1>1. pc[s] = "commit" /\ Good(s)
  BY DEF Commit, IInv, SessionInv
<1>2. tx[s] \in Tx /\ tx[s].delivery \in Deliveries
  BY <1>1 DEF IInv, TypeOK, Good, Place, Sessions, InTransaction
<1>3. tx[s].image \in Row /\ tx[s].image.attempt_count \in Nat
  BY <1>2 DEF Tx, Row
<1>4. tx[s].image.status # "absent"
  <2>1. ASSUME tx[s].result # "none" PROVE tx[s].image.status # "absent"
    BY <1>1, <1>3, <2>1, OutcomeStatus DEF Good, After
  <2>2. QED
    BY <1>1, <2>1 DEF Good, After
<1>5. /\ row[tx[s].delivery].status \in Claimable
         \/ (s = tx[s].delivery /\ row[tx[s].delivery] = Absent)
      /\ tx[s].image.integration \in Integrations
  BY <1>1 DEF Good, Claimed, Place, Routed, InTransaction
<1>6. /\ pc'[s] = IF s \in Workers THEN "ack" ELSE "done"
      /\ tx'[s].delivery = tx[s].delivery
      /\ \A u \in Sessions \ {s} : pc'[u] = pc[u] /\ tx'[u] = tx[u]
  BY <1>1 DEF Commit, Goto, IInv, TypeOK, NoTx
<1>7. QED
  BY <1>1, <1>2, <1>3, <1>4, <1>5, <1>6 DEF Commit

\* The attempt log grows by the attempt the transaction made, if any.
LEMMA CommitLog ==
  ASSUME IInv, NEW s \in Sessions, Commit(s)
  PROVE  AttemptLog'
<1> DEFINE d == tx[s].delivery
           n == row[d].attempt_count
           entry == [number |-> tx[s].image.attempt_count, ok |-> tx[s].result = "ok"]
<1>1. /\ d \in Deliveries /\ tx[s].image \in Row /\ Good(s) /\ pc[s] = "commit"
      /\ row' = [row EXCEPT ![d] = tx[s].image]
      /\ row[d].status \in Claimable \/ (s = d /\ row[d] = Absent)
  BY CommitFacts
<1>2. /\ row \in [Deliveries -> Row] /\ attempts \in [Deliveries -> Seq(Attempts)]
      /\ n \in Nat /\ AttemptLog
  BY <1>1 DEF IInv, TypeOK, Row
<1>3. /\ Len(attempts[d]) = n
      /\ \A k \in 1..n : attempts[d][k].number = k /\ ~attempts[d][k].ok
  <2>1. row[d].status # "delivered"
    BY <1>1 DEF Claimable, Absent
  <2>2. QED
    BY <1>1, <1>2, <2>1 DEF AttemptLog
<1>4. SUFFICES ASSUME NEW e \in Deliveries
               PROVE  LET m == row'[e].attempt_count
                      IN  /\ Len(attempts'[e]) = m
                          /\ \A k \in 1..m : attempts'[e][k].number = k
                          /\ \A k \in 1..m :
                               attempts'[e][k].ok <=> (row'[e].status = "delivered" /\ k = m)
  BY DEF AttemptLog
<1>5. CASE e # d
  <2>1. row'[e] = row[e] /\ attempts'[e] = attempts[e]
    BY <1>1, <1>2, <1>5 DEF Commit
  <2>2. QED
    BY <1>2, <2>1 DEF AttemptLog
<1>6. CASE e = d /\ tx[s].result = "none"
  <2>1. attempts'[d] = attempts[d] /\ row'[d] = tx[s].image
    BY <1>1, <1>2, <1>6 DEF Commit
  <2>2. tx[s].image.attempt_count = n /\ tx[s].image.status # "delivered"
    BY <1>1, <1>6 DEF Good, After
  <2>3. QED
    BY <1>3, <1>6, <2>1, <2>2
<1>7. CASE e = d /\ tx[s].result # "none"
  <2>1. /\ attempts'[d] = Append(attempts[d], entry) /\ row'[d] = tx[s].image
        /\ entry \in Attempts /\ attempts[d] \in Seq(Attempts)
    BY <1>1, <1>2, <1>7 DEF Commit, Attempts, Row
  <2>2. tx[s].image.attempt_count = n + 1
    BY <1>1, <1>7 DEF Good, After
  <2>3. tx[s].image.status = "delivered" <=> tx[s].result = "ok"
    <3>1. (tx[s].result = "ok") \in BOOLEAN /\ (s \notin Workers) \in BOOLEAN /\ n + 1 \in Nat
      BY <1>2
    <3>2. tx[s].image.status = outcome_status(n + 1, tx[s].result = "ok", s \notin Workers)
      BY <1>1, <1>7, <2>2 DEF Good, After
    <3>3. QED
      BY <3>1, <3>2, OutcomeStatus, Zenon
  <2>4. /\ Len(attempts'[d]) = n + 1
        /\ \A k \in 1..n : attempts'[d][k] = attempts[d][k]
        /\ attempts'[d][n + 1] = entry
    BY <1>2, <1>3, <2>1
  <2>5. ASSUME NEW k \in 1..(n + 1)
        PROVE  /\ attempts'[d][k].number = k
               /\ attempts'[d][k].ok <=> (row'[d].status = "delivered" /\ k = n + 1)
    <3>1. CASE k \in 1..n
      <4>1. k # n + 1
        BY <1>2, <3>1
      <4>2. attempts'[d][k] = attempts[d][k] /\ attempts[d][k].number = k /\ ~attempts[d][k].ok
        BY <1>3, <2>4, <3>1
      <4>3. QED
        BY <4>1, <4>2, Zenon
    <3>2. CASE k = n + 1
      <4>1. entry.number = tx[s].image.attempt_count /\ (entry.ok <=> tx[s].result = "ok")
        OBVIOUS
      <4>2. attempts'[d][k] = entry /\ entry.number = k
        BY <2>2, <2>4, <3>2, <4>1
      <4>3. row'[d].status = "delivered" <=> tx[s].result = "ok"
        BY <2>1, <2>3
      <4>4. QED
        BY <3>2, <4>1, <4>2, <4>3, Zenon
    <3>3. k \in 1..n \/ k = n + 1
      BY <1>2
    <3>4. QED
      BY <3>1, <3>2, <3>3, Zenon
  <2>6. QED
    BY <1>7, <2>1, <2>2, <2>4, <2>5
<1>8. QED
  BY <1>5, <1>6, <1>7

\* A commit replaces the row by an image that agrees with it.
LEMMA CommitStep ==
  ASSUME IInv, TypeOK', NEW s \in Sessions, Commit(s)
  PROVE  IInv'
<1> DEFINE d == tx[s].delivery
<1>1. /\ d \in Deliveries /\ tx[s].image \in Row /\ Good(s) /\ pc[s] = "commit"
      /\ row' = [row EXCEPT ![d] = tx[s].image]
      /\ row[d].status \in Claimable \/ (s = d /\ row[d] = Absent)
      /\ tx[s].image.integration \in Integrations
      /\ tx[s].image.status \notin {"absent"}
      /\ pc'[s] = IF s \in Workers THEN "ack" ELSE "done"
      /\ tx'[s].delivery = d
      /\ \A u \in Sessions \ {s} : pc'[u] = pc[u] /\ tx'[u] = tx[u]
  BY CommitFacts
<1>2. Holds(s, d)
  BY <1>1 DEF Holds, InTransaction
<1>3. \A e \in Deliveries \ {d} : row'[e] = row[e]
  BY <1>1 DEF IInv, TypeOK
<1>4. row'[d] = tx[s].image
  BY <1>1 DEF IInv, TypeOK
<1>5. ASSUME NEW t \in Sessions \ {s} PROVE Good(t)'
  <2>1. Good(t) /\ pc'[t] = pc[t] /\ tx'[t] = tx[t] /\ ~Holds(t, d)
    BY <1>1, <1>2, HeldAlone DEF IInv, SessionInv
  <2>2. CASE t \in Workers
    BY <1>3, <2>1, <2>2 DEF Good, Place, Claimed, Before, After, Routed, Holds, InTransaction
  <2>3. CASE t \notin Workers
    <3>1. t \in Deliveries /\ (pc[t] \in InTransaction \cup {"start"} => row[t] = Absent)
      BY <2>1, <2>3 DEF Good, Place, Sessions
    <3>2. t = d => pc[t] \notin InTransaction \cup {"start"}
      BY <1>1, <2>1, <3>1 DEF Good, Claimed, Place, Holds, InTransaction, Absent, Claimable
    <3>3. QED
      BY <1>3, <2>1, <2>3, <3>1, <3>2
      DEF Good, Place, Claimed, Before, After, Routed, InTransaction
  <2>4. QED
    BY <2>2, <2>3
<1>6. Good(s)'
  BY <1>1 DEF Good, Place, Claimed, Before, After, Routed, InTransaction
<1>7. SessionInv'
  BY <1>5, <1>6 DEF SessionInv
<1>8. Exclusive'
  BY <1>1 DEF Exclusive, IInv, Holds, InTransaction
<1>9. RowInv'
  BY <1>1, <1>3, <1>4 DEF RowInv, IInv
<1>10. StuckOnlyIfOrphaned'
  <2>1. tx[s].image.status = "processing" => d \in Orphans
    <3>1. ASSUME tx[s].result # "none" PROVE tx[s].image.status # "processing"
      <4>1. tx[s].image.attempt_count \in Nat
        BY <1>1 DEF Row
      <4>2. After(s) /\ pc[s] \in {"enqueue", "commit"}
        BY <1>1 DEF Good
      <4>3. tx[s].image.status =
              outcome_status(tx[s].image.attempt_count, tx[s].result = "ok", s \notin Workers)
        BY <3>1, <4>2, Zenon DEF After
      <4>4. \A ok \in BOOLEAN, now \in BOOLEAN :
              outcome_status(tx[s].image.attempt_count, ok, now) # "processing"
        BY <4>1, OutcomeStatus
      <4>5. QED
        BY <4>3, <4>4, Zenon
    <3>2. QED
      BY <1>1, <3>1 DEF Good, After
  <2>2. QED
    BY <1>3, <1>4, <2>1 DEF StuckOnlyIfOrphaned, IInv
<1>11. QED
  BY <1>7, <1>8, <1>9, <1>10, CommitLog DEF IInv
-----------------------------------------------------------------------------
(***************************************************************************)
(* The invariant, and what follows from it.                                *)
(***************************************************************************)

\* The invariant holds before any request.
LEMMA InitInv == Init => IInv
<1> SUFFICES ASSUME Init PROVE IInv
  OBVIOUS
<1>1. SessionInv
  BY DEF Init, SessionInv, Good, Place, Claimed, Before, After, Routed, InTransaction, Sessions
<1>2. Exclusive /\ RowInv /\ StuckOnlyIfOrphaned
  BY DEF Init, Exclusive, Holds, InTransaction, RowInv, StuckOnlyIfOrphaned, Absent
<1>3. AttemptLog
  BY DEF Init, AttemptLog, Absent
<1>4. QED
  BY InitType, <1>1, <1>2, <1>3 DEF IInv

\* Every step keeps the invariant.
LEMMA StepInv == IInv /\ [Next]_vars => IInv'
<1> SUFFICES ASSUME IInv, [Next]_vars PROVE IInv'
  OBVIOUS
<1>1. TypeOK'
  BY StepType DEF IInv
<1>2. \A s \in Workers \cup Deliveries : s \in Sessions
  BY DEF Sessions
<1>3. ASSUME NEW d \in Deliveries, Insert(d) \/ RequestFails(d) PROVE IInv'
  <2>1. CASE RequestFails(d)
    BY <1>1, <1>2, <2>1, LeaveStep, SetAssumption DEF RequestFails
  <2>2. QED
    BY <1>1, <1>3, <2>1, InsertStep
<1>4. ASSUME NEW w \in Workers, WorkerStep(w) \/ WorkerFails(w) PROVE IInv'
  <2>1. CASE Ack(w) \/ WorkerFails(w)
    BY <1>1, <1>2, <2>1, LeaveStep DEF Ack, WorkerFails
  <2>2. QED
    BY <1>1, <1>4, <2>1, ClaimStep, ReadContextStep DEF WorkerStep
<1>5. ASSUME NEW s \in Sessions, SessionStep(s) PROVE IInv'
  BY <1>1, <1>5, CallAdapterStep, FlushStep, EnqueueStep, CommitStep DEF SessionStep
<1>6. CASE UNCHANGED vars
  <2>1. \A s \in Sessions : Good(s)'
    BY <1>6, Frame DEF IInv, SessionInv, vars
  <2>2. QED
    BY <1>1, <1>6, <2>1
    DEF vars, IInv, SessionInv, Exclusive, Holds, RowInv, AttemptLog, StuckOnlyIfOrphaned
<1>7. QED
  BY <1>1, <1>3, <1>4, <1>5, <1>6, ReceiveStep DEF Next, Terminating

\* The strengthened invariant holds in every reachable state of the pipeline.
THEOREM Invariance == Spec => []IInv
  BY InitInv, StepInv, PTL DEF Spec

\* The variables of the delivery pipeline keep their types.
THEOREM TypeCorrect == Spec => []TypeOK
  BY Invariance, PTL DEF IInv

\* However workers, requests and crashes interleave, delivery_attempts is the
\* exact history of every row: two workers never process a row at once.
THEOREM AttemptLogExact == Spec => []AttemptLog
  BY Invariance, PTL DEF IInv

\* A claim is never left behind by a crash, only by a missing lead or integration.
THEOREM NoRowStuck == Spec => []StuckOnlyIfOrphaned
  BY Invariance, PTL DEF IInv
-----------------------------------------------------------------------------
(***************************************************************************)
(* Deals at the provider.  A deal belongs to the delivered row, to the one *)
(* transaction that holds the row and will deliver it, or to a transaction *)
(* that was rolled back.                                                   *)
(***************************************************************************)
InHand(s, d) == Holds(s, d) /\ tx[s].result = "ok"
Deal(d) == row[d].status = "delivered" \/ \E s \in Sessions : InHand(s, d)
DealsCounted ==
  \A d \in Deliveries : hist[d].deals = hist[d].rolledBack + (IF Deal(d) THEN 1 ELSE 0)

\* An answer of the adapter is carried from the call to the end of the transaction.
Carries(s) == tx[s].result # "none" => pc[s] \in {"flush", "enqueue", "commit"}

DealInv == DealsCounted /\ \A s \in Sessions : Carries(s)

\* Nobody has begun and no deal has been made at first.
LEMMA DealInit == Init => DealInv
  BY DEF Init, DealInv, DealsCounted, Deal, InHand, Holds, InTransaction, Carries, NoTx, Absent

\* The row that a transaction holds is not delivered.
LEMMA HeldOpen ==
  ASSUME IInv, NEW s \in Sessions, NEW d \in Deliveries, Holds(s, d)
  PROVE  row[d].status # "delivered"
  BY DEF IInv, SessionInv, Good, Claimed, Place, Holds, InTransaction, Claimable, Absent

\* A step that makes no deal, takes none back and commits nothing.
LEMMA QuietDeal ==
  ASSUME DealInv, NEW s \in Sessions, Carries(s)', row' = row,
         \A d \in Deliveries : /\ hist'[d].deals = hist[d].deals
                               /\ hist'[d].rolledBack = hist[d].rolledBack,
         \A t \in Sessions \ {s} : pc'[t] = pc[t] /\ tx'[t] = tx[t],
         \A d \in Deliveries : InHand(s, d)' <=> InHand(s, d)
  PROVE  DealInv'
<1>1. \A t \in Sessions, d \in Deliveries : InHand(t, d)' <=> InHand(t, d)
  BY DEF InHand, Holds
<1>2. \A d \in Deliveries : Deal(d)' <=> Deal(d)
  BY <1>1 DEF Deal
<1>3. DealsCounted'
  BY <1>2 DEF DealInv, DealsCounted
<1>4. \A t \in Sessions : Carries(t)'
  BY DEF DealInv, Carries
<1>5. QED
  BY <1>3, <1>4 DEF DealInv

\* A step of s that changes the account of d alone.
LEMMA DealOfOne ==
  ASSUME DealInv, NEW s \in Sessions, NEW d \in Deliveries, Carries(s)',
         \A t \in Sessions \ {s} : pc'[t] = pc[t] /\ tx'[t] = tx[t],
         \A e \in Deliveries \ {d} : /\ row'[e] = row[e] /\ hist'[e] = hist[e]
                                     /\ ~InHand(s, e) /\ ~InHand(s, e)',
         hist'[d].deals = hist'[d].rolledBack + (IF Deal(d)' THEN 1 ELSE 0)
  PROVE  DealInv'
<1>1. ASSUME NEW e \in Deliveries \ {d} PROVE Deal(e)' <=> Deal(e)
  <2>1. \A t \in Sessions : InHand(t, e)' <=> InHand(t, e)
    BY DEF InHand, Holds
  <2>2. QED
    BY <2>1 DEF Deal
<1>2. DealsCounted'
  BY <1>1 DEF DealInv, DealsCounted
<1>3. \A t \in Sessions : Carries(t)'
  BY DEF DealInv, Carries
<1>4. QED
  BY <1>2, <1>3 DEF DealInv

\* Before the call of the adapter nothing is in hand.
LEMMA DealBeforeCall ==
  ASSUME IInv, DealInv, NEW s \in Sessions,
         \/ s \notin Workers /\ Insert(s)
         \/ s \in Workers /\ \E d \in Deliveries : Receive(s, d)
         \/ s \in Workers /\ (Claim(s) \/ ReadContext(s) \/ Ack(s))
  PROVE  DealInv'
<1>1. /\ row' = row /\ hist' = hist
      /\ \A t \in Sessions \ {s} : pc'[t] = pc[t] /\ tx'[t] = tx[t]
  BY DEF Insert, Receive, Claim, ReadContext, Ack, Goto, IInv, TypeOK
<1>2. tx[s].result = "none"
  BY DEF DealInv, Carries, Insert, Receive, Claim, ReadContext, Ack
<1>3. tx'[s].result = "none"
  <2>1. CASE Insert(s)
    <3>1. PICK i \in Integrations, f \in BOOLEAN :
            tx' = [tx EXCEPT ![s] =
                     [delivery |-> s, seen |-> success[i], result |-> "none",
                      image |-> [Absent EXCEPT !.status = "queued", !.force_fail = f,
                                               !.integration = i]]]
      BY <2>1 DEF Insert
    <3>2. QED
      BY <3>1 DEF IInv, TypeOK
  <2>2. CASE \E d \in Deliveries : Receive(s, d)
    BY <2>2 DEF Receive, IInv, TypeOK, NoTx
  <2>3. CASE Claim(s) \/ ReadContext(s)
    <3>1. tx' = tx \/ \E image : tx' = [tx EXCEPT ![s].image = image]
                   \/ \E n : tx' = [tx EXCEPT ![s].seen = n]
      BY <2>3 DEF Claim, ReadContext
    <3>2. tx[s] \in Tx
      BY DEF IInv, TypeOK
    <3>3. QED
      BY <1>2, <3>1, <3>2 DEF IInv, TypeOK, Tx
  <2>4. CASE Ack(s)
    BY <2>4 DEF Ack, IInv, TypeOK, NoTx
  <2>5. QED
    BY <2>1, <2>2, <2>3, <2>4
<1>4. QED
  BY <1>1, <1>2, <1>3, QuietDeal DEF InHand, Carries

\* Flush and Enqueue keep the answer and the row lock.
LEMMA DealAfterCall ==
  ASSUME IInv, DealInv, NEW s \in Sessions, Flush(s) \/ Enqueue(s)
  PROVE  DealInv'
<1>1. /\ row' = row /\ hist' = hist
      /\ \A t \in Sessions \ {s} : pc'[t] = pc[t] /\ tx'[t] = tx[t]
  BY DEF Flush, Enqueue, Goto, IInv, TypeOK
<1>2. pc[s] \in {"flush", "enqueue"} /\ pc'[s] \in {"enqueue", "commit"}
  BY DEF Flush, Enqueue, Goto, IInv, TypeOK
<1>3. tx'[s].delivery = tx[s].delivery /\ tx'[s].result = tx[s].result
  <2>1. tx[s] \in Tx
    BY DEF IInv, TypeOK
  <2>2. CASE Flush(s)
    BY <2>1, <2>2 DEF Flush, IInv, TypeOK, Tx
  <2>3. CASE Enqueue(s)
    BY <2>3 DEF Enqueue
  <2>4. QED
    BY <2>2, <2>3
<1>4. QED
  BY <1>1, <1>2, <1>3, QuietDeal DEF InHand, Holds, InTransaction, Carries

\* A deal is made only for a row that has none: it is held and not delivered.
LEMMA DealCall ==
  ASSUME IInv, DealInv, NEW s \in Sessions, CallAdapter(s)
  PROVE  DealInv'
<1>1. pc[s] = "call" /\ tx[s].delivery \in Deliveries
  BY DEF CallAdapter, IInv, SessionInv, Good, Place, Sessions, InTransaction
<1>0. PICK d \in Deliveries : d = tx[s].delivery
  BY <1>1
<1>2. PICK ok \in BOOLEAN :
        /\ tx' = [tx EXCEPT ![s].result = IF ok THEN "ok" ELSE "failed"]
        /\ hist' = IF ok THEN [hist EXCEPT ![d].deals = @ + 1] ELSE hist
  BY <1>0 DEF CallAdapter
<1>3. /\ tx'[s].delivery = d /\ tx'[s].result = (IF ok THEN "ok" ELSE "failed")
      /\ pc'[s] = "flush" /\ row' = row
      /\ \A t \in Sessions \ {s} : pc'[t] = pc[t] /\ tx'[t] = tx[t]
  BY <1>0, <1>2 DEF CallAdapter, Goto, IInv, TypeOK, Tx
<1>4. Holds(s, d) /\ tx[s].result = "none"
  BY <1>0, <1>1 DEF Holds, InTransaction, DealInv, Carries
<1>5. CASE ~ok
  BY <1>2, <1>3, <1>4, <1>5, QuietDeal DEF InHand, Carries
<1>6. CASE ok
  <2>1. ~Deal(d)
    BY <1>1, <1>4, HeldAlone, HeldOpen DEF Deal, InHand
  <2>2. Deal(d)'
    BY <1>1, <1>3, <1>6 DEF Deal, InHand, Holds, InTransaction
  <2>3. /\ hist'[d].deals = hist[d].deals + 1 /\ hist'[d].rolledBack = hist[d].rolledBack
        /\ \A e \in Deliveries \ {d} : hist'[e] = hist[e]
    BY <1>1, <1>2, <1>6 DEF IInv, TypeOK, History
  <2>4. hist'[d].deals = hist'[d].rolledBack + (IF Deal(d)' THEN 1 ELSE 0)
    <3>1. hist[d].deals = hist[d].rolledBack /\ hist[d].rolledBack \in Nat
      BY <1>1, <2>1 DEF DealInv, DealsCounted, IInv, TypeOK, History
    <3>2. QED
      BY <2>2, <2>3, <3>1
  <2>5. \A e \in Deliveries \ {d} : ~InHand(s, e) /\ ~InHand(s, e)'
    BY <1>0, <1>3 DEF InHand, Holds
  <2>6. Carries(s)'
    BY <1>3 DEF Carries
  <2>7. QED
    BY <1>1, <1>3, <2>3, <2>4, <2>5, <2>6, DealOfOne
<1>7. QED
  BY <1>5, <1>6

\* The commit of a success delivers the row, the commit of anything else does not.
LEMMA DealCommit ==
  ASSUME IInv, DealInv, NEW s \in Sessions, Commit(s)
  PROVE  DealInv'
<1>0. PICK d \in Deliveries : d = tx[s].delivery
  BY CommitFacts
<1>1. /\ tx[s].image \in Row /\ Good(s) /\ pc[s] = "commit"
      /\ row' = [row EXCEPT ![d] = tx[s].image]
      /\ pc'[s] = IF s \in Workers THEN "ack" ELSE "done"
      /\ \A u \in Sessions \ {s} : pc'[u] = pc[u] /\ tx'[u] = tx[u]
  BY <1>0, CommitFacts
<1>2. tx'[s].result = "none" /\ hist' = hist
  BY DEF Commit, IInv, TypeOK, NoTx
<1>3. Holds(s, d) /\ \A e \in Deliveries : Holds(s, e) => e = d
  BY <1>0, <1>1 DEF Holds, InTransaction
<1>4. row'[d] = tx[s].image /\ \A e \in Deliveries \ {d} : row'[e] = row[e]
  BY <1>1 DEF IInv, TypeOK
<1>5. tx[s].image.status = "delivered" <=> tx[s].result = "ok"
  <2>1. CASE tx[s].result = "none"
    BY <1>1, <2>1 DEF Good, After
  <2>2. CASE tx[s].result # "none"
    <3>1. tx[s].image.attempt_count \in Nat
      BY <1>1 DEF Row
    <3>2. After(s) /\ pc[s] \in {"enqueue", "commit"}
      BY <1>1 DEF Good
    <3>3. tx[s].image.status =
            outcome_status(tx[s].image.attempt_count, tx[s].result = "ok", s \notin Workers)
      BY <2>2, <3>2, Zenon DEF After
    <3>4. (tx[s].result = "ok") \in BOOLEAN /\ (s \notin Workers) \in BOOLEAN
      OBVIOUS
    <3>5. QED
      BY <3>1, <3>3, <3>4, OutcomeStatus, Zenon
  <2>3. QED
    BY <2>1, <2>2
<1>6. Deal(d) <=> tx[s].result = "ok"
  BY <1>1, <1>3, HeldAlone, HeldOpen DEF Deal, InHand
<1>7. Deal(d)' <=> tx[s].result = "ok"
  <2>1. \A t \in Sessions : ~InHand(t, d)'
    BY <1>1, <1>2, <1>3, HeldAlone DEF InHand, Holds
  <2>2. QED
    BY <1>4, <1>5, <2>1 DEF Deal
<1>8. hist'[d].deals = hist'[d].rolledBack + (IF Deal(d)' THEN 1 ELSE 0)
  BY <1>1, <1>2, <1>6, <1>7 DEF DealInv, DealsCounted
<1>9. \A e \in Deliveries \ {d} : ~InHand(s, e) /\ ~InHand(s, e)'
  BY <1>2, <1>3 DEF InHand
<1>10. Carries(s)'
  BY <1>2 DEF Carries
<1>11. QED
  BY <1>1, <1>2, <1>4, <1>8, <1>9, <1>10, DealOfOne

\* A failing transaction that has made a deal leaves it behind, on the account of
\* what was rolled back.
LEMMA DealFails ==
  ASSUME IInv, DealInv, NEW s \in Sessions, NEW requeued \in BOOLEAN,
         RollBack(s, requeued), tx' = [tx EXCEPT ![s] = NoTx], row' = row,
         tx[s].delivery \in Deliveries,
         \A t \in Sessions \ {s} : pc'[t] = pc[t]
  PROVE  DealInv'
<1> DEFINE undone == IF tx[s].result = "ok" THEN 1 ELSE 0
<1>0. PICK d \in Deliveries : d = tx[s].delivery
  OBVIOUS
<1>1. /\ hist'[d].deals = hist[d].deals
      /\ hist'[d].rolledBack = hist[d].rolledBack + undone
      /\ \A e \in Deliveries \ {d} : hist'[e] = hist[e]
  BY <1>0 DEF RollBack, IInv, TypeOK, History
<1>2. tx'[s].result = "none" /\ \A t \in Sessions \ {s} : tx'[t] = tx[t]
  BY DEF IInv, TypeOK, NoTx
<1>3. Carries(s)' /\ \A e \in Deliveries : ~InHand(s, e)'
  BY <1>2 DEF Carries, InHand
<1>4. hist[d].deals \in Nat /\ hist[d].rolledBack \in Nat
  BY DEF IInv, TypeOK, History
<1>5. CASE tx[s].result = "ok"
  <2>1. Holds(s, d)
    BY <1>0, <1>5 DEF DealInv, Carries, Holds, InTransaction
  <2>2. Deal(d)
    BY <1>5, <2>1 DEF Deal, InHand
  <2>3. ~Deal(d)'
    BY <1>2, <1>3, <2>1, HeldAlone, HeldOpen DEF Deal, InHand, Holds
  <2>4. hist[d].deals = hist[d].rolledBack + 1
    BY <2>2 DEF DealInv, DealsCounted
  <2>5. hist'[d].deals = hist'[d].rolledBack + (IF Deal(d)' THEN 1 ELSE 0)
    BY <1>1, <1>4, <1>5, <2>3, <2>4
  <2>6. \A e \in Deliveries \ {d} : ~InHand(s, e)
    BY <1>0 DEF InHand, Holds
  <2>7. QED
    BY <1>1, <1>2, <1>3, <2>5, <2>6, DealOfOne
<1>6. CASE tx[s].result # "ok"
  <2>1. \A e \in Deliveries : ~InHand(s, e)
    BY <1>6 DEF InHand
  <2>2. hist'[d].rolledBack = hist[d].rolledBack
    BY <1>1, <1>4, <1>6
  <2>3. QED
    BY <1>1, <1>2, <1>3, <2>1, <2>2, QuietDeal
<1>7. QED
  BY <1>5, <1>6

\* Every step keeps the account of the deals.
LEMMA DealStep == IInv /\ DealInv /\ [Next]_vars => DealInv'
<1> SUFFICES ASSUME IInv, DealInv, [Next]_vars PROVE DealInv'
  OBVIOUS
<1>1. ASSUME NEW d \in Deliveries, Insert(d) \/ RequestFails(d) PROVE DealInv'
  <2>1. d \in Sessions /\ d \notin Workers
    BY SetAssumption DEF Sessions
  <2>2. CASE Insert(d)
    BY <2>1, <2>2, DealBeforeCall
  <2>3. CASE RequestFails(d)
    <3>1. tx[d].delivery \in Deliveries /\ RollBack(d, FALSE)
      BY <2>1, <2>3 DEF RequestFails, IInv, SessionInv, Good, Place
    <3>2. \A t \in Sessions \ {d} : pc'[t] = pc[t]
      BY <2>3 DEF RequestFails, Goto, IInv, TypeOK
    <3>3. QED
      BY <2>1, <2>3, <3>1, <3>2, DealFails DEF RequestFails
  <2>4. QED
    BY <1>1, <2>2, <2>3
<1>2. ASSUME NEW w \in Workers, NEW d \in Deliveries, Receive(w, d) PROVE DealInv'
  BY <1>2, DealBeforeCall DEF Sessions
<1>3. ASSUME NEW w \in Workers, WorkerStep(w) PROVE DealInv'
  BY <1>3, DealBeforeCall DEF Sessions, WorkerStep
<1>4. ASSUME NEW w \in Workers, WorkerFails(w) PROVE DealInv'
  <2>1. w \in Sessions
    BY DEF Sessions
  <2>2. PICK requeued \in BOOLEAN : RollBack(w, requeued)
    BY <1>4 DEF WorkerFails
  <2>3. tx[w].delivery \in Deliveries
    BY <1>4, <2>1 DEF WorkerFails, IInv, SessionInv, Good, Place, InTransaction
  <2>4. \A t \in Sessions \ {w} : pc'[t] = pc[t]
    BY <1>4 DEF WorkerFails, Goto, IInv, TypeOK
  <2>5. QED
    BY <1>4, <2>1, <2>2, <2>3, <2>4, DealFails DEF WorkerFails
<1>5. ASSUME NEW s \in Sessions, SessionStep(s) PROVE DealInv'
  BY <1>5, DealAfterCall, DealCall, DealCommit DEF SessionStep
<1>6. CASE UNCHANGED vars
  BY <1>6 DEF vars, DealInv, DealsCounted, Deal, InHand, Holds, Carries
<1>7. QED
  BY <1>1, <1>2, <1>3, <1>4, <1>5, <1>6 DEF Next, Terminating

\* However tasks are redelivered, requests and workers race and transactions
\* fail, the provider receives a second deal for a lead only when the
\* transaction that made the first one was rolled back.
THEOREM SecondDealOnlyAfterRollback == Spec => []DealsAccounted
<1>1. IInv /\ DealInv => DealsAccounted
  <2> SUFFICES ASSUME IInv, DealInv, NEW d \in Deliveries
               PROVE  hist[d].deals <= 1 + hist[d].rolledBack
    BY DEF DealsAccounted
  <2>1. hist[d].rolledBack \in Nat
    BY DEF IInv, TypeOK, History
  <2>2. CASE Deal(d)
    <3>1. hist[d].deals = hist[d].rolledBack + 1
      BY <2>2 DEF DealInv, DealsCounted
    <3>2. QED
      BY <2>1, <3>1
  <2>3. CASE ~Deal(d)
    <3>1. hist[d].deals = hist[d].rolledBack + 0
      BY <2>3 DEF DealInv, DealsCounted
    <3>2. QED
      BY <2>1, <3>1
  <2>4. QED
    BY <2>2, <2>3
<1>2. QED
  BY <1>1, InitInv, StepInv, DealInit, DealStep, PTL DEF Spec
-----------------------------------------------------------------------------
(***************************************************************************)
(* Retries.  A task that will schedule a retry has enqueued it before its  *)
(* row is committed, and nobody can take that message away from the row:   *)
(* a claim of it waits for the lock, or fails in view of everybody.        *)
(***************************************************************************)

\* s is about to commit a row that says a retry of d is scheduled.
Retries(s, d) ==
  pc[s] = "commit" /\ tx[s].delivery = d /\ tx[s].image.status = "retry_scheduled"
\* Worker w has a message of d and has not claimed the row.
Claims(w, d) == pc[w] = "claim" /\ tx[w].delivery = d
Awaited(d) == ready[d] > 0 \/ \E w \in Workers : Claims(w, d)
RetryOf(d) ==
  ~hist[d].lost =>
    /\ (\E s \in Sessions : Retries(s, d)) => Awaited(d)
    /\ row[d].status = "retry_scheduled" => Awaited(d) \/ \E w \in Workers : Holds(w, d)
RetryInv == \A d \in Deliveries : RetryOf(d)

\* A step of s that takes no message of d and gives no row of d up.
LEMMA RetryFrame ==
  ASSUME IInv, NEW d \in Deliveries, RetryOf(d), NEW s \in Sessions, TypeOK',
         \A t \in Sessions \ {s} : pc'[t] = pc[t] /\ tx'[t] = tx[t],
         row'[d] = row[d], ready'[d] >= ready[d], hist[d].lost => hist'[d].lost,
         s \in Workers => ~Claims(s, d) /\ (Holds(s, d) => Holds(s, d)'),
         Retries(s, d)' => Retries(s, d)
  PROVE  RetryOf(d)'
<1>1. \A t \in Sessions \ {s} : /\ Claims(t, d)' <=> Claims(t, d)
                                /\ Holds(t, d)' <=> Holds(t, d)
                                /\ Retries(t, d)' <=> Retries(t, d)
  BY DEF Claims, Holds, Retries
<1>2. ready[d] \in Nat /\ ready'[d] \in Nat
  BY DEF IInv, TypeOK
<1>3. Awaited(d) => Awaited(d)'
  BY <1>1, <1>2 DEF Awaited, Sessions
<1>4. (\E w \in Workers : Holds(w, d)) => (\E w \in Workers : Holds(w, d)')
  BY <1>1 DEF Sessions
<1>5. (\E t \in Sessions : Retries(t, d)') => (\E t \in Sessions : Retries(t, d))
  BY <1>1
<1>6. QED
  BY <1>3, <1>4, <1>5 DEF RetryOf

\* A request never schedules a retry, and no outcome does without a delay.
LEMMA RetryOutcome ==
  ASSUME NEW image \in Row, NEW ok \in BOOLEAN, NEW now \in BOOLEAN,
         Outcome(image, ok, now).status = "retry_scheduled"
  PROVE  ~now /\ WantsRetry(Outcome(image, ok, now))
<1>1. image.attempt_count \in Nat /\ Len(RETRY_DELAYS_MS) = 3
  BY DEF Row, RETRY_DELAYS_MS
<1> DEFINE n == image.attempt_count + 1
<1>2. Outcome(image, ok, now).status = outcome_status(n, ok, now)
  BY OutcomeRow
<1>3. ~ok /\ n < 3 /\ ~now
  BY <1>1, <1>2 DEF outcome_status, MAX_ATTEMPTS
<1>4. next_retry_at(n) # 0
  BY <1>1, <1>3 DEF next_retry_at
<1>5. Outcome(image, ok, now).next_retry_at = next_retry_at(n)
  BY <1>1, <1>3 DEF Outcome, Row, MAX_ATTEMPTS
<1>6. QED
  BY <1>3, <1>4, <1>5 DEF WantsRetry

\* What commits a scheduled retry is a worker.
LEMMA RetryByWorker ==
  ASSUME IInv, NEW s \in Sessions, NEW d \in Deliveries, Retries(s, d)
  PROVE  s \in Workers /\ row[d].status \in Claimable
<1>1. Good(s) /\ tx[s].image.attempt_count \in Nat
  BY DEF IInv, SessionInv, TypeOK, Tx, Row
<1>2. After(s) /\ pc[s] = "commit" /\ tx[s].image.status = "retry_scheduled"
  BY <1>1 DEF Good, Retries
<1>3. tx[s].image.status =
        outcome_status(tx[s].image.attempt_count, tx[s].result = "ok", s \notin Workers)
  BY <1>2 DEF After
<1>4. s \in Workers
  BY <1>2, <1>3 DEF outcome_status
<1>5. QED
  BY <1>1, <1>4 DEF Good, Claimed, Retries, InTransaction

\* A received message is with its worker; a claim takes it for a row that it then
\* holds, or for one that says nothing of a retry.
LEMMA RetryTaken ==
  ASSUME IInv, IInv', RetryInv, NEW w \in Workers,
         Claim(w) \/ \E d \in Deliveries : Receive(w, d)
  PROVE  RetryInv'
<1>1. w \in Sessions /\ TypeOK'
  BY DEF Sessions, IInv
<1>2. /\ row' = row /\ hist' = hist
      /\ \A t \in Sessions \ {w} : pc'[t] = pc[t] /\ tx'[t] = tx[t]
  BY DEF Claim, Receive, Goto, IInv, TypeOK
<1>3. ASSUME NEW d \in Deliveries, Receive(w, d) PROVE RetryInv'
  <2>1. pc[w] = "idle" /\ Claims(w, d)'
    BY <1>1, <1>3 DEF Receive, Claims, Goto, IInv, TypeOK, NoTx
  <2>2. \A e \in Deliveries \ {d} : ready'[e] = ready[e]
    BY <1>3 DEF Receive, IInv, TypeOK
  <2>3. ASSUME NEW e \in Deliveries \ {d} PROVE RetryOf(e)'
    <3>1. ready'[e] >= ready[e] /\ RetryOf(e)
      BY <2>2 DEF IInv, TypeOK, RetryInv
    <3>2. ~Claims(w, e) /\ ~Holds(w, e) /\ ~Retries(w, e)'
      BY <2>1 DEF Claims, Holds, InTransaction, Retries
    <3>3. QED
      BY <1>1, <1>2, <3>1, <3>2, RetryFrame
  <2>4. RetryOf(d)'
    BY <2>1 DEF RetryOf, Awaited
  <2>5. QED
    BY <2>3, <2>4 DEF RetryInv
<1>4. CASE Claim(w)
  <2>0. PICK d \in Deliveries : d = tx[w].delivery
    BY <1>1, <1>4 DEF Claim, IInv, SessionInv, Good, Place
  <2>1. /\ pc[w] = "claim" /\ tx'[w].delivery = d /\ ready' = ready
        /\ row[d].status = "absent" \/ \A s \in Sessions : ~Holds(s, d)
        /\ pc'[w] = IF row[d].status \in Claimable THEN "read" ELSE "ack"
    BY <1>1, <1>4, <2>0 DEF Claim, Goto, IInv, TypeOK, Tx
  <2>2. ~Retries(w, d)' /\ \A e \in Deliveries \ {d} : ~Claims(w, e) /\ ~Retries(w, e)'
    BY <2>0, <2>1 DEF Claims, Retries
  <2>3. \A e \in Deliveries : ~Holds(w, e)
    BY <2>1 DEF Holds, InTransaction
  <2>4. ASSUME NEW e \in Deliveries \ {d} PROVE RetryOf(e)'
    <3>1. ready'[e] >= ready[e] /\ RetryOf(e)
      BY <2>1 DEF IInv, TypeOK, RetryInv
    <3>2. QED
      BY <1>1, <1>2, <2>2, <2>3, <3>1, RetryFrame
  <2>5. ASSUME NEW s \in Sessions PROVE ~Retries(s, d)'
    <3>1. CASE s = w
      BY <2>2, <3>1
    <3>2. CASE s # w
      <4>1. Retries(s, d)' <=> Retries(s, d)
        BY <1>2, <3>2 DEF Retries
      <4>2. Retries(s, d) => Holds(s, d) /\ row[d].status \in Claimable
        BY RetryByWorker DEF Retries, Holds, InTransaction
      <4>3. QED
        BY <2>1, <4>1, <4>2 DEF Claimable
    <3>3. QED
      BY <3>1, <3>2
  <2>6. row'[d].status = "retry_scheduled" => Holds(w, d)'
    BY <1>2, <2>1 DEF Claimable, Holds, InTransaction
  <2>7. RetryOf(d)'
    BY <2>5, <2>6 DEF RetryOf
  <2>8. QED
    BY <2>4, <2>7 DEF RetryInv
<1>5. QED
  BY <1>3, <1>4

\* A worker at a later position than the claim, or a request, holds its row or
\* leaves what others see of it alone.
LEMMA RetryRuns ==
  ASSUME IInv, IInv', RetryInv, NEW s \in Sessions,
         \/ s \notin Workers /\ Insert(s)
         \/ s \in Workers /\ (ReadContext(s) \/ Ack(s))
         \/ CallAdapter(s) \/ Flush(s)
  PROVE  RetryInv'
<1>1. TypeOK' /\ tx[s] \in Tx /\ Good(s)
  BY DEF IInv, TypeOK, SessionInv
<1>2. /\ row' = row /\ ready' = ready
      /\ \A t \in Sessions \ {s} : pc'[t] = pc[t] /\ tx'[t] = tx[t]
  BY DEF Insert, ReadContext, Ack, CallAdapter, Flush, Goto, IInv, TypeOK
<1>3. \A d \in Deliveries : hist[d].lost => hist'[d].lost
  <2>1. CASE CallAdapter(s)
    <3>0. PICK d \in Deliveries : d = tx[s].delivery
      BY <1>1, <2>1 DEF Good, Place, CallAdapter, InTransaction, Sessions
    <3>1. hist' = hist \/ hist' = [hist EXCEPT ![d].deals = @ + 1]
      BY <2>1, <3>0 DEF CallAdapter
    <3>2. QED
      BY <3>1 DEF IInv, TypeOK, History
  <2>2. QED
    BY <2>1 DEF Insert, ReadContext, Ack, Flush
<1>4. pc[s] # "claim" /\ (pc'[s] = "commit" => ReadContext(s) \/ Flush(s))
  BY DEF Insert, ReadContext, Ack, CallAdapter, Flush, Goto, IInv, TypeOK
<1>5. ASSUME NEW d \in Deliveries PROVE ~Retries(s, d)'
  <2>1. CASE s \in Workers /\ ReadContext(s)
    <3>1. pc'[s] = "commit" => tx' = tx
      BY <2>1 DEF ReadContext, Goto, IInv, TypeOK
    <3>2. tx[s].image.status = "processing"
      BY <1>1, <2>1 DEF Good, Before, ReadContext
    <3>3. QED
      BY <3>1, <3>2 DEF Retries
  <2>2. CASE Flush(s)
    <3> DEFINE image == Outcome(tx[s].image, tx[s].result = "ok", s \notin Workers)
    <3>1. pc'[s] = IF WantsRetry(image) THEN "enqueue" ELSE "commit"
      BY <2>2 DEF Flush, Goto, IInv, TypeOK
    <3>2. tx'[s].image = image
      BY <1>1, <2>2 DEF Flush, IInv, TypeOK, Tx
    <3>3. tx[s].image \in Row
      BY <1>1 DEF Tx
    <3>4. image.status = "retry_scheduled" => WantsRetry(image)
      BY <3>3, RetryOutcome
    <3> HIDE DEF image
    <3>5. QED
      BY <3>1, <3>2, <3>4 DEF Retries
  <2>3. QED
    BY <1>4, <2>1, <2>2 DEF Retries, ReadContext, Insert, CallAdapter, Ack, Goto, IInv, TypeOK
<1>6. ASSUME NEW d \in Deliveries, s \in Workers, Holds(s, d) PROVE Holds(s, d)'
  <2>1. tx'[s].delivery = tx[s].delivery
    <3>1. ~Insert(s) /\ ~Ack(s)
      BY <1>6 DEF Insert, Ack, Holds, InTransaction
    <3>2. CASE ReadContext(s)
      BY <1>1, <3>2 DEF ReadContext, IInv, TypeOK, Tx
    <3>3. CASE CallAdapter(s)
      BY <1>1, <3>3 DEF CallAdapter, IInv, TypeOK, Tx
    <3>4. CASE Flush(s)
      BY <1>1, <3>4 DEF Flush, IInv, TypeOK, Tx
    <3>5. QED
      BY <3>1, <3>2, <3>3, <3>4
  <2>2. pc'[s] \in InTransaction
    BY <1>6 DEF ReadContext, Ack, CallAdapter, Flush, Goto, Holds, InTransaction, IInv, TypeOK
  <2>3. QED
    BY <1>6, <2>1, <2>2 DEF Holds
<1>7. ASSUME NEW d \in Deliveries PROVE RetryOf(d)'
  <2>1. ready'[d] >= ready[d] /\ RetryOf(d)
    BY <1>2 DEF IInv, TypeOK, RetryInv
  <2>2. QED
    BY <1>1, <1>2, <1>3, <1>4, <1>5, <1>6, <2>1, RetryFrame DEF Claims
<1>8. QED
  BY <1>7 DEF RetryInv

\* The retry is enqueued, and then committed with its task still awaited.
LEMMA RetryPublished ==
  ASSUME IInv, IInv', RetryInv, NEW s \in Sessions, Enqueue(s) \/ Commit(s)
  PROVE  RetryInv'
<1>0. TypeOK' /\ tx[s] \in Tx
  BY DEF IInv, TypeOK
<1>1. PICK d \in Deliveries : d = tx[s].delivery
  BY DEF IInv, SessionInv, Good, Place, Enqueue, Commit, InTransaction, Sessions
<1>2. /\ hist' = hist /\ tx'[s].delivery = d
      /\ \A t \in Sessions \ {s} : pc'[t] = pc[t] /\ tx'[t] = tx[t]
      /\ \A e \in Deliveries \ {d} : row'[e] = row[e] /\ ready'[e] = ready[e]
  BY <1>1 DEF Enqueue, Commit, Goto, IInv, TypeOK, NoTx
<1>3. ASSUME NEW e \in Deliveries \ {d} PROVE RetryOf(e)'
  <2>1. ready'[e] >= ready[e] /\ RetryOf(e)
    BY <1>2 DEF IInv, TypeOK, RetryInv
  <2>2. ~Claims(s, e) /\ ~Holds(s, e) /\ ~Retries(s, e)'
    BY <1>1, <1>2 DEF Claims, Holds, Retries
  <2>3. QED
    BY <1>0, <1>2, <2>1, <2>2, RetryFrame
<1>4. CASE Enqueue(s)
  <2>1. ready[d] \in Nat /\ ready'[d] = ready[d] + 1
    BY <1>1, <1>4 DEF Enqueue, IInv, TypeOK
  <2>2. RetryOf(d)'
    BY <2>1 DEF RetryOf, Awaited
  <2>3. QED
    BY <1>3, <2>2 DEF RetryInv
<1>5. CASE Commit(s)
  <2>1. /\ pc[s] = "commit" /\ pc'[s] \in {"ack", "done"}
        /\ ready' = ready /\ row'[d] = tx[s].image
    BY <1>1, <1>5 DEF Commit, Goto, IInv, TypeOK
  <2>2. \A t \in Sessions : Claims(t, d)' <=> Claims(t, d)
    BY <1>2, <2>1 DEF Claims
  <2>3. Awaited(d)' <=> Awaited(d)
    BY <2>1, <2>2 DEF Awaited, Sessions
  <2>4. \A t \in Sessions : Retries(t, d)' => Retries(t, d)
    BY <1>2, <2>1 DEF Retries
  <2>5. row'[d].status = "retry_scheduled" => Retries(s, d)
    BY <1>1, <2>1 DEF Retries
  <2>6. RetryOf(d)
    BY DEF RetryInv
  <2>7. QED
    BY <1>2, <1>3, <2>3, <2>4, <2>5, <2>6 DEF RetryInv, RetryOf
<1>6. QED
  BY <1>4, <1>5

\* A failing session puts its message back, or had enqueued the next, or has lost
\* it with its transaction.
LEMMA RetryFails ==
  ASSUME IInv, IInv', RetryInv, NEW s \in Sessions, NEW requeued \in BOOLEAN,
         RollBack(s, requeued), tx' = [tx EXCEPT ![s] = NoTx], row' = row,
         pc[s] \in InTransaction \cup {"claim", "ack"},
         tx[s].delivery \in Deliveries, pc'[s] \in {"idle", "done"},
         \A t \in Sessions \ {s} : pc'[t] = pc[t],
         ready' = IF requeued THEN [ready EXCEPT ![tx[s].delivery] = @ + 1] ELSE ready
  PROVE  RetryInv'
<1>1. PICK d \in Deliveries : d = tx[s].delivery
  OBVIOUS
<1>2. /\ TypeOK' /\ \A t \in Sessions \ {s} : tx'[t] = tx[t]
      /\ \A e \in Deliveries \ {d} : hist'[e] = hist[e] /\ ready'[e] = ready[e]
      /\ \A e \in Deliveries : ready'[e] >= ready[e]
  BY <1>1 DEF RollBack, IInv, TypeOK
<1>3. \A e \in Deliveries : ~Retries(s, e)' /\ ~Claims(s, e)' /\ ~Holds(s, e)'
  BY DEF Retries, Claims, Holds, InTransaction
<1>4. ASSUME NEW e \in Deliveries \ {d} PROVE RetryOf(e)'
  <2>1. ~Claims(s, e) /\ ~Holds(s, e) /\ RetryOf(e)
    BY <1>1 DEF Claims, Holds, RetryInv
  <2>2. QED
    BY <1>2, <1>3, <2>1, RetryFrame
<1>5. RetryOf(d)'
  <2>1. CASE requeued
    <3>1. ready[d] \in Nat /\ ready'[d] = ready[d] + 1
      BY <1>1, <2>1 DEF IInv, TypeOK
    <3>2. QED
      BY <3>1 DEF RetryOf, Awaited
  <2>2. CASE ~requeued /\ ~HasEnqueued(s)
    <3>1. hist'[d].lost
      BY <1>1, <2>2 DEF RollBack, IInv, TypeOK, History
    <3>2. QED
      BY <3>1 DEF RetryOf
  <2>3. CASE ~requeued /\ HasEnqueued(s)
    <3>1. /\ pc[s] = "commit" /\ Holds(s, d) /\ ready' = ready
          /\ tx[s].image.status \in {"queued", "retry_scheduled"}
      BY <1>1, <2>3 DEF HasEnqueued, Holds, InTransaction
    <3>2. hist[d].lost => hist'[d].lost
      BY <1>1, <2>3 DEF RollBack, IInv, TypeOK, History
    <3>3. \A t \in Sessions : Claims(t, d)' <=> Claims(t, d)
      BY <1>2, <1>3, <3>1 DEF Claims
    <3>4. Awaited(d)' <=> Awaited(d)
      BY <3>1, <3>3 DEF Awaited, Sessions
    <3>5. \A t \in Sessions : Retries(t, d)' => Retries(t, d)
      BY <1>2, <1>3 DEF Retries
    <3>6. CASE s \in Workers
      <4>1. Good(s) /\ After(s) /\ tx[s].image.attempt_count \in Nat
        BY DEF IInv, SessionInv, Good, TypeOK, Tx, Row
      <4>2. tx[s].image.status # "queued"
        BY <3>1, <3>6, <4>1 DEF After, outcome_status
      <4>3. Retries(s, d)
        BY <1>1, <3>1, <4>2 DEF Retries
      <4>4. QED
        BY <3>2, <3>4, <3>5, <4>3 DEF RetryInv, RetryOf
    <3>7. CASE s \notin Workers
      <4>1. \A w \in Workers : Holds(w, d)' <=> Holds(w, d)
        BY <1>2, <3>7 DEF Holds, Sessions
      <4>2. QED
        BY <3>2, <3>4, <3>5, <4>1 DEF RetryInv, RetryOf
    <3>8. QED
      BY <3>6, <3>7
  <2>4. QED
    BY <2>1, <2>2, <2>3
<1>6. QED
  BY <1>4, <1>5 DEF RetryInv

\* Every step keeps the tasks of scheduled retries.
LEMMA RetryStep == IInv /\ RetryInv /\ [Next]_vars => RetryInv'
<1> SUFFICES ASSUME IInv, RetryInv, [Next]_vars PROVE RetryInv'
  OBVIOUS
<1>0. IInv'
  BY StepInv
<1>1. ASSUME NEW d \in Deliveries, Insert(d) \/ RequestFails(d) PROVE RetryInv'
  <2>1. d \in Sessions /\ d \notin Workers
    BY SetAssumption DEF Sessions
  <2>2. CASE RequestFails(d)
    <3>1. tx[d].delivery = d /\ pc'[d] = "done"
      BY <2>1, <2>2 DEF RequestFails, Goto, IInv, TypeOK, SessionInv, Good, Place
    <3>2. \A t \in Sessions \ {d} : pc'[t] = pc[t]
      BY <2>2 DEF RequestFails, Goto, IInv, TypeOK
    <3>3. /\ RollBack(d, FALSE) /\ tx' = [tx EXCEPT ![d] = NoTx] /\ row' = row
          /\ ready' = ready /\ pc[d] \in InTransaction
      BY <2>2 DEF RequestFails
    <3>4. QED
      BY <1>0, <2>1, <3>1, <3>2, <3>3, RetryFails
  <2>3. QED
    BY <1>0, <1>1, <2>1, <2>2, RetryRuns
<1>2. ASSUME NEW w \in Workers, NEW d \in Deliveries, Receive(w, d) PROVE RetryInv'
  BY <1>0, <1>2, RetryTaken
<1>3. ASSUME NEW w \in Workers, WorkerStep(w) PROVE RetryInv'
  BY <1>0, <1>3, RetryTaken, RetryRuns DEF WorkerStep, Sessions
<1>4. ASSUME NEW w \in Workers, WorkerFails(w) PROVE RetryInv'
  <2>1. w \in Sessions
    BY DEF Sessions
  <2>2. tx[w].delivery \in Deliveries
    BY <1>4, <2>1 DEF WorkerFails, IInv, SessionInv, Good, Place, InTransaction
  <2>3. PICK requeued \in BOOLEAN :
          /\ ready' = IF requeued THEN [ready EXCEPT ![tx[w].delivery] = @ + 1] ELSE ready
          /\ RollBack(w, requeued)
    BY <1>4 DEF WorkerFails
  <2>4. pc'[w] = "idle" /\ \A t \in Sessions \ {w} : pc'[t] = pc[t]
    BY <1>4, <2>1 DEF WorkerFails, Goto, IInv, TypeOK
  <2>5. QED
    BY <1>0, <1>4, <2>1, <2>2, <2>3, <2>4, RetryFails DEF WorkerFails
<1>5. ASSUME NEW s \in Sessions, SessionStep(s) PROVE RetryInv'
  BY <1>0, <1>5, RetryRuns, RetryPublished DEF SessionStep
<1>6. CASE UNCHANGED vars
  BY <1>6 DEF vars, RetryInv, RetryOf, Retries, Awaited, Claims, Holds
<1>7. QED
  BY <1>1, <1>2, <1>3, <1>4, <1>5, <1>6 DEF Next, Terminating

\* A row that says a retry is scheduled has a task that will run it, unless a
\* failing task took its message along: enqueueing before the commit loses none.
THEOREM NoRetryForgotten == Spec => []RetryHasTask
<1>1. Init => RetryInv
  BY DEF Init, RetryInv, RetryOf, Retries, Absent
<1>2. RetryInv => RetryHasTask
  BY DEF RetryInv, RetryHasTask, RetryOf, Awaited, Claims, Holds, InTransaction
<1>3. QED
  BY <1>1, <1>2, InitInv, StepInv, RetryStep, PTL DEF Spec
-----------------------------------------------------------------------------
(***************************************************************************)
(* The tasks of a delivery: the messages in the broker and the sessions    *)
(* that still have an attempt to make or to record.  A session that        *)
(* enqueues the next task stops being one, so there is one task at most,   *)
(* and as many as there are attempts left, but for the copies a crash made.*)
(***************************************************************************)

Bearer(s, d) ==
  /\ IF s \in Workers THEN tx[s].delivery = d ELSE s = d
  /\ \/ pc[s] \in {"start", "claim", "read", "call", "flush", "enqueue"}
     \/ pc[s] = "commit" /\ ~HasEnqueued(s)
Bearers(d) == {s \in Sessions : Bearer(s, d)}
Weight(s, d) == IF Bearer(s, d) THEN 1 ELSE 0
Tasks(d) == ready[d] + Cardinality(Bearers(d))
TaskOf(d) ==
  /\ Tasks(d) <= 1 + hist[d].copies
  /\ row[d].attempt_count + Tasks(d) <= MAX_ATTEMPTS + hist[d].copies
\* What asks for a task is a row that waits for one.
Asks(s) == pc[s] = "enqueue" => tx[s].image.status \in {"queued", "retry_scheduled"}
TaskInv == (\A d \in Deliveries : TaskOf(d)) /\ \A s \in Sessions : Asks(s)

\* The tasks of d change by what its broker queue and the one session that moves
\* contribute.
LEMMA TaskShift ==
  ASSUME IInv, IInv', NEW s \in Sessions, NEW d \in Deliveries,
         \A t \in Sessions \ {s} : pc'[t] = pc[t] /\ tx'[t] = tx[t]
  PROVE  /\ Tasks(d) \in Nat /\ Tasks(d)' \in Nat
         /\ Tasks(d)' + ready[d] + Weight(s, d) = Tasks(d) + ready'[d] + Weight(s, d)'
<1> DEFINE others == {t \in Sessions \ {s} : Bearer(t, d)}
<1>1. IsFiniteSet(Sessions)
  BY SetAssumption, FS_Union DEF Sessions
<1>2. IsFiniteSet(others)
  BY <1>1, FS_Subset
<1>3. \A t \in Sessions \ {s} : Bearer(t, d)' <=> Bearer(t, d)
  BY DEF Bearer, HasEnqueued
<1>4. /\ Bearers(d) = IF Bearer(s, d) THEN others \cup {s} ELSE others
      /\ Bearers(d)' = IF Bearer(s, d)' THEN others \cup {s} ELSE others
  BY <1>3 DEF Bearers
<1>5. Cardinality(others) \in Nat /\ Cardinality(others \cup {s}) = Cardinality(others) + 1
  BY <1>2, FS_CardinalityType, FS_AddElement
<1> HIDE DEF others
<1>6. /\ Cardinality(Bearers(d)) = Cardinality(others) + Weight(s, d)
      /\ Cardinality(Bearers(d)') = Cardinality(others) + Weight(s, d)'
  BY <1>4, <1>5 DEF Weight
<1>7. ready[d] \in Nat /\ ready'[d] \in Nat /\ Weight(s, d) \in Nat /\ Weight(s, d)' \in Nat
  BY DEF IInv, TypeOK, Weight
<1>8. /\ Tasks(d) = ready[d] + (Cardinality(others) + Weight(s, d))
      /\ Tasks(d)' = ready'[d] + (Cardinality(others) + Weight(s, d)')
  BY <1>6 DEF Tasks
<1>9. QED
  BY <1>5, <1>7, <1>8

\* A step that records no attempt of d and makes no task of d but a copy.
LEMMA TaskFrame ==
  ASSUME IInv, IInv', NEW d \in Deliveries, TaskOf(d), NEW s \in Sessions,
         \A t \in Sessions \ {s} : pc'[t] = pc[t] /\ tx'[t] = tx[t],
         row'[d] = row[d],
         ready'[d] + Weight(s, d)' + hist[d].copies
           <= ready[d] + Weight(s, d) + hist'[d].copies
  PROVE  TaskOf(d)'
<1>1. /\ ready[d] \in Nat /\ ready'[d] \in Nat /\ row[d].attempt_count \in Nat
      /\ hist[d].copies \in Nat /\ hist'[d].copies \in Nat
      /\ Weight(s, d) \in Nat /\ Weight(s, d)' \in Nat
  BY DEF IInv, TypeOK, History, Row, Weight
<1>2. /\ Tasks(d) \in Nat /\ Tasks(d)' \in Nat
      /\ Tasks(d)' + ready[d] + Weight(s, d) = Tasks(d) + ready'[d] + Weight(s, d)'
  BY TaskShift
<1>3. Tasks(d)' + hist[d].copies <= Tasks(d) + hist'[d].copies
  BY <1>1, <1>2
<1>4. QED
  BY <1>1, <1>2, <1>3 DEF TaskOf, MAX_ATTEMPTS

\* A step of s that leaves the broker and the committed rows alone and gives s no
\* task it did not have.
LEMMA TaskQuiet ==
  ASSUME IInv, IInv', TaskInv, NEW s \in Sessions, Asks(s)',
         \A t \in Sessions \ {s} : pc'[t] = pc[t] /\ tx'[t] = tx[t],
         row' = row, ready' = ready, \A d \in Deliveries : hist'[d].copies = hist[d].copies,
         \A d \in Deliveries : Bearer(s, d)' => Bearer(s, d)
  PROVE  TaskInv'
<1>1. ASSUME NEW d \in Deliveries PROVE TaskOf(d)'
  <2>1. Weight(s, d)' <= Weight(s, d) /\ Weight(s, d) \in Nat /\ Weight(s, d)' \in Nat
    BY DEF Weight
  <2>2. ready[d] \in Nat /\ hist[d].copies \in Nat /\ TaskOf(d)
    BY DEF IInv, TypeOK, History, TaskInv
  <2>3. ready'[d] + Weight(s, d)' + hist[d].copies
          <= ready[d] + Weight(s, d) + hist'[d].copies
    BY <2>1, <2>2
  <2>4. QED
    BY <2>2, <2>3, TaskFrame
<1>2. \A t \in Sessions : Asks(t)'
  BY DEF TaskInv, Asks
<1>3. QED
  BY <1>1, <1>2 DEF TaskInv

\* What the flush of an outcome sends to the broker is a row whose retry is
\* scheduled.
LEMMA FlushAsks ==
  ASSUME IInv, NEW s \in Sessions, Flush(s), pc'[s] = "enqueue"
  PROVE  tx'[s].image.status = "retry_scheduled"
<1> DEFINE image == Outcome(tx[s].image, tx[s].result = "ok", s \notin Workers)
<1>1. tx[s] \in Tx
  BY DEF IInv, TypeOK
<1>2. pc'[s] = IF WantsRetry(image) THEN "enqueue" ELSE "commit"
  BY DEF Flush, Goto, IInv, TypeOK
<1>3. tx'[s].image = image
  BY <1>1 DEF Flush, IInv, TypeOK, Tx
<1> HIDE DEF image
<1>4. QED
  BY <1>2, <1>3 DEF WantsRetry

\* Up to its commit a session bears the task it was given; a claim that finds
\* nothing to do drops it.
LEMMA TaskRuns ==
  ASSUME IInv, IInv', TaskInv, NEW s \in Sessions,
         \/ s \notin Workers /\ Insert(s)
         \/ s \in Workers /\ (Claim(s) \/ ReadContext(s) \/ Ack(s))
         \/ CallAdapter(s) \/ Flush(s)
  PROVE  TaskInv'
<1>1. tx[s] \in Tx
  BY DEF IInv, TypeOK
<1>2. /\ row' = row /\ ready' = ready
      /\ \A t \in Sessions \ {s} : pc'[t] = pc[t] /\ tx'[t] = tx[t]
  BY DEF Insert, Claim, ReadContext, Ack, CallAdapter, Flush, Goto, IInv, TypeOK
<1>3. \A d \in Deliveries : hist'[d].copies = hist[d].copies
  <2>1. CASE CallAdapter(s)
    <3>0. PICK d \in Deliveries : d = tx[s].delivery
      BY <2>1 DEF IInv, SessionInv, Good, Place, CallAdapter, InTransaction, Sessions
    <3>1. hist' = hist \/ hist' = [hist EXCEPT ![d].deals = @ + 1]
      BY <2>1, <3>0 DEF CallAdapter
    <3>2. hist[d] \in History /\ \A e \in Deliveries \ {d} : hist'[e] = hist[e]
      BY <3>1 DEF IInv, TypeOK
    <3>3. hist'[d].copies = hist[d].copies
      BY <3>1, <3>2 DEF IInv, TypeOK, History
    <3>4. QED
      BY <3>2, <3>3
  <2>2. QED
    BY <2>1 DEF Insert, Claim, ReadContext, Ack, Flush
<1>4. /\ pc[s] \in {"start", "claim", "read", "call", "flush"} \/ pc'[s] = "idle"
      /\ pc'[s] = "enqueue" => Insert(s) \/ Flush(s)
  BY DEF Insert, Claim, ReadContext, Ack, CallAdapter, Flush, Goto, IInv, TypeOK
<1>5. s \in Workers => pc'[s] = "idle" \/ tx'[s].delivery = tx[s].delivery
  <2>1. CASE Claim(s)
    BY <1>1, <2>1 DEF Claim, IInv, TypeOK, Tx
  <2>2. CASE ReadContext(s)
    BY <1>1, <2>2 DEF ReadContext, IInv, TypeOK, Tx
  <2>3. CASE CallAdapter(s)
    BY <1>1, <2>3 DEF CallAdapter, IInv, TypeOK, Tx
  <2>4. CASE Flush(s)
    BY <1>1, <2>4 DEF Flush, IInv, TypeOK, Tx
  <2>5. QED
    BY <2>1, <2>2, <2>3, <2>4 DEF Ack, Goto, IInv, TypeOK
<1>6. Asks(s)'
  <2>1. CASE Insert(s)
    <3>1. PICK i \in Integrations, f \in BOOLEAN :
            tx' = [tx EXCEPT ![s] =
                     [delivery |-> s, seen |-> success[i], result |-> "none",
                      image |-> [Absent EXCEPT !.status = "queued", !.force_fail = f,
                                               !.integration = i]]]
      BY <2>1 DEF Insert
    <3>2. tx'[s].image.status = "queued"
      BY <3>1 DEF IInv, TypeOK, Absent
    <3>3. QED
      BY <3>2 DEF Asks
  <2>2. QED
    BY <1>4, <2>1, FlushAsks DEF Asks
<1>7. \A d \in Deliveries : Bearer(s, d)' => Bearer(s, d)
  BY <1>4, <1>5 DEF Bearer
<1>8. QED
  BY <1>2, <1>3, <1>6, <1>7, TaskQuiet

\* The broker hands a task over; the session that enqueues the next one stops
\* being one.
LEMMA TaskMoves ==
  ASSUME IInv, IInv', TaskInv, NEW s \in Sessions,
         \/ Enqueue(s)
         \/ s \in Workers /\ \E d \in Deliveries : Receive(s, d)
  PROVE  TaskInv'
<1>1. /\ row' = row /\ hist' = hist
      /\ \A t \in Sessions \ {s} : pc'[t] = pc[t] /\ tx'[t] = tx[t]
  BY DEF Enqueue, Receive, Goto, IInv, TypeOK
<1>2. pc'[s] # "enqueue"
  BY DEF Enqueue, Receive, Goto, IInv, TypeOK
<1>3. \A t \in Sessions : Asks(t)'
  BY <1>1, <1>2 DEF TaskInv, Asks
<1>4. ASSUME NEW d \in Deliveries,
             ready'[d] + Weight(s, d)' = ready[d] + Weight(s, d)
      PROVE  TaskOf(d)'
  <2>1. /\ ready[d] \in Nat /\ ready'[d] \in Nat /\ hist[d].copies \in Nat
        /\ Weight(s, d) \in Nat /\ Weight(s, d)' \in Nat /\ TaskOf(d)
    BY DEF IInv, TypeOK, History, TaskInv, Weight
  <2>2. ready'[d] + Weight(s, d)' + hist[d].copies
          <= ready[d] + Weight(s, d) + hist'[d].copies
    BY <1>1, <1>4, <2>1
  <2>3. QED
    BY <1>1, <2>1, <2>2, TaskFrame
<1>5. CASE Enqueue(s)
  <2>0. PICK d \in Deliveries : d = tx[s].delivery /\ (s \in Workers \/ s = d)
    BY <1>5 DEF IInv, SessionInv, Good, Place, Enqueue, InTransaction, Sessions
  <2>1. /\ pc[s] = "enqueue" /\ pc'[s] = "commit" /\ tx' = tx
        /\ ready[d] \in Nat /\ ready'[d] = ready[d] + 1
        /\ \A e \in Deliveries \ {d} : ready'[e] = ready[e]
    BY <1>5, <2>0 DEF Enqueue, Goto, IInv, TypeOK
  <2>2. HasEnqueued(s)'
    BY <2>1 DEF HasEnqueued, TaskInv, Asks
  <2>3. Bearer(s, d) /\ ~Bearer(s, d)'
    BY <2>0, <2>1, <2>2 DEF Bearer
  <2>4. \A e \in Deliveries \ {d} : ~Bearer(s, e) /\ ~Bearer(s, e)'
    BY <2>0, <2>1 DEF Bearer
  <2>5. \A e \in Deliveries : ready'[e] + Weight(s, e)' = ready[e] + Weight(s, e)
    BY <2>1, <2>3, <2>4 DEF Weight
  <2>6. QED
    BY <1>3, <1>4, <2>5 DEF TaskInv
<1>6. ASSUME s \in Workers, NEW d \in Deliveries, Receive(s, d) PROVE TaskInv'
  <2>1. /\ pc[s] = "idle" /\ pc'[s] = "claim" /\ tx'[s].delivery = d
        /\ ready[d] \in Nat /\ ready[d] > 0 /\ ready'[d] = ready[d] - 1
        /\ \A e \in Deliveries \ {d} : ready'[e] = ready[e]
    BY <1>6 DEF Receive, Goto, IInv, TypeOK, NoTx
  <2>2. \A e \in Deliveries : ~Bearer(s, e) /\ (Bearer(s, e)' <=> e = d)
    BY <1>6, <2>1 DEF Bearer
  <2>3. \A e \in Deliveries : ready'[e] + Weight(s, e)' = ready[e] + Weight(s, e)
    BY <2>1, <2>2 DEF Weight, IInv, TypeOK
  <2>4. QED
    BY <1>3, <1>4, <2>3 DEF TaskInv
<1>7. QED
  BY <1>5, <1>6

\* A commit records the attempt of the task that ends with it, or one before the
\* last while the next task is already there.
LEMMA TaskCommit ==
  ASSUME IInv, IInv', TaskInv, NEW s \in Sessions, Commit(s)
  PROVE  TaskInv'
<1>0. PICK d \in Deliveries : d = tx[s].delivery
  BY CommitFacts
<1>1. /\ tx[s].image \in Row /\ Good(s) /\ pc[s] = "commit"
      /\ row' = [row EXCEPT ![d] = tx[s].image]
      /\ pc'[s] = IF s \in Workers THEN "ack" ELSE "done"
      /\ \A u \in Sessions \ {s} : pc'[u] = pc[u] /\ tx'[u] = tx[u]
  BY <1>0, CommitFacts
<1>2. /\ ready' = ready /\ hist' = hist
      /\ row'[d] = tx[s].image /\ \A e \in Deliveries \ {d} : row'[e] = row[e]
  BY <1>1 DEF Commit, IInv, TypeOK
<1>3. /\ s \in Workers \/ s = d
      /\ \A e \in Deliveries : ~Bearer(s, e)'
      /\ \A e \in Deliveries \ {d} : ~Bearer(s, e)
  BY <1>0, <1>1 DEF Bearer, Good, Place, InTransaction
<1>4. ASSUME NEW e \in Deliveries \ {d} PROVE TaskOf(e)'
  <2>1. /\ ready'[e] = ready[e] /\ ready[e] \in Nat /\ hist'[e].copies = hist[e].copies
        /\ hist[e].copies \in Nat /\ Weight(s, e) = 0 /\ Weight(s, e)' = 0 /\ TaskOf(e)
    BY <1>2, <1>3 DEF IInv, TypeOK, History, TaskInv, Weight
  <2>2. ready'[e] + Weight(s, e)' + hist[e].copies
          <= ready[e] + Weight(s, e) + hist'[e].copies
    BY <2>1
  <2>3. QED
    BY <1>1, <1>2, <2>1, <2>2, TaskFrame
<1>5. TaskOf(d)'
  <2> DEFINE n == row[d].attempt_count
             m == tx[s].image.attempt_count
  <2>1. /\ ready[d] \in Nat /\ n \in Nat /\ m \in Nat /\ hist[d].copies \in Nat
        /\ Weight(s, d) \in Nat /\ Weight(s, d)' = 0
        /\ row'[d].attempt_count = m
    BY <1>1, <1>2, <1>3 DEF IInv, TypeOK, History, Row, Weight
  <2>2. /\ Tasks(d) \in Nat /\ Tasks(d)' \in Nat
        /\ Tasks(d)' + ready[d] + Weight(s, d) = Tasks(d) + ready'[d] + Weight(s, d)'
    BY <1>1, TaskShift
  <2>3. Tasks(d)' + Weight(s, d) = Tasks(d)
    BY <1>2, <2>1, <2>2
  <2>4. Tasks(d) <= 1 + hist[d].copies /\ n + Tasks(d) <= 3 + hist[d].copies
    BY DEF TaskInv, TaskOf, MAX_ATTEMPTS
  <2>5. m + Tasks(d)' <= 3 + hist[d].copies
    <3>1. CASE tx[s].result = "none"
      <4>1. m = n
        BY <1>0, <1>1, <3>1 DEF Good, After
      <4> HIDE DEF n, m
      <4>2. QED
        BY <2>1, <2>2, <2>3, <2>4, <4>1
    <3>2. CASE tx[s].result # "none"
      <4>1. After(s)
        BY <1>1 DEF Good
      <4>2. /\ m = n + 1
            /\ tx[s].image.status = outcome_status(m, tx[s].result = "ok", s \notin Workers)
        BY <1>0, <1>1, <3>2, <4>1 DEF After
      <4>3. CASE tx[s].image.status = "retry_scheduled"
        <5>1. m < 3
          BY <2>1, <4>2, <4>3 DEF outcome_status, MAX_ATTEMPTS
        <5> HIDE DEF n, m
        <5>2. QED
          BY <2>1, <2>2, <2>3, <2>4, <5>1
      <4>4. CASE tx[s].image.status # "retry_scheduled"
        <5>1. tx[s].image.status # "queued"
          BY <4>2 DEF outcome_status
        <5>2. Bearer(s, d)
          BY <1>0, <1>1, <1>3, <4>4, <5>1 DEF Bearer, HasEnqueued
        <5>3. Weight(s, d) = 1
          BY <5>2 DEF Weight
        <5> HIDE DEF n, m
        <5>4. QED
          BY <2>1, <2>2, <2>3, <2>4, <4>2, <5>3
      <4>5. QED
        BY <4>3, <4>4
    <3>3. QED
      BY <3>1, <3>2
  <2> HIDE DEF n, m
  <2>6. Tasks(d)' <= 1 + hist[d].copies
    BY <2>1, <2>2, <2>3, <2>4
  <2>7. QED
    BY <1>2, <2>1, <2>5, <2>6 DEF TaskOf, MAX_ATTEMPTS
<1>6. \A t \in Sessions : Asks(t)'
  BY <1>1 DEF TaskInv, Asks
<1>7. QED
  BY <1>4, <1>5, <1>6 DEF TaskInv

\* A failing session puts its message back in place of itself, or as a copy when
\* it no longer counted; otherwise a task is gone.
LEMMA TaskFails ==
  ASSUME IInv, IInv', TaskInv, NEW s \in Sessions, NEW requeued \in BOOLEAN,
         RollBack(s, requeued), tx' = [tx EXCEPT ![s] = NoTx], row' = row,
         pc[s] \in InTransaction \cup {"claim", "ack"},
         tx[s].delivery \in Deliveries, pc'[s] \in {"idle", "done"},
         s \notin Workers => tx[s].delivery = s,
         \A t \in Sessions \ {s} : pc'[t] = pc[t],
         ready' = IF requeued THEN [ready EXCEPT ![tx[s].delivery] = @ + 1] ELSE ready
  PROVE  TaskInv'
<1>1. PICK d \in Deliveries : d = tx[s].delivery
  OBVIOUS
<1>2. /\ \A t \in Sessions \ {s} : pc'[t] = pc[t] /\ tx'[t] = tx[t]
      /\ \A e \in Deliveries \ {d} : hist'[e] = hist[e] /\ ready'[e] = ready[e]
  BY <1>1 DEF RollBack, IInv, TypeOK
<1>3. /\ \A e \in Deliveries : ~Bearer(s, e)'
      /\ \A e \in Deliveries \ {d} : ~Bearer(s, e)
  BY <1>1 DEF Bearer
<1>4. ASSUME NEW e \in Deliveries PROVE TaskOf(e)'
  <2>1. /\ ready[e] \in Nat /\ ready'[e] \in Nat /\ hist[e].copies \in Nat
        /\ hist'[e].copies \in Nat /\ Weight(s, e) \in Nat /\ Weight(s, e)' = 0 /\ TaskOf(e)
    BY <1>3 DEF IInv, TypeOK, History, TaskInv, Weight
  <2>2. ready'[e] + Weight(s, e)' + hist[e].copies
          <= ready[e] + Weight(s, e) + hist'[e].copies
    <3>1. CASE e # d
      BY <1>2, <2>1, <3>1
    <3>2. CASE e = d /\ ~requeued
      <4>1. hist'[d].copies = hist[d].copies + 0 /\ ready' = ready
        BY <1>1, <3>2 DEF RollBack, IInv, TypeOK, History
      <4>2. QED
        BY <2>1, <3>2, <4>1
    <3>3. CASE e = d /\ requeued
      <4>1. ready'[d] = ready[d] + 1
        BY <1>1, <3>3 DEF IInv, TypeOK
      <4>2. CASE HasEnqueued(s) \/ pc[s] = "ack"
        <5>1. hist'[d].copies = hist[d].copies + 1
          BY <1>1, <3>3, <4>2 DEF RollBack, IInv, TypeOK, History
        <5>2. QED
          BY <2>1, <3>3, <4>1, <5>1
      <4>3. CASE ~(HasEnqueued(s) \/ pc[s] = "ack")
        <5>1. hist'[d].copies = hist[d].copies + 0
          BY <1>1, <3>3, <4>3 DEF RollBack, IInv, TypeOK, History
        <5>2. Bearer(s, d)
          BY <1>1, <4>3 DEF Bearer, InTransaction
        <5>3. Weight(s, d) = 1
          BY <5>2 DEF Weight
        <5>4. QED
          BY <2>1, <3>3, <4>1, <5>1, <5>3
      <4>4. QED
        BY <4>2, <4>3
    <3>4. QED
      BY <3>1, <3>2, <3>3
  <2>3. QED
    BY <1>2, <2>1, <2>2, TaskFrame
<1>5. \A t \in Sessions : Asks(t)'
  BY <1>2 DEF TaskInv, Asks
<1>6. QED
  BY <1>4, <1>5 DEF TaskInv

\* At first each delivery has one task, its request.
LEMMA TaskInit == Init => TaskInv
<1> SUFFICES ASSUME Init PROVE TaskInv
  OBVIOUS
<1>1. ASSUME NEW d \in Deliveries PROVE TaskOf(d)
  <2>1. Bearers(d) = {d}
    BY SetAssumption DEF Init, Bearers, Bearer, HasEnqueued, NoTx, Sessions
  <2>2. Tasks(d) = 1
    <3>1. Cardinality({d}) = 1 /\ ready[d] = 0
      BY FS_Singleton DEF Init
    <3>2. QED
      BY <2>1, <3>1 DEF Tasks
  <2>3. QED
    BY <2>2 DEF TaskOf, Init, Absent, MAX_ATTEMPTS
<1>2. \A s \in Sessions : Asks(s)
  BY DEF Init, Asks
<1>3. QED
  BY <1>1, <1>2 DEF TaskInv

\* Every step keeps the account of the tasks.
LEMMA TaskStep == IInv /\ TaskInv /\ [Next]_vars => TaskInv'
<1> SUFFICES ASSUME IInv, TaskInv, [Next]_vars PROVE TaskInv'
  OBVIOUS
<1>0. IInv'
  BY StepInv
<1>1. ASSUME NEW d \in Deliveries, Insert(d) \/ RequestFails(d) PROVE TaskInv'
  <2>1. d \in Sessions /\ d \notin Workers
    BY SetAssumption DEF Sessions
  <2>2. CASE RequestFails(d)
    <3>1. tx[d].delivery = d /\ pc'[d] = "done"
      BY <2>1, <2>2 DEF RequestFails, Goto, IInv, TypeOK, SessionInv, Good, Place
    <3>2. \A t \in Sessions \ {d} : pc'[t] = pc[t]
      BY <2>2 DEF RequestFails, Goto, IInv, TypeOK
    <3>3. /\ RollBack(d, FALSE) /\ tx' = [tx EXCEPT ![d] = NoTx] /\ row' = row
          /\ ready' = ready /\ pc[d] \in InTransaction
      BY <2>2 DEF RequestFails
    <3>4. QED
      BY <1>0, <2>1, <3>1, <3>2, <3>3, TaskFails
  <2>3. QED
    BY <1>0, <1>1, <2>1, <2>2, TaskRuns
<1>2. ASSUME NEW w \in Workers, NEW d \in Deliveries, Receive(w, d) PROVE TaskInv'
  BY <1>0, <1>2, TaskMoves DEF Sessions
<1>3. ASSUME NEW w \in Workers, WorkerStep(w) PROVE TaskInv'
  BY <1>0, <1>3, TaskRuns DEF WorkerStep, Sessions
<1>4. ASSUME NEW w \in Workers, WorkerFails(w) PROVE TaskInv'
  <2>1. w \in Sessions
    BY DEF Sessions
  <2>2. tx[w].delivery \in Deliveries
    BY <1>4, <2>1 DEF WorkerFails, IInv, SessionInv, Good, Place, InTransaction
  <2>3. PICK requeued \in BOOLEAN :
          /\ ready' = IF requeued THEN [ready EXCEPT ![tx[w].delivery] = @ + 1] ELSE ready
          /\ RollBack(w, requeued)
    BY <1>4 DEF WorkerFails
  <2>4. pc'[w] = "idle" /\ \A t \in Sessions \ {w} : pc'[t] = pc[t]
    BY <1>4, <2>1 DEF WorkerFails, Goto, IInv, TypeOK
  <2>5. QED
    BY <1>0, <1>4, <2>1, <2>2, <2>3, <2>4, TaskFails DEF WorkerFails
<1>5. ASSUME NEW s \in Sessions, SessionStep(s) PROVE TaskInv'
  <2>1. CASE CallAdapter(s) \/ Flush(s)
    BY <1>0, <2>1, TaskRuns
  <2>2. CASE Enqueue(s)
    BY <1>0, <2>2, TaskMoves
  <2>3. CASE Commit(s)
    BY <1>0, <2>3, TaskCommit
  <2>4. QED
    BY <1>5, <2>1, <2>2, <2>3 DEF SessionStep
<1>6. CASE UNCHANGED vars
  <2>1. \A d \in Deliveries : Bearers(d)' = Bearers(d)
    BY <1>6 DEF vars, Bearers, Bearer, HasEnqueued
  <2>2. \A d \in Deliveries : Tasks(d)' = Tasks(d)
    BY <1>6, <2>1 DEF vars, Tasks
  <2>3. QED
    BY <1>6, <2>2 DEF vars, TaskInv, TaskOf, Asks
<1>7. QED
  BY <1>1, <1>2, <1>3, <1>4, <1>5, <1>6 DEF Next, Terminating

\* However often workers die and messages come back, a delivery is attempted more
\* than MAX_ATTEMPTS times only for copies of a task that late acknowledgement
\* made after its attempt was recorded or its retry enqueued.
THEOREM AttemptsWithinBudget == Spec => []AttemptBudget
<1>1. IInv /\ TaskInv => AttemptBudget
  <2> SUFFICES ASSUME IInv, TaskInv, NEW d \in Deliveries
               PROVE  row[d].attempt_count <= MAX_ATTEMPTS + hist[d].copies
    BY DEF AttemptBudget
  <2>1. IsFiniteSet(Bearers(d))
    BY SetAssumption, FS_Union, FS_Subset DEF Bearers, Sessions
  <2>2. Cardinality(Bearers(d)) \in Nat
    BY <2>1, FS_CardinalityType
  <2>3. ready[d] \in Nat /\ row[d].attempt_count \in Nat /\ hist[d].copies \in Nat
    BY DEF IInv, TypeOK, Row, History
  <2>4. row[d].attempt_count + (ready[d] + Cardinality(Bearers(d)))
          <= MAX_ATTEMPTS + hist[d].copies
    BY DEF TaskInv, TaskOf, Tasks
  <2>5. QED
    BY <2>2, <2>3, <2>4 DEF MAX_ATTEMPTS
<1>2. QED
  BY <1>1, InitInv, StepInv, TaskInit, TaskStep, PTL DEF Spec
-----------------------------------------------------------------------------
(***************************************************************************)
(* Refinement: a commit is one step of DeliveryLifecycle, every other      *)
(* action a stuttering step.                                               *)
(***************************************************************************)

\* A commit is a Try, an Accept, a Strand or a stutter of DeliveryLifecycle.
LEMMA CommitImplements ==
  ASSUME IInv, NEW s \in Sessions, Commit(s),
         NEW d \in Deliveries, d = tx[s].delivery
  PROVE  Lifecycle!Next
<1> DEFINE status == [e \in Deliveries |-> row[e].status]
           tries == [e \in Deliveries |-> row[e].attempt_count]
           status2 == [e \in Deliveries |-> row'[e].status]
           tries2 == [e \in Deliveries |-> row'[e].attempt_count]
           image == tx[s].image
           n == row[d].attempt_count
<1>1. /\ image \in Row /\ Good(s) /\ pc[s] = "commit"
      /\ row' = [row EXCEPT ![d] = image]
      /\ row[d].status \in Claimable \/ (s = d /\ row[d] = Absent)
  BY CommitFacts
<1>2. row \in [Deliveries -> Row] /\ n \in Nat
  BY <1>1 DEF IInv, TypeOK, Row
<1>3. /\ status2 = [status EXCEPT ![d] = image.status]
      /\ tries2 = [tries EXCEPT ![d] = image.attempt_count]
      /\ status[d] = row[d].status /\ tries[d] = n
  BY <1>1, <1>2
<1>4. /\ s \in Workers => row[d].status \in Claimable
      /\ s \notin Workers => row[d].status = "absent" /\ n = 0
  BY <1>1 DEF Good, Claimed, Place, InTransaction, Absent
<1>5. CASE tx[s].result = "none"
  <2>1. image.attempt_count = n /\ tries2 = tries
    <3>1. image.attempt_count = n
      BY <1>1, <1>5 DEF Good, After
    <3>2. QED
      BY <1>3, <3>1
  <2>2. \/ s \notin Workers /\ image.status = "queued"
        \/ s \in Workers /\ d \in Orphans /\ image.status = "processing"
    BY <1>1, <1>5 DEF Good, After
  <2>3. CASE s \notin Workers
    <3>1. Lifecycle!Accept(d)
      BY <1>3, <1>4, <2>1, <2>2, <2>3 DEF Lifecycle!Accept
    <3>2. QED
      BY <1>1, <3>1 DEF Lifecycle!Next
  <2>4. CASE s \in Workers
    <3>1. Lifecycle!Strand(d)
      BY <1>3, <1>4, <2>1, <2>2, <2>4 DEF Lifecycle!Strand, Lifecycle!Open, Claimable
    <3>2. QED
      BY <1>1, <3>1 DEF Lifecycle!Next
  <2>5. QED
    BY <2>3, <2>4
<1>6. CASE tx[s].result # "none"
  <2>1. image.attempt_count = n + 1
    BY <1>1, <1>6 DEF Good, After
  <2>2. image.status \in Lifecycle!AfterFailure(n + 1) \cup {"delivered"}
    <3>1. After(s) /\ pc[s] \in {"enqueue", "commit"}
      BY <1>1 DEF Good
    <3>2. image.status =
            outcome_status(image.attempt_count, tx[s].result = "ok", s \notin Workers)
      BY <1>6, <3>1, Zenon DEF After
    <3>3. \A ok \in BOOLEAN, now \in BOOLEAN :
            outcome_status(n + 1, ok, now) \in Lifecycle!AfterFailure(n + 1) \cup {"delivered"}
      BY <1>2 DEF outcome_status, Lifecycle!AfterFailure
    <3>4. image.status = outcome_status(n + 1, tx[s].result = "ok", s \notin Workers)
      BY <2>1, <3>2
    <3>5. (tx[s].result = "ok") \in BOOLEAN /\ (s \notin Workers) \in BOOLEAN
      OBVIOUS
    <3>6. outcome_status(n + 1, tx[s].result = "ok", s \notin Workers)
            \in Lifecycle!AfterFailure(n + 1) \cup {"delivered"}
      BY <3>3, <3>5, Zenon
    <3>7. QED
      BY <3>4, <3>6
  <2>3. tries2 = [tries EXCEPT ![d] = n + 1]
    BY <1>3, <2>1
  <2>4. CASE s \in Workers
    <3>1. Lifecycle!Try(d)
      <4>1. status[d] \in Lifecycle!Open
        BY <1>3, <1>4, <2>4 DEF Lifecycle!Open, Claimable
      <4>2. tries2 = [tries EXCEPT ![d] = tries[d] + 1]
        BY <1>3, <2>3
      <4>3. \E t \in Lifecycle!AfterFailure(tries[d] + 1) \cup {"delivered"} :
              status2 = [status EXCEPT ![d] = t]
        BY <1>3, <2>2
      <4>4. QED
        BY <4>1, <4>2, <4>3, Zenon DEF Lifecycle!Try, Lifecycle!Attempt
    <3>2. QED
      BY <1>1, <3>1 DEF Lifecycle!Next
  <2>5. CASE s \notin Workers
    <3>1. n + 1 = 1
      BY <1>4, <2>5
    <3>2. Lifecycle!Accept(d)
      BY <1>3, <1>4, <2>2, <2>3, <2>5, <3>1 DEF Lifecycle!Accept, Lifecycle!Attempt
    <3>3. QED
      BY <1>1, <3>2 DEF Lifecycle!Next
  <2>6. QED
    BY <2>4, <2>5
<1>7. QED
  BY <1>5, <1>6

\* The committed rows follow DeliveryLifecycle: every attempt counts up by one
\* from a claimable status, and a delivered row never changes again.
THEOREM Implementation == Spec => ImplementsLifecycle
<1>1. Init => Lifecycle!Init
  BY DEF Init, Lifecycle!Init, Absent
<1>2. IInv /\ [Next]_vars => [Lifecycle!Next]_Lifecycle!vars
  <2> SUFFICES ASSUME IInv, [Next]_vars PROVE [Lifecycle!Next]_Lifecycle!vars
    OBVIOUS
  <2>1. ASSUME NEW s \in Sessions, Commit(s) PROVE Lifecycle!Next
    <3>1. tx[s].delivery \in Deliveries
      BY <2>1, CommitFacts
    <3>2. PICK d \in Deliveries : d = tx[s].delivery
      BY <3>1
    <3>3. QED
      BY <2>1, <3>2, CommitImplements
  <2>2. CASE row' = row
    BY <2>2 DEF Lifecycle!vars
  <2>3. \/ row' = row
        \/ \E s \in Sessions : Commit(s)
    BY DEF Next, WorkerStep, SessionStep, Terminating, vars, Insert, Receive, Claim,
           ReadContext, CallAdapter, Flush, Enqueue, Ack, WorkerFails, RequestFails
  <2>4. QED
    BY <2>1, <2>2, <2>3
<1>3. QED
  BY <1>1, <1>2, Invariance, PTL DEF Spec, ImplementsLifecycle, Lifecycle!Spec
=============================================================================
