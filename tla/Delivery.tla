------------------------------ MODULE Delivery ------------------------------
(***************************************************************************)
(* The backend's delivery pipeline: the intake request that inserts a      *)
(* delivery row (ingest_sql), the Celery worker that claims it, calls the  *)
(* CRM adapter and records the outcome (deliver_lead, process_delivery),   *)
(* and the Redis broker between the two.  Every session works in one       *)
(* PostgreSQL transaction (READ COMMITTED): "row", "attempts" and          *)
(* "success" are the committed tables, "tx" is what a session has written  *)
(* and not committed yet.                                                  *)
(***************************************************************************)
EXTENDS Integers, Sequences, FiniteSets

CONSTANTS
  Workers,       \* Celery worker processes
  Deliveries,    \* delivery rows; each is named by the POST that inserts it
  Integrations,  \* CRM destinations
  None,          \* no value
  ProcessNow,    \* values of ENVIRONMENT # "production": where TRUE, intake
                 \* delivers in its request
  Orphans,       \* deliveries whose lead or integration row is later deleted
  MaxFaults      \* bound on crashes and task errors

ASSUME SetAssumption ==
  /\ IsFiniteSet(Workers) /\ IsFiniteSet(Deliveries)
  /\ Workers \cap Deliveries = {}
  /\ None \notin Workers \cup Deliveries \cup Integrations
ASSUME ModeAssumption ==
  /\ ProcessNow \subseteq BOOLEAN
  /\ Orphans \subseteq Deliveries
  /\ MaxFaults \in Nat

VARIABLES
  row,       \* deliveries: the committed row of each delivery
  attempts,  \* delivery_attempts: the committed rows, oldest first
  success,   \* integrations.success_count, committed
  ready,     \* broker: messages waiting for a worker, per delivery
  pc, tx,    \* a session's position in its task and its open transaction
  hist,      \* what happened outside the database, for the properties only
  faults     \* crashes and task errors so far

vars == <<row, attempts, success, ready, pc, tx, hist, faults>>

Sessions == Workers \cup Deliveries

MAX_ATTEMPTS == 3
RETRY_DELAYS_MS == <<30000, 120000, 600000>>

\* Mutant: a claim that also takes delivered rows.
ClaimsDelivered == {"queued", "failed", "retry_scheduled", "dead_letter", "delivered"}
Claimable == {"queued", "failed", "retry_scheduled", "dead_letter"}
Statuses == Claimable \cup {"absent", "processing", "delivered"}

\* next_retry_at is the index of the delay it was computed from, 0 for NULL.
next_retry_at(n) == IF n \in 1..Len(RETRY_DELAYS_MS) THEN n ELSE 0

\* Mutants: a status no column value stands for, a row left in 'processing'
\* until its retry, a success not recorded.
UnknownStatus(n, ok, simulate_now) ==
  IF ok THEN "delivered" ELSE IF n >= MAX_ATTEMPTS THEN "exhausted" ELSE "error"
LeftProcessing(n, ok, simulate_now) ==
  IF ok THEN "delivered"
  ELSE IF n >= MAX_ATTEMPTS THEN "dead_letter" ELSE "processing"
outcome_status(n, ok, simulate_now) ==
  IF ok THEN "delivered"
  ELSE IF n >= MAX_ATTEMPTS THEN "dead_letter"
  ELSE IF simulate_now THEN "failed" ELSE "retry_scheduled"

Row == [status: Statuses, attempt_count: Nat, force_fail: BOOLEAN,
        next_retry_at: 0..Len(RETRY_DELAYS_MS),
        integration: Integrations \cup {None}]
Absent == [status |-> "absent", attempt_count |-> 0, force_fail |-> FALSE,
           next_retry_at |-> 0, integration |-> None]

\* The transaction of a session: the delivery it works on, the row image it
\* will commit, the success_count it read, and the adapter's answer.
Results == {"none", "ok", "failed"}
Tx == [delivery: Deliveries \cup {None}, image: Row, seen: Nat, result: Results]
NoTx == [delivery |-> None, image |-> Absent, seen |-> 0, result |-> "none"]

\* A transaction holds the row lock of its delivery from the claim to its end.
InTransaction == {"read", "call", "flush", "enqueue", "commit"}
\* Mutant: a claim that only reads the row locks it at the first flush.
HoldsFromFlush(s, d) == pc[s] \in {"enqueue", "commit"} /\ tx[s].delivery = d
Holds(s, d) == pc[s] \in InTransaction /\ tx[s].delivery = d
\* The integration row is locked from the flush that updates it.
HoldsIntegration(s, i) ==
  /\ pc[s] \in {"enqueue", "commit"}
  /\ tx[s].result # "none"
  /\ tx[s].image.integration = i

Goto(s, label) == pc' = [pc EXCEPT ![s] = label]
-----------------------------------------------------------------------------
Init ==
  /\ row = [d \in Deliveries |-> Absent]
  /\ attempts = [d \in Deliveries |-> <<>>]
  /\ success = [i \in Integrations |-> 0]
  /\ ready = [d \in Deliveries |-> 0]
  /\ pc = [s \in Sessions |-> IF s \in Workers THEN "idle" ELSE "start"]
  /\ tx = [s \in Sessions |-> NoTx]
  /\ hist = [d \in Deliveries |->
               [deals |-> 0, rolledBack |-> 0, copies |-> 0, lost |-> FALSE]]
  /\ faults = 0

(***************************************************************************)
(* The intake request of d: insert the row, then either deliver in the     *)
(* same transaction or enqueue a task, and only then commit.               *)
(***************************************************************************)
Insert(d) ==
  /\ pc[d] = "start"
  /\ \E i \in Integrations, simulate_failure \in BOOLEAN :
       tx' = [tx EXCEPT ![d] =
                [delivery |-> d, seen |-> success[i], result |-> "none",
                 image |-> [Absent EXCEPT !.status = "queued",
                                          !.force_fail = simulate_failure,
                                          !.integration = i]]]
  /\ \E process_now \in ProcessNow : Goto(d, IF process_now THEN "call" ELSE "enqueue")
  /\ UNCHANGED <<row, attempts, success, ready, hist, faults>>

\* The broker hands a message to an idle worker; acks are late, so the worker
\* owns the message until the task returns.
Receive(w, d) ==
  /\ pc[w] = "idle"
  /\ ready[d] > 0
  /\ ready' = [ready EXCEPT ![d] = @ - 1]
  /\ tx' = [tx EXCEPT ![w] = [NoTx EXCEPT !.delivery = d]]
  /\ Goto(w, "claim")
  /\ UNCHANGED <<row, attempts, success, hist, faults>>

\* UPDATE ... SET status = 'processing' ... RETURNING: waits for the row lock,
\* then claims the row or finds nothing to do.
Claim(w) ==
  LET d == tx[w].delivery
      claimed == row[d].status \in Claimable
  IN  /\ pc[w] = "claim"
      /\ \A s \in Sessions : row[d].status = "absent" \/ ~Holds(s, d)
      /\ tx' = [tx EXCEPT ![w].image =
                  IF claimed THEN [row[d] EXCEPT !.status = "processing"]
                  ELSE Absent]
      /\ Goto(w, IF claimed THEN "read" ELSE "ack")
      /\ UNCHANGED <<row, attempts, success, ready, hist, faults>>

\* Without its lead or integration the task returns, and the worker commits
\* the claim as it stands.
ReadContext(w) ==
  LET d == tx[w].delivery
  IN  /\ pc[w] = "read"
      /\ \/ /\ d \in Orphans
            /\ Goto(w, "commit")
            /\ UNCHANGED tx
         \/ /\ d \notin Orphans
            /\ tx' = [tx EXCEPT ![w].seen = success[tx[w].image.integration]]
            /\ Goto(w, "call")
      /\ UNCHANGED <<row, attempts, success, ready, hist, faults>>

\* A forced failure fails; any other call succeeds or raises.  A deal made at
\* the provider stays there whatever becomes of the transaction.
CallAdapter(s) ==
  LET d == tx[s].delivery
  IN  /\ pc[s] = "call"
      /\ \E ok \in BOOLEAN :
           /\ tx[s].image.force_fail => ~ok
           /\ tx' = [tx EXCEPT ![s].result = IF ok THEN "ok" ELSE "failed"]
           /\ hist' = IF ok THEN [hist EXCEPT ![d].deals = @ + 1] ELSE hist
      /\ Goto(s, "flush")
      /\ UNCHANGED <<row, attempts, success, ready, faults>>

\* Mutants: only the list of delays limits the attempts; the attempt is not
\* counted.
OnlyDelaysLimit(image, ok, simulate_now) ==
  LET n == image.attempt_count + 1
  IN  [image EXCEPT !.status = IF ok THEN "delivered" ELSE IF next_retry_at(n) = 0 THEN "dead_letter"
                               ELSE IF simulate_now THEN "failed" ELSE "retry_scheduled",
                    !.attempt_count = n,
                    !.next_retry_at = IF ok THEN 0 ELSE next_retry_at(n)]
NotCounted(image, ok, simulate_now) ==
  [image EXCEPT !.status = outcome_status(image.attempt_count + 1, ok, simulate_now)]
\* The outcome is written to the row, in the transaction; a scheduled retry is
\* enqueued next.
Outcome(image, ok, simulate_now) ==
  LET n == image.attempt_count + 1
  IN  [image EXCEPT !.status = outcome_status(n, ok, simulate_now),
                    !.attempt_count = n,
                    !.force_fail = @ /\ ~ok,
                    !.next_retry_at = IF ok \/ n >= MAX_ATTEMPTS THEN 0
                                      ELSE next_retry_at(n)]

\* Mutant: the first delay counts as no retry.
RetryWithoutFirstDelay(image) ==
  image.status = "retry_scheduled" /\ image.next_retry_at > 1
WantsRetry(image) == image.status = "retry_scheduled" /\ image.next_retry_at # 0

Flush(s) ==
  LET image == Outcome(tx[s].image, tx[s].result = "ok", s \notin Workers)
  IN  /\ pc[s] = "flush"
      /\ \A t \in Sessions : ~HoldsIntegration(t, image.integration)
      /\ tx' = [tx EXCEPT ![s].image = image]
      /\ Goto(s, IF WantsRetry(image) THEN "enqueue" ELSE "commit")
      /\ UNCHANGED <<row, attempts, success, ready, hist, faults>>

\* enqueue_delivery, before the commit of the transaction that asks for it.
Enqueue(s) ==
  /\ pc[s] = "enqueue"
  /\ ready' = [ready EXCEPT ![tx[s].delivery] = @ + 1]
  /\ Goto(s, "commit")
  /\ UNCHANGED <<row, attempts, success, tx, hist, faults>>

\* success_count is written as the value read plus one.
Commit(s) ==
  LET t == tx[s]
      d == t.delivery
      ok == t.result = "ok"
  IN  /\ pc[s] = "commit"
      /\ row' = [row EXCEPT ![d] = t.image]
      /\ attempts' = IF t.result = "none" THEN attempts
                     ELSE [attempts EXCEPT ![d] =
                             Append(@, [number |-> t.image.attempt_count, ok |-> ok])]
      /\ success' = IF ok THEN [success EXCEPT ![t.image.integration] = t.seen + 1]
                    ELSE success
      /\ tx' = [tx EXCEPT ![s] = [NoTx EXCEPT !.delivery = d]]
      /\ Goto(s, IF s \in Workers THEN "ack" ELSE "done")
      /\ UNCHANGED <<ready, hist, faults>>

Ack(w) ==
  /\ pc[w] = "ack"
  /\ tx' = [tx EXCEPT ![w] = NoTx]
  /\ Goto(w, "idle")
  /\ UNCHANGED <<row, attempts, success, ready, hist, faults>>
-----------------------------------------------------------------------------
\* The retry (or the first task) of s is already in the broker.
HasEnqueued(s) == pc[s] = "commit" /\ tx[s].image.status \in {"queued", "retry_scheduled"}

RollBack(s, requeued) ==
  LET d == tx[s].delivery
  IN  hist' = [hist EXCEPT
                 ![d].rolledBack = @ + (IF tx[s].result = "ok" THEN 1 ELSE 0),
                 ![d].copies = @ + (IF requeued /\ (HasEnqueued(s) \/ pc[s] = "ack")
                                    THEN 1 ELSE 0),
                 ![d].lost = @ \/ (~requeued /\ ~HasEnqueued(s))]

\* The worker dies.  With its container the unacknowledged message returns to
\* the queue; a lost pool child, or an exception in the task, acknowledges it.
WorkerFails(w) ==
  /\ faults < MaxFaults
  /\ pc[w] \in InTransaction \cup {"claim", "ack"}
  /\ \E requeued \in BOOLEAN :
       /\ pc[w] = "ack" => requeued
       /\ ready' = IF requeued THEN [ready EXCEPT ![tx[w].delivery] = @ + 1] ELSE ready
       /\ RollBack(w, requeued)
  /\ tx' = [tx EXCEPT ![w] = NoTx]
  /\ Goto(w, "idle")
  /\ faults' = faults + 1
  /\ UNCHANGED <<row, attempts, success>>

\* The request dies or fails a later statement: the row is never committed, a
\* task it enqueued stays in the broker.
RequestFails(d) ==
  /\ faults < MaxFaults
  /\ pc[d] \in InTransaction
  /\ RollBack(d, FALSE)
  /\ tx' = [tx EXCEPT ![d] = NoTx]
  /\ Goto(d, "done")
  /\ faults' = faults + 1
  /\ UNCHANGED <<row, attempts, success, ready>>

Quiescent ==
  /\ \A w \in Workers : pc[w] = "idle"
  /\ \A d \in Deliveries : pc[d] = "done" /\ ready[d] = 0

Terminating == Quiescent /\ UNCHANGED vars
-----------------------------------------------------------------------------
WorkerStep(w) == Claim(w) \/ ReadContext(w) \/ Ack(w)
SessionStep(s) == CallAdapter(s) \/ Flush(s) \/ Enqueue(s) \/ Commit(s)

Next ==
  \/ \E d \in Deliveries : Insert(d) \/ RequestFails(d)
  \/ \E w \in Workers, d \in Deliveries : Receive(w, d)
  \/ \E w \in Workers : WorkerStep(w) \/ WorkerFails(w)
  \/ \E s \in Sessions : SessionStep(s)
  \/ Terminating

Spec == Init /\ [][Next]_vars

\* A task or request that has begun runs on; a waiting message is handed out.
Fairness ==
  /\ \A s \in Sessions : WF_vars(SessionStep(s))
  /\ \A w \in Workers : WF_vars(WorkerStep(w))
  /\ \A d \in Deliveries : WF_vars(\E w \in Workers : Receive(w, d))

FairSpec == Spec /\ Fairness
-----------------------------------------------------------------------------
(***************************************************************************)
(* Properties.                                                             *)
(***************************************************************************)
History == [deals: Nat, rolledBack: Nat, copies: Nat, lost: BOOLEAN]
Attempts == [number: Nat, ok: BOOLEAN]
Labels == InTransaction \cup {"idle", "claim", "ack", "start", "done"}

\* Every variable has its type, and a session of process_delivery always has
\* a delivery to work on.
TypeOK ==
  /\ row \in [Deliveries -> Row]
  /\ attempts \in [Deliveries -> Seq(Attempts)]
  /\ success \in [Integrations -> Nat]
  /\ ready \in [Deliveries -> Nat]
  /\ pc \in [Sessions -> Labels]
  /\ tx \in [Sessions -> Tx]
  /\ hist \in [Deliveries -> History]
  /\ faults \in 0..MaxFaults

\* The delivery_attempts of a row are its history: as many as attempt_count,
\* numbered 1, 2, ..., and a success only as the last one, exactly when the
\* row is delivered.  It is what the atomic claim of process_delivery is for.
AttemptLog ==
  \A d \in Deliveries :
    LET n == row[d].attempt_count
    IN  /\ Len(attempts[d]) = n
        /\ \A k \in 1..n : attempts[d][k].number = k
        /\ \A k \in 1..n : attempts[d][k].ok <=> (row[d].status = "delivered" /\ k = n)

\* The provider receives a second deal for a lead only when the transaction
\* that made the first one was rolled back by a crash or a task error.
DealsAccounted ==
  \A d \in Deliveries : hist[d].deals <= 1 + hist[d].rolledBack

\* MAX_ATTEMPTS is exceeded only by copies of a task: messages redelivered
\* after their attempt was recorded or its retry enqueued (task_acks_late).
AttemptBudget ==
  \A d \in Deliveries : row[d].attempt_count <= MAX_ATTEMPTS + hist[d].copies

\* A row that says a retry is scheduled has a task that will run it, unless a
\* failing task took the message with it: no other process would ever retry.
RetryHasTask ==
  \A d \in Deliveries :
    row[d].status = "retry_scheduled" /\ ~hist[d].lost =>
      \/ ready[d] > 0
      \/ \E w \in Workers : tx[w].delivery = d /\ pc[w] \in InTransaction \cup {"claim"}

\* The claim is never seen committed: a row is left in 'processing', which no
\* task can claim again, only when its lead or integration has gone.
StuckOnlyIfOrphaned ==
  \A d \in Deliveries : row[d].status = "processing" => d \in Orphans

\* The committed rows follow the lifecycle of DeliveryLifecycle.
Lifecycle == INSTANCE DeliveryLifecycle WITH
  Strandable <- Orphans, MaxAttempts <- MAX_ATTEMPTS,
  status <- [d \in Deliveries |-> row[d].status],
  tries <- [d \in Deliveries |-> row[d].attempt_count]
ImplementsLifecycle == Lifecycle!Spec

Settled(d) == row[d].status \in {"delivered", "dead_letter"}

\* A row waiting for a worker with a message in the broker is delivered or
\* becomes a dead letter, whatever the other workers do meanwhile.
WaitingTaskSettles ==
  \A d \in Deliveries :
    row[d].status \in {"queued", "retry_scheduled"} /\ ready[d] > 0 ~> Settled(d)

\* README: "Deliveries: queued -> processing -> delivered | failed": a
\* committed delivery does not stay queued.
EveryDeliverySettles ==
  \A d \in Deliveries : row[d].status = "queued" ~> Settled(d)
=============================================================================
