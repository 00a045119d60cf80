-------------------------- MODULE ShowcaseDelivery --------------------------
(***************************************************************************)
(* Deliveries in the showcase (lib/pipeline/delivery.ts and the server     *)
(* functions that call it).  There is no transaction: every statement of   *)
(* processDelivery commits by itself, calls of several tabs interleave     *)
(* between statements, and a call that dies leaves what it has written.    *)
(***************************************************************************)
EXTENDS Integers, Sequences, FiniteSets

CONSTANTS
  Calls,       \* server function calls
  Deliveries,  \* delivery rows
  None,        \* no delivery
  MaxFaults    \* bound on calls that die

ASSUME CallAssumption ==
  IsFiniteSet(Calls) /\ None \notin Deliveries /\ MaxFaults \in Nat

VARIABLES
  row,       \* deliveries
  attempts,  \* delivery_attempts of each delivery, in order of insertion
  count,     \* integrations: success_count and failure_count
  pc, call,  \* each call's position and what it has read
  frozen,    \* history: each row as it was when a failure was first simulated
  faults

vars == <<row, attempts, count, pc, call, frozen, faults>>

MAX_ATTEMPTS == 3

\* Mutant: a claim that takes delivered rows.
TakesDelivered == {"queued", "failed", "retry_scheduled", "dead_letter", "delivered"}
Claimable == {"queued", "failed", "retry_scheduled", "dead_letter"}

Row == [status: Claimable \cup {"absent", "processing", "delivered"},
        attempt_count: Nat, force_fail: BOOLEAN]
Absent == [status |-> "absent", attempt_count |-> 0, force_fail |-> FALSE]
Call == [delivery: Deliveries \cup {None}, force_success: BOOLEAN, claimed: Row, ok: BOOLEAN]
NoCall == [delivery |-> None, force_success |-> FALSE, claimed |-> Absent, ok |-> FALSE]

Goto(c, label) == pc' = [pc EXCEPT ![c] = label]
Begin(c, d, force_success, label) ==
  /\ pc[c] = "idle"
  /\ call' = [call EXCEPT ![c] = [NoCall EXCEPT !.delivery = d, !.force_success = force_success]]
  /\ Goto(c, label)
  /\ UNCHANGED <<attempts, count, faults>>

\* The call that has claimed d and not yet written its outcome.
Owner(d) == {c \in Calls : call[c].delivery = d /\ pc[c] \in {"call", "attempt", "update"}}
\* A claim is no event of the lifecycle until its outcome is written, unless
\* the call dies and strands the row.
shown(d) ==
  IF row[d].status = "processing" /\ Owner(d) # {}
  THEN (CHOOSE r \in {call[c].claimed : c \in Owner(d)} : TRUE)
  ELSE row[d]
-----------------------------------------------------------------------------
Init ==
  /\ row = [d \in Deliveries |-> Absent]
  /\ attempts = [d \in Deliveries |-> <<>>]
  /\ count = [success |-> 0, failure |-> 0]
  /\ pc = [c \in Calls |-> "idle"]
  /\ call = [c \in Calls |-> NoCall]
  /\ frozen = [d \in Deliveries |-> Absent]
  /\ faults = 0

\* ingestLead has inserted the delivery and goes on to process it.
SubmitIntake(c, d) ==
  /\ row[d].status = "absent"
  /\ \E simulate_failure \in BOOLEAN :
       row' = [row EXCEPT ![d].status = "queued", ![d].force_fail = simulate_failure]
  /\ Begin(c, d, FALSE, "claim")
  /\ UNCHANGED frozen

\* The row is only looked up, whatever its status; the claim decides.
RetryDelivery(c, d) ==
  /\ row[d].status # "absent"
  /\ Begin(c, d, TRUE, "claim")
  /\ UNCHANGED <<row, frozen>>

requeued(r) == [r EXCEPT !.status = "queued", !.force_fail = TRUE]

SimulateFailureOnDelivery(c, d) ==
  /\ row[d].status # "absent"
  /\ Begin(c, d, FALSE, "requeue")
  /\ frozen' = [frozen EXCEPT ![d] = IF @ = Absent THEN shown(d) ELSE @]
  /\ UNCHANGED row

Requeue(c) ==
  /\ pc[c] = "requeue"
  /\ row' = [row EXCEPT ![call[c].delivery] = requeued(@)]
  /\ Goto(c, "claim")
  /\ UNCHANGED <<attempts, count, call, frozen, faults>>

\* update deliveries set status = 'processing' where status in (...) returning.
Claim(c) ==
  LET d == call[c].delivery
  IN  /\ pc[c] = "claim"
      /\ \/ /\ row[d].status \in Claimable
            /\ row' = [row EXCEPT ![d].status = "processing"]
            /\ call' = [call EXCEPT ![c].claimed = row[d]]
            /\ Goto(c, "call")
         \/ /\ row[d].status \notin Claimable
            /\ Goto(c, "done")
            /\ UNCHANGED <<row, call>>
      /\ UNCHANGED <<attempts, count, frozen, faults>>

\* The lead and the integration are read, with defaults for what is missing,
\* and the adapter is called; it fails when told to, or by an exception.
CallAdapter(c) ==
  /\ pc[c] = "call"
  /\ \E ok \in BOOLEAN :
       /\ call[c].claimed.force_fail /\ ~call[c].force_success => ~ok
       /\ call' = [call EXCEPT ![c].ok = ok]
  /\ Goto(c, "attempt")
  /\ UNCHANGED <<row, attempts, count, frozen, faults>>

attemptNumber(c) == call[c].claimed.attempt_count + 1

\* Mutant: only failures are logged.
LogFailures(c) ==
  IF call[c].ok THEN attempts
  ELSE [attempts EXCEPT ![call[c].delivery] = Append(@, [number |-> attemptNumber(c), ok |-> FALSE])]
logged(c) ==
  [attempts EXCEPT ![call[c].delivery] =
     Append(@, [number |-> attemptNumber(c), ok |-> call[c].ok])]

InsertAttempt(c) ==
  /\ pc[c] = "attempt"
  /\ attempts' = logged(c)
  /\ Goto(c, "update")
  /\ UNCHANGED <<row, count, call, frozen, faults>>

\* Mutants: the first failures leave the row claimed; the number is not stored.
LeftProcessing(r, n, ok) ==
  [r EXCEPT !.status = IF ok THEN "delivered"
                       ELSE IF n >= MAX_ATTEMPTS THEN "dead_letter" ELSE "processing",
            !.attempt_count = n]
NotCounted(r, n, ok) ==
  [r EXCEPT !.status = IF ok THEN "delivered"
                       ELSE IF n >= MAX_ATTEMPTS THEN "dead_letter" ELSE "failed"]
\* All callers pass simulateNow, so a failure is never scheduled.
settled(r, n, ok) ==
  [r EXCEPT !.status = IF ok THEN "delivered"
                       ELSE IF n >= MAX_ATTEMPTS THEN "dead_letter" ELSE "failed",
            !.attempt_count = n,
            !.force_fail = @ /\ ~ok]

UpdateRow(c) ==
  /\ pc[c] = "update"
  /\ row' = [row EXCEPT ![call[c].delivery] = settled(@, attemptNumber(c), call[c].ok)]
  /\ Goto(c, "count")
  /\ UNCHANGED <<attempts, count, call, frozen, faults>>

\* set success_count = success_count + 1, or failure_count; the audit event
\* inserted afterwards ends the call.
UpdateIntegration(c) ==
  /\ pc[c] = "count"
  /\ count' = IF call[c].ok THEN [count EXCEPT !.success = @ + 1]
              ELSE [count EXCEPT !.failure = @ + 1]
  /\ Goto(c, "done")
  /\ UNCHANGED <<row, attempts, call, frozen, faults>>

Running(c) == pc[c] \notin {"idle", "done", "dead"}

Dies(c) ==
  /\ Running(c) /\ faults < MaxFaults
  /\ Goto(c, "dead")
  /\ faults' = faults + 1
  /\ UNCHANGED <<row, attempts, count, call, frozen>>

Terminating == (\A c \in Calls : pc[c] \in {"done", "dead"}) /\ UNCHANGED vars

Process(c) ==
  \/ Requeue(c) \/ Claim(c) \/ CallAdapter(c)
  \/ InsertAttempt(c) \/ UpdateRow(c) \/ UpdateIntegration(c)

Next ==
  \/ \E c \in Calls, d \in Deliveries :
       SubmitIntake(c, d) \/ RetryDelivery(c, d) \/ SimulateFailureOnDelivery(c, d)
  \/ \E c \in Calls : Process(c) \/ Dies(c)
  \/ Terminating

Spec == Init /\ [][Next]_vars
-----------------------------------------------------------------------------
(***************************************************************************)
(* Properties.                                                             *)
(***************************************************************************)
Simulated(d) == frozen[d] # Absent
Succeeded(d) == {k \in DOMAIN attempts[d] : attempts[d][k].ok}
AttemptsBy(ok) == {p \in Deliveries \X (1..Cardinality(Calls)) :
                     p[2] \in DOMAIN attempts[p[1]] /\ attempts[p[1]][p[2]].ok = ok}

\* Whoever overwrites a row, with whatever stale count: it never counts more
\* attempts than were made and is never marked delivered without a successful one.
RowsBacked ==
  \A d \in Deliveries :
    /\ row[d].attempt_count <= Len(attempts[d])
    /\ row[d].status = "delivered" => Succeeded(d) # {}

\* Rows are backed by their attempts, and although attempt, row and counter are
\* three statements, what the counters lack is what a running or a dead call
\* has not added.
AttemptsAccounted ==
  LET open(ok) == {c \in Calls : pc[c] \in {"update", "count", "dead"} /\ call[c].ok = ok}
      made(ok) == Cardinality(AttemptsBy(ok))
  IN  /\ RowsBacked
      /\ count.success <= made(TRUE) /\ made(TRUE) <= count.success + Cardinality(open(TRUE))
      /\ count.failure <= made(FALSE) /\ made(FALSE) <= count.failure + Cardinality(open(FALSE))

\* Whatever is called on a delivery, and however the calls interleave, a row in
\* 'processing' belongs to a call that will write its outcome, or that died:
\* when all calls have ended and none has died, no row is left in it.
ProcessingOwned ==
  \A d \in Deliveries :
    row[d].status = "processing" =>
      \E c \in Calls : /\ call[c].delivery = d
                       /\ pc[c] \in {"call", "attempt", "update", "dead"}

\* Until somebody simulates a failure the rows follow the lifecycle of the
\* backend's deliveries, a dying call being what strands one.
Lifecycle == INSTANCE DeliveryLifecycle WITH
  Strandable <- Deliveries, MaxAttempts <- MAX_ATTEMPTS,
  status <- [d \in Deliveries |-> (IF Simulated(d) THEN frozen[d] ELSE shown(d)).status],
  tries <- [d \in Deliveries |-> (IF Simulated(d) THEN frozen[d] ELSE shown(d)).attempt_count]
ImplementsLifecycle == Lifecycle!Spec
=============================================================================
