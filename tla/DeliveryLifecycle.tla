-------------------------- MODULE DeliveryLifecycle --------------------------
(***************************************************************************)
(* What the delivery pipeline promises about one delivery, with no         *)
(* worker, transaction or broker in sight: an attempt is one atomic step   *)
(* that counts up by one and ends in a status the attempt number decides.  *)
(***************************************************************************)
EXTENDS Naturals

CONSTANTS
  Deliveries,   \* delivery rows
  Strandable,   \* deliveries that may lose their lead or integration
  MaxAttempts   \* failed attempts before a delivery is a dead letter

VARIABLES status, tries

vars == <<status, tries>>

Open == {"queued", "failed", "retry_scheduled", "dead_letter"}

\* A failed attempt below the limit is retried later, or left to an operator.
AfterFailure(n) ==
  IF n >= MaxAttempts THEN {"dead_letter"} ELSE {"retry_scheduled", "failed"}

Init ==
  /\ status = [d \in Deliveries |-> "absent"]
  /\ tries = [d \in Deliveries |-> 0]

Attempt(d, n) ==
  /\ tries' = [tries EXCEPT ![d] = n]
  /\ \E s \in AfterFailure(n) \cup {"delivered"} :
       status' = [status EXCEPT ![d] = s]

\* The delivery appears, queued or with its first attempt already made.
Accept(d) ==
  /\ status[d] = "absent"
  /\ \/ status' = [status EXCEPT ![d] = "queued"] /\ UNCHANGED tries
     \/ Attempt(d, 1)

Try(d) ==
  /\ status[d] \in Open
  /\ Attempt(d, tries[d] + 1)

Strand(d) ==
  /\ status[d] \in Open /\ d \in Strandable
  /\ status' = [status EXCEPT ![d] = "processing"]
  /\ UNCHANGED tries

Next == \E d \in Deliveries : Accept(d) \/ Try(d) \/ Strand(d)

Spec == Init /\ [][Next]_vars
=============================================================================
