------------------------------ MODULE Connector ------------------------------
(***************************************************************************)
(* The client of the connector service (lib/app-data/client.server.ts):    *)
(* a failure is remembered for some seconds, for the same call of the same *)
(* person, in one map that all requests of the process share.  Calls       *)
(* overlap; tokens are renewed; the service, external, answers as it will. *)
(***************************************************************************)
EXTENDS Integers, FiniteSets

CONSTANTS
  Calls,        \* slots for calls
  Tools,        \* a tool with its arguments and connector
  Tokens,       \* connector tokens
  PersonOf,     \* whose each token is: sub and team
  Ttl,          \* FAILURE_MEMO_TTL_MS
  MaxNow        \* bound on the clock

NoToken == "none"

ASSUME ConnectorAssumption ==
  /\ NoToken \notin Tokens /\ DOMAIN PersonOf = Tokens
  /\ {Ttl, MaxNow} \subseteq Nat

VARIABLES
  now,
  failureMemo,   \* when each call that is remembered failed
  toolCalls,     \* the calls: what is asked and how it was answered
  failures       \* history: the failures of the service

connectorVars == <<now, failureMemo, toolCalls, failures>>

NotCalled == [at |-> "idle"]

ConnectorInit ==
  /\ now = 0
  /\ failureMemo = {} /\ failures = {}
  /\ toolCalls = [c \in Calls |-> NotCalled]

\* Mutant: the key does not say who calls.
AnyPerson(k) == "anybody"
tokenIdentityKey(k) == PersonOf[k]

memoKey(q) == <<q.tool, tokenIdentityKey(q.token)>>

Answered(q, from, what) == [q EXCEPT !.at = "done", !.from = from, !.what = what]

TooOld(entry) == now - entry.at > Ttl

memoizedFailure(q) == \E entry \in failureMemo : entry.key = memoKey(q) /\ ~TooOld(entry)

\* Up to the request to the service.  Allowed: a same-site POST.
callTool(c, tool, token, allowed) ==
  LET q == [at |-> "asked", tool |-> tool, token |-> token, from |-> "here",
            what |-> "pending", when |-> now] IN
  /\ toolCalls[c].at \in {"idle", "done"}
  /\ toolCalls' = [toolCalls EXCEPT ![c] =
       IF ~allowed THEN Answered(q, "here", "blocked")
       ELSE IF token = NoToken THEN Answered(q, "here", "login")
       ELSE IF memoizedFailure(q) THEN Answered(q, "memo", "failed") ELSE q]
  /\ failureMemo' = IF allowed /\ token # NoToken
                    THEN {e \in failureMemo : ~(e.key = memoKey(q) /\ TooOld(e))}
                    ELSE failureMemo
  /\ UNCHANGED <<now, failures>>

\* A login that is required is no failure.
Remembered == {"failed"}

\* The answer of the service: 401, some other failure, or the data.
gatePost(c, what) ==
  LET q == toolCalls[c] IN
  /\ q.at = "asked"
  /\ toolCalls' = [toolCalls EXCEPT ![c] = Answered(q, "service", what)]
  /\ failureMemo' =
       IF what \in Remembered
       THEN {e \in failureMemo : ~TooOld(e) /\ e.key # memoKey(q)}
              \cup {[key |-> memoKey(q), at |-> now]}
       ELSE failureMemo
  /\ failures' = IF what = "failed"
                 THEN failures \cup {[tool |-> q.tool, person |-> PersonOf[q.token], at |-> now]}
                 ELSE failures
  /\ UNCHANGED now

ClockTicks == now < MaxNow /\ now' = now + 1 /\ UNCHANGED <<failureMemo, toolCalls, failures>>

ConnectorNext ==
  \/ ClockTicks
  \/ \E c \in Calls :
       \/ \E what \in {"ok", "failed", "login"} : gatePost(c, what)
       \/ \E tool \in Tools, token \in Tokens \cup {NoToken}, allowed \in BOOLEAN :
            callTool(c, tool, token, allowed)

ConnectorSpec == ConnectorInit /\ [][ConnectorNext]_connectorVars
-----------------------------------------------------------------------------
\* Nobody is told of a failure that was not theirs or is over: an answer that does not
\* come from the service is a failure that the same call of the same person met at
\* most Ttl earlier.  A login that was required is never remembered, so the call that
\* follows the login reaches the service.
MemoHonest ==
  \A c \in Calls :
    toolCalls[c].at = "done" /\ toolCalls[c].from = "memo" =>
      \E f \in failures :
        /\ f.tool = toolCalls[c].tool /\ f.person = PersonOf[toolCalls[c].token]
        /\ toolCalls[c].when - f.at \in 0 .. Ttl
=============================================================================
