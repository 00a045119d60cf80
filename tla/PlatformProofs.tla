--------------------------- MODULE PlatformProofs ---------------------------
(***************************************************************************)
(* Theorems about the parts of the showcase that MCPlatform checks side by *)
(* side, for any number of attempts, visitors, paths, calls and leads.     *)
(***************************************************************************)
EXTENDS SignIn, PreviewBridge, Connector, LeadSearch, Console, PreviewServer, Bootstrap,
        FiniteSetTheorems, TLAPS

(***************************************************************************)
(* The client of connectors: every entry of the memo is a failure that the *)
(* service has answered to that call of that person, at that time.         *)
(***************************************************************************)
MemoInv ==
  /\ now \in Nat
  /\ \A e \in failureMemo :
       /\ e.at \in Nat /\ e.at <= now
       /\ \E f \in failures : e.key = <<f.tool, f.person>> /\ f.at = e.at
  /\ MemoHonest

\* An answer from the memo is an entry that is not too old.
LEMMA MemoAnswers ==
  ASSUME MemoInv, NEW c \in Calls, NEW t, NEW token, NEW allowed \in BOOLEAN,
         callTool(c, t, token, allowed)
  PROVE  MemoInv'
<1> DEFINE ask == [at |-> "asked", tool |-> t, token |-> token, from |-> "here",
                   what |-> "pending", when |-> now]
<1>1. /\ toolCalls' = [toolCalls EXCEPT ![c] =
           IF ~allowed THEN Answered(ask, "here", "blocked")
           ELSE IF token = NoToken THEN Answered(ask, "here", "login")
           ELSE IF memoizedFailure(ask) THEN Answered(ask, "memo", "failed") ELSE ask]
      /\ failureMemo' \subseteq failureMemo /\ UNCHANGED <<now, failures>>
  BY DEF callTool
<1>2. ASSUME memoizedFailure(ask)
      PROVE  \E f \in failures : /\ f.tool = t /\ f.person = PersonOf[token]
                                 /\ now - f.at \in 0 .. Ttl
  <2>1. PICK entry \in failureMemo : entry.key = memoKey(ask) /\ ~TooOld(entry)
    BY <1>2 DEF memoizedFailure
  <2>2. entry.at \in Nat /\ entry.at <= now /\ now - entry.at <= Ttl /\ now \in Nat /\ Ttl \in Nat
    BY <2>1, ConnectorAssumption DEF MemoInv, TooOld
  <2>3. PICK f \in failures : entry.key = <<f.tool, f.person>> /\ f.at = entry.at
    BY <2>1 DEF MemoInv
  <2>4. memoKey(ask) = <<t, PersonOf[token]>>
    BY DEF memoKey, tokenIdentityKey
  <2>5. f.tool = t /\ f.person = PersonOf[token]
    BY <2>1, <2>3, <2>4
  <2>6. now - f.at \in 0 .. Ttl
    BY <2>2, <2>3
  <2>7. QED
    BY <2>5, <2>6
<1>3. ASSUME NEW d \in Calls, toolCalls'[d].at = "done", toolCalls'[d].from = "memo"
      PROVE  \E f \in failures' : /\ f.tool = toolCalls'[d].tool
                                  /\ f.person = PersonOf[toolCalls'[d].token]
                                  /\ toolCalls'[d].when - f.at \in 0 .. Ttl
  <2>1. CASE d = c /\ c \in DOMAIN toolCalls
    <3>1. toolCalls'[d] = Answered(ask, "memo", "failed") /\ memoizedFailure(ask)
      BY <1>1, <1>3, <2>1 DEF Answered
    <3>2. /\ toolCalls'[d].tool = t /\ toolCalls'[d].token = token /\ toolCalls'[d].when = now
      BY <3>1 DEF Answered
    <3>3. QED
      BY <1>1, <1>2, <3>1, <3>2
  <2>2. CASE d # c \/ c \notin DOMAIN toolCalls
    <3>1. toolCalls'[d] = toolCalls[d]
      BY <1>1, <2>2
    <3>2. QED
      BY <1>1, <1>3, <3>1 DEF MemoInv, MemoHonest
  <2>3. QED
    BY <2>1, <2>2
<1>4. MemoHonest'
  BY <1>3 DEF MemoHonest
<1>5. QED
  BY <1>1, <1>4 DEF MemoInv

\* What is remembered of an answer is what has just been answered.
LEMMA MemoRemembers ==
  ASSUME MemoInv, NEW c \in Calls, NEW what, gatePost(c, what)
  PROVE  MemoInv'
<1> DEFINE old == toolCalls[c]
           new == [key |-> memoKey(old), at |-> now]
           failure == [tool |-> old.tool, person |-> PersonOf[old.token], at |-> now]
<1>1. /\ toolCalls' = [toolCalls EXCEPT ![c] = Answered(old, "service", what)]
      /\ failureMemo' \subseteq failureMemo \cup {new} /\ failures \subseteq failures'
      /\ new \in failureMemo' => new \in failureMemo \/ failure \in failures'
      /\ now' = now
  BY DEF gatePost, Remembered
<1>2. ASSUME NEW e \in failureMemo'
      PROVE  /\ e.at \in Nat /\ e.at <= now'
             /\ \E f \in failures' : e.key = <<f.tool, f.person>> /\ f.at = e.at
  <2>1. CASE e \in failureMemo
    BY <1>1, <2>1 DEF MemoInv
  <2>2. CASE e = new /\ failure \in failures'
    <3>1. e.key = <<failure.tool, failure.person>> /\ failure.at = e.at
      BY <2>2 DEF memoKey, tokenIdentityKey
    <3>2. e.at = now /\ now \in Nat /\ now <= now
      BY <2>2 DEF MemoInv
    <3>3. QED
      BY <1>1, <2>2, <3>1, <3>2
  <2>3. QED
    BY <1>1, <2>1, <2>2
<1>3. ASSUME NEW d \in Calls, toolCalls'[d].at = "done", toolCalls'[d].from = "memo"
      PROVE  toolCalls'[d] = toolCalls[d]
  <2>1. CASE d = c /\ c \in DOMAIN toolCalls
    <3>1. toolCalls'[d] = [toolCalls[c] EXCEPT !.at = "done", !.from = "service", !.what = what]
      BY <1>1, <2>1 DEF Answered
    <3>2. QED
      BY <1>3, <2>1, <3>1
  <2>2. QED
    BY <1>1, <2>1
<1>4. MemoHonest'
  BY <1>1, <1>3 DEF MemoHonest, MemoInv
<1>5. QED
  BY <1>1, <1>2, <1>4 DEF MemoInv

\* Nobody is told of a failure that was not theirs, or that is over: whatever
\* calls of whomever overlap, and whatever the service answers.
THEOREM MemosAreHonest == ConnectorSpec => []MemoHonest
<1>1. ConnectorInit => MemoInv
  BY DEF ConnectorInit, MemoInv, MemoHonest, NotCalled
<1>2. ASSUME MemoInv, [ConnectorNext]_connectorVars PROVE MemoInv'
  <2>1. CASE ClockTicks
    BY <1>2, <2>1 DEF ClockTicks, MemoInv, MemoHonest
  <2>2. CASE UNCHANGED connectorVars
    BY <1>2, <2>2 DEF connectorVars, MemoInv, MemoHonest
  <2>3. QED
    BY <1>2, <2>1, <2>2, MemoAnswers, MemoRemembers DEF ConnectorNext
<1>3. MemoInv => MemoHonest
  BY DEF MemoInv
<1>4. QED
  BY <1>1, <1>2, <1>3, PTL DEF ConnectorSpec
-----------------------------------------------------------------------------
(***************************************************************************)
(* The demo: whoever signs in a second time without a failure of their own *)
(* was told that the account exists, and accounts stay.                    *)
(***************************************************************************)
DemoInv ==
  /\ demo \in [Visitors -> [at : {"idle", "signing in", "signing up", "signing in again",
                                  "entered", "failed"},
                            failed : BOOLEAN]]
  /\ \A v \in Visitors :
       /\ demo[v].at = "failed" => demo[v].failed
       /\ demo[v].at = "signing in again" /\ ~demo[v].failed => account

\* A step of one visitor that keeps the account.
LEMMA DemoMoves ==
  ASSUME DemoInv, NEW v \in Visitors, NEW at \in {"signing in", "signing up", "signing in again",
                                                  "entered", "failed"},
         NEW ok \in BOOLEAN, To(v, at, ok), account => account',
         at = "failed" => demo[v].failed \/ ~ok,
         at = "signing in again" /\ ok /\ ~demo[v].failed => account'
  PROVE  DemoInv'
<1>1. /\ demo'[v].at = at /\ demo'[v].failed = (demo[v].failed \/ ~ok)
      /\ demo' \in [Visitors -> [at : {"idle", "signing in", "signing up", "signing in again",
                                       "entered", "failed"},
                                 failed : BOOLEAN]]
      /\ \A u \in Visitors \ {v} : demo'[u] = demo[u]
  BY DEF To, DemoInv
<1>2. QED
  BY <1>1 DEF DemoInv

\* Every visitor enters the demo, unless a call of one's own fails: several who
\* find no account at once do not keep each other out.
THEOREM VisitorsEnterDemo == SignSpec => []DemoEntered
<1>1. SignInit => DemoInv
  <2> SUFFICES ASSUME SignInit PROVE DemoInv
    OBVIOUS
  <2>1. demo = [v \in Visitors |-> [at |-> "idle", failed |-> FALSE]] /\ account = FALSE
    BY DEF SignInit
  <2>2. [at |-> "idle", failed |-> FALSE] \in
          [at : {"idle", "signing in", "signing up", "signing in again", "entered", "failed"},
           failed : BOOLEAN]
    OBVIOUS
  <2>3. \A v \in Visitors : demo[v].at = "idle"
    BY <2>1
  <2>4. demo \in [Visitors -> [at : {"idle", "signing in", "signing up", "signing in again",
                                    "entered", "failed"},
                              failed : BOOLEAN]]
    BY <2>1, <2>2, Zenon
  <2>5. QED
    BY <2>1, <2>3, <2>4 DEF DemoInv
<1>2. ASSUME DemoInv, [SignNext]_signVars PROVE DemoInv'
  <2>1. ASSUME UNCHANGED demoVars PROVE DemoInv'
    BY <1>2, <2>1 DEF demoVars, DemoInv
  <2>2. ASSUME NEW v \in Visitors, enterDemo(v) PROVE DemoInv'
    BY <1>2, <2>2, DemoMoves DEF enterDemo
  <2>3. ASSUME NEW v \in Visitors, FirstSignIn(v) PROVE DemoInv'
    <3>1. account' = account
      BY <2>3 DEF FirstSignIn
    <3>2. \/ To(v, "entered", TRUE) \/ To(v, "signing up", TRUE) \/ To(v, "signing up", FALSE)
      BY <1>2, <2>3 DEF FirstSignIn, Call
    <3>3. QED
      BY <1>2, <3>1, <3>2, DemoMoves
  <2>4. ASSUME NEW v \in Visitors, SignUp(v) PROVE DemoInv'
    <3>1. account' = (account \/ demo'[v].at = "entered")
      BY <2>4 DEF SignUp
    <3>2. \/ To(v, "entered", TRUE)
          \/ account /\ To(v, "signing in again", TRUE)
          \/ To(v, "signing in again", FALSE)
      BY <1>2, <2>4 DEF SignUp, Call, AfterSignUp
    <3>3. account => account'
      BY <3>1
    <3>4. CASE To(v, "entered", TRUE)
      BY <1>2, <3>3, <3>4, DemoMoves
    <3>5. CASE account /\ To(v, "signing in again", TRUE)
      BY <1>2, <3>3, <3>5, DemoMoves
    <3>6. CASE To(v, "signing in again", FALSE)
      BY <1>2, <3>3, <3>6, DemoMoves
    <3>7. QED
      BY <3>2, <3>4, <3>5, <3>6
  <2>5. ASSUME NEW v \in Visitors, SecondSignIn(v) PROVE DemoInv'
    <3>1. account' = account /\ demo[v].at = "signing in again"
      BY <2>5 DEF SecondSignIn, Call
    <3>2. \/ To(v, "entered", TRUE)
          \/ ~account /\ To(v, "failed", TRUE)
          \/ To(v, "failed", FALSE)
      BY <1>2, <2>5 DEF SecondSignIn, Call
    <3>3. ~account => demo[v].failed
      BY <1>2, <3>1 DEF DemoInv
    <3>4. CASE To(v, "entered", TRUE)
      BY <1>2, <3>1, <3>4, DemoMoves
    <3>5. CASE ~account /\ To(v, "failed", TRUE)
      BY <1>2, <3>1, <3>3, <3>5, DemoMoves
    <3>6. CASE To(v, "failed", FALSE)
      BY <1>2, <3>1, <3>6, DemoMoves
    <3>7. QED
      BY <3>2, <3>4, <3>5, <3>6
  <2>6. CASE UNCHANGED signVars
    BY <2>1, <2>6 DEF signVars
  <2>7. CASE PageNext
    BY <2>1, <2>7 DEF PageNext, signIn, runPreSignInSignOut, handleAuthPopupRequest, settleClosed,
                      EndsSession, PopupMessage, signOut, runSignOut
  <2>8. QED
    BY <1>2, <2>2, <2>3, <2>4, <2>5, <2>6, <2>7 DEF SignNext, DemoNext
<1>3. DemoInv => DemoEntered
  BY DEF DemoInv, DemoEntered
<1>4. QED
  BY <1>1, <1>2, <1>3, PTL DEF SignSpec
-----------------------------------------------------------------------------
(***************************************************************************)
(* The bridge.  A page that has it has told the host where it is, as far   *)
(* as the last report goes, unless an event is still to fire or a hello of *)
(* the host is still to be answered, which will report it again.           *)
(***************************************************************************)
Entries == [path : Paths, doc : Nat, tag : {"none", "root", "inner"}]
Message == [type : {"navigate"}, path : Paths] \cup [type : {"history"}, delta : {-1, 1}]
             \cup [type : {"hello"}]
LastReport == IF toHost = <<>> THEN hostPath ELSE toHost[Len(toHost)]

Reporting ==
  bridged => \/ pending > 0
             \/ \E k \in 1..Len(toGuest) : toGuest[k].type = "hello"
             \/ LastReport = Current.path

\* Documents are loaded at the end of the history.
HistoryInv ==
  /\ entries \in Seq(Entries)
  /\ here \in 1..Len(entries)
  /\ \A i, j \in 1..Len(entries) : i <= j => entries[i].doc <= entries[j].doc

BridgeInv ==
  /\ HistoryInv
  /\ pending \in Nat
  /\ toHost \in Seq(Paths) /\ toGuest \in Seq(Message) /\ travels \in Seq({-1, 1})
  /\ Reporting

\* A report that is sent last is the last report.
LEMMA ReportIsLast ==
  ASSUME toHost \in Seq(Paths), NEW p \in Paths, toHost' = Append(toHost, p)
  PROVE  toHost' \in Seq(Paths) /\ LastReport' = p
  BY DEF LastReport

\* The last of the documents is that of the last entry.
LEMMA LastDocument ==
  ASSUME HistoryInv
  PROVE  LastDoc \in Nat /\ \A i \in 1..Len(entries) : entries[i].doc <= LastDoc
<1> DEFINE docs == {entries[i].doc : i \in 1 .. Len(entries)}
<1>0. \A i \in 1..Len(entries) : entries[i].doc \in Nat
  <2>1. \A i \in 1..Len(entries) : entries[i] \in Entries
    BY DEF HistoryInv
  <2>2. QED
    BY <2>1 DEF Entries
<1>1. /\ Len(entries) \in 1..Len(entries) /\ entries[Len(entries)].doc \in Nat
      /\ \A i \in 1..Len(entries) : entries[i].doc <= entries[Len(entries)].doc
  BY <1>0 DEF HistoryInv
<1>2. \E d \in docs : \A i \in 1..Len(entries) : entries[i].doc <= d
  BY <1>1
<1>3. LastDoc \in docs /\ \A i \in 1..Len(entries) : entries[i].doc <= LastDoc
  BY <1>2 DEF LastDoc
<1>4. docs \subseteq Nat
  BY <1>0
<1>5. QED
  BY <1>3, <1>4

\* An entry of a document that is not older goes after the one that is shown.
LEMMA Entering ==
  ASSUME HistoryInv, NEW p \in Paths, NEW d \in Nat, NEW tag \in {"none", "root", "inner"},
         Enter(Entry(p, d, tag)), Current.doc <= d
  PROVE  HistoryInv' /\ Current'.path = p
<1> DEFINE e == Entry(p, d, tag)
           before == SubSeq(entries, 1, here)
<1>1. e \in Entries /\ e.path = p /\ e.doc = d
  BY DEF Entry, Entries
<1>2. entries' = Append(before, e) /\ here' = here + 1
  BY DEF Enter
<1>3. entries \in Seq(Entries) /\ here \in 1..Len(entries) /\ here \in Nat
      /\ \A i, j \in 1..Len(entries) : i <= j => entries[i].doc <= entries[j].doc
  BY DEF HistoryInv
<1>4. before \in Seq(Entries) /\ Len(before) = here /\ \A i \in 1..here : before[i] = entries[i]
  BY <1>3
<1>5. \A i \in 1..here : entries[i].doc \in Nat /\ entries[i].doc <= d
  <2>1. \A i \in 1..Len(entries) : entries[i].doc \in Nat
    <3>1. \A i \in 1..Len(entries) : entries[i] \in Entries
      BY <1>3
    <3>2. QED
      BY <3>1 DEF Entries
  <2>2. \A i \in 1..here : i \in 1..Len(entries) /\ entries[i].doc <= entries[here].doc
    BY <1>3
  <2>3. QED
    BY <1>3, <2>1, <2>2 DEF Current
<1> HIDE DEF before, e
<1>6. /\ entries' \in Seq(Entries) /\ Len(entries') = here + 1 /\ entries'[here + 1] = e
      /\ \A i \in 1..here : entries'[i] = entries[i]
  BY <1>1, <1>2, <1>3, <1>4
<1>7. ASSUME NEW i \in 1..Len(entries'), NEW j \in 1..Len(entries'), i <= j
      PROVE  entries'[i].doc <= entries'[j].doc
  <2>1. CASE j \in 1..here
    BY <1>3, <1>6, <1>7, <2>1
  <2>2. CASE j = here + 1 /\ i \in 1..here
    BY <1>1, <1>5, <1>6, <2>2
  <2>3. CASE j = here + 1 /\ i = here + 1
    BY <1>1, <1>6, <2>3
  <2>4. QED
    BY <1>3, <1>6, <1>7, <2>1, <2>2, <2>3
<1>8. QED
  BY <1>1, <1>2, <1>3, <1>6, <1>7 DEF Current, HistoryInv

\* An entry that takes the place of the one that is shown keeps its document.
LEMMA Replacing ==
  ASSUME HistoryInv, NEW e \in Entries, e.doc = Current.doc,
         entries' = [entries EXCEPT ![here] = e], here' = here
  PROVE  HistoryInv' /\ Current' = e
<1>1. /\ entries' \in Seq(Entries) /\ Len(entries') = Len(entries) /\ entries'[here] = e
      /\ \A i \in 1..Len(entries) : i # here => entries'[i] = entries[i]
  BY DEF HistoryInv
<1>2. \A i \in 1..Len(entries) : entries'[i].doc = entries[i].doc
  BY <1>1 DEF Current
<1>3. QED
  BY <1>1, <1>2 DEF HistoryInv, Current

\* A traversal goes somewhere in the history; within a document an event
\* follows, and another document does not have the bridge yet.
LEMMA Traversing ==
  ASSUME BridgeInv, NEW d \in Int, Traverse(d), UNCHANGED <<entries, toHost, toGuest, hostPath>>,
         travels' \in Seq({-1, 1})
  PROVE  BridgeInv'
<1>1. CASE UNCHANGED <<here, bridged, pending>>
  BY <1>1 DEF BridgeInv, HistoryInv, Reporting, LastReport, Current
<1>2. CASE /\ here + d \in 1..Len(entries) /\ here' = here + d
           /\ \/ pending' = pending + 1 /\ UNCHANGED bridged
              \/ pending' = 0 /\ bridged' = FALSE
  <2>1. pending' \in Nat /\ (bridged' => pending' > 0)
    BY <1>2 DEF BridgeInv
  <2>2. HistoryInv'
    BY <1>2 DEF BridgeInv, HistoryInv
  <2>3. QED
    BY <2>1, <2>2 DEF BridgeInv, Reporting
<1>3. QED
  BY <1>1, <1>2 DEF Traverse

\* A message of the host is answered, and a hello by a report.
LEMMA Answering ==
  ASSUME BridgeInv, onMessage
  PROVE  BridgeInv'
<1> DEFINE m == Head(toGuest)
<1>1. /\ toGuest # <<>> /\ toGuest \in Seq(Message) /\ toGuest' = Tail(toGuest)
      /\ UNCHANGED <<bridged, pending, hostPath>>
  BY DEF onMessage, BridgeInv
<1>2. m \in Message /\ m = toGuest[1] /\ toGuest' \in Seq(Message)
      /\ Len(toGuest') = Len(toGuest) - 1 /\ Len(toGuest) \in Nat
      /\ \A k \in 1..Len(toGuest') : toGuest'[k] = toGuest[k + 1]
  BY <1>1
<1>3. /\ pending' \in Nat /\ toHost \in Seq(Paths) /\ HistoryInv /\ here \in 1..Len(entries)
  BY <1>1 DEF BridgeInv, HistoryInv
<1>4. Current \in Entries
  BY <1>3 DEF HistoryInv, Current
<1>0. travels' \in Seq({-1, 1})
  <2>1. travels \in Seq({-1, 1}) /\ (m.type = "history" => m.delta \in {-1, 1})
    BY <1>2 DEF BridgeInv, Message
  <2>2. travels' = travels \/ (m.type = "history" /\ travels' = Append(travels, m.delta))
    <3>1. m.type \in {"navigate", "history", "hello"}
      BY <1>2 DEF Message
    <3>2. QED
      BY <3>1 DEF onMessage
  <2>3. QED
    BY <2>1, <2>2
<1>5. CASE ~bridged
  <2>1. UNCHANGED <<entries, here, toHost>>
    BY <1>5 DEF onMessage
  <2>2. QED
    BY <1>0, <1>1, <1>2, <1>3, <1>5, <2>1 DEF BridgeInv, HistoryInv, Reporting
<1>6. CASE bridged /\ m.type = "hello"
  <2>1. toHost' = Append(toHost, Current.path) /\ UNCHANGED <<entries, here>>
    BY <1>6 DEF onMessage, reportLocation
  <2>2. toHost' \in Seq(Paths) /\ LastReport' = Current.path
    BY <1>3, <1>4, <2>1, ReportIsLast DEF Entries
  <2>3. Current' = Current /\ HistoryInv'
    BY <1>3, <2>1 DEF Current, HistoryInv
  <2>4. QED
    BY <1>0, <1>2, <1>3, <2>2, <2>3 DEF BridgeInv, Reporting
<1>7. CASE bridged /\ m.type = "navigate"
  <2>1. m.path \in Paths
    BY <1>2, <1>7 DEF Message
  <2>2. /\ \E tag \in {"none", Current.tag} : Enter(Entry(m.path, Current.doc, pushedTag(tag)))
        /\ toHost' = toHost \o <<m.path, m.path>>
    BY <1>7 DEF onMessage
  <2>3. Enter(Entry(m.path, Current.doc, "inner"))
    BY <2>2 DEF pushedTag
  <2> HIDE DEF m
  <2>4. HistoryInv' /\ Current'.path = m.path
    BY <1>3, <1>4, <2>1, <2>3, Entering DEF Entries
  <2>5. /\ toHost' \in Seq(Paths) /\ Len(toHost') = Len(toHost) + 2 /\ Len(toHost) \in Nat
        /\ toHost'[Len(toHost) + 2] = m.path
    BY <1>3, <2>1, <2>2
  <2>6. LastReport' = m.path
    BY <2>5 DEF LastReport
  <2>7. QED
    BY <1>0, <1>2, <1>3, <2>4, <2>5, <2>6 DEF BridgeInv, Reporting
<1>8. CASE bridged /\ m.type = "history"
  <2>1. UNCHANGED <<entries, here, toHost>>
    BY <1>8 DEF onMessage
  <2>2. LastReport' = LastReport /\ Current' = Current /\ HistoryInv'
    BY <1>1, <1>3, <2>1 DEF LastReport, Current, HistoryInv
  <2>3. ASSUME NEW k \in 1..Len(toGuest), toGuest[k].type = "hello"
        PROVE  \E j \in 1..Len(toGuest') : toGuest'[j].type = "hello"
    <3>1. k # 1
      BY <1>2, <1>8, <2>3
    <3>2. k - 1 \in 1..Len(toGuest') /\ (k - 1) + 1 = k
      BY <1>2, <3>1
    <3>3. QED
      BY <1>2, <2>3, <3>2
  <2>4. Reporting'
    BY <1>1, <2>2, <2>3 DEF BridgeInv, Reporting
  <2>5. QED
    BY <1>0, <1>2, <1>3, <2>1, <2>2, <2>4 DEF BridgeInv
<1>9. m.type \in {"navigate", "history", "hello"}
  BY <1>2 DEF Message
<1>10. QED
  BY <1>5, <1>6, <1>7, <1>8, <1>9

\* When nothing is under way the host shows where the page is, whoever moves in
\* the history and by whatever means, for any number of messages and moves.
THEOREM HostSeesThePage == BridgeSpec => []HostFollows
<1>1. BridgeInit => BridgeInv
  <2> SUFFICES ASSUME BridgeInit PROVE BridgeInv
    OBVIOUS
  <2>1. PICK p \in Paths : entries = <<Entry(p, 1, "none")>>
    BY DEF BridgeInit
  <2>2. Entry(p, 1, "none") \in Entries
    BY DEF Entry, Entries
  <2>3. entries \in Seq(Entries) /\ Len(entries) = 1
    BY <2>1, <2>2
  <2>4. HistoryInv
    <3>1. entries[1].doc \in Nat
      <4>1. entries[1] \in Entries
        BY <2>3
      <4>2. QED
        BY <4>1 DEF Entries
    <3>2. QED
      BY <2>3, <3>1 DEF BridgeInit, HistoryInv
  <2>5. QED
    BY <2>4 DEF BridgeInit, BridgeInv, Reporting
<1>2. ASSUME BridgeInv, [BridgeNext]_bridgeVars PROVE BridgeInv'
  <2> USE <1>2
  <2>0. /\ Current \in Entries /\ HistoryInv /\ here \in 1..Len(entries)
        /\ toHost \in Seq(Paths) /\ toGuest \in Seq(Message) /\ pending \in Nat
        /\ travels \in Seq({-1, 1})
    BY DEF BridgeInv, HistoryInv, Current
  <2>1. ASSUME installPreviewHostBridge PROVE BridgeInv'
    <3> DEFINE tag == IF Current.tag = "none" THEN StampedTag ELSE Current.tag
               e == [Current EXCEPT !.tag = tag]
    <3>1. /\ entries' = [entries EXCEPT ![here] = e] /\ here' = here
          /\ toHost' = Append(toHost, Current.path) /\ UNCHANGED <<pending, toGuest, travels>>
      BY <2>1 DEF installPreviewHostBridge, reportLocation, Current
    <3>2. e \in Entries /\ e.doc = Current.doc /\ e.path = Current.path
      BY <2>0 DEF Entries, StampedTag
    <3> HIDE DEF e
    <3>3. HistoryInv' /\ Current'.path = Current.path
      BY <2>0, <3>1, <3>2, Replacing
    <3>4. toHost' \in Seq(Paths) /\ LastReport' = Current.path
      BY <2>0, <3>1, ReportIsLast DEF Entries
    <3>5. QED
      BY <2>0, <3>1, <3>3, <3>4 DEF BridgeInv, Reporting
  <2>2. ASSUME AppNavigates PROVE BridgeInv'
    <3>1. PICK p \in Paths :
            /\ \/ Enter(Entry(p, Current.doc, "inner"))
               \/ /\ entries' = [entries EXCEPT ![here] =
                                   Entry(p, @.doc, replacedTag(@.tag))]
                  /\ here' = here
            /\ toHost' = Append(toHost, p)
      BY <2>2 DEF AppNavigates, pushState, pushedTag, reportLocation
    <3>2. UNCHANGED <<pending, toGuest, travels>>
      BY <2>2 DEF AppNavigates
    <3>3. HistoryInv' /\ Current'.path = p
      <4>1. CASE Enter(Entry(p, Current.doc, "inner"))
        BY <2>0, <4>1, Entering DEF Entries
      <4>2. CASE entries' = [entries EXCEPT ![here] = Entry(p, @.doc, replacedTag(@.tag))] /\ here' = here
        <5> DEFINE e == Entry(p, Current.doc, replacedTag(Current.tag))
        <5>1. e \in Entries /\ e.doc = Current.doc /\ e.path = p
          BY <2>0 DEF Entries, Entry, replacedTag
        <5>2. entries' = [entries EXCEPT ![here] = e]
          BY <4>2 DEF Current
        <5> HIDE DEF e
        <5>3. QED
          BY <2>0, <4>2, <5>1, <5>2, Replacing
      <4>3. QED
        BY <3>1, <4>1, <4>2
    <3>4. toHost' \in Seq(Paths) /\ LastReport' = p
      BY <2>0, <3>1, ReportIsLast
    <3>5. QED
      BY <2>0, <3>2, <3>3, <3>4 DEF BridgeInv, Reporting
  <2>3. ASSUME HashNavigates PROVE BridgeInv'
    <3>1. PICK p \in Paths : Enter(Entry(p, Current.doc, "none"))
      BY <2>3 DEF HashNavigates
    <3>2. HistoryInv'
      BY <2>0, <3>1, Entering DEF Entries
    <3>3. pending' = pending + 1 /\ UNCHANGED <<toHost, toGuest, travels>>
      BY <2>3 DEF HashNavigates
    <3>4. QED
      BY <2>0, <3>2, <3>3 DEF BridgeInv, Reporting
  <2>4. ASSUME DocumentLoads PROVE BridgeInv'
    <3>1. bridged' = FALSE /\ pending' = 0 /\ travels' = <<>> /\ UNCHANGED <<toHost, toGuest>>
      BY <2>4 DEF DocumentLoads
    <3>2. HistoryInv'
      <4>1. CASE UNCHANGED <<entries, here>>
        BY <2>0, <4>1 DEF HistoryInv
      <4>2. ASSUME NEW p \in Paths, Enter(Entry(p, LastDoc + 1, "none")) PROVE HistoryInv'
        <5>1. LastDoc \in Nat /\ Current.doc <= LastDoc
          BY <2>0, LastDocument DEF Current
        <5>2. LastDoc + 1 \in Nat /\ Current.doc <= LastDoc + 1
          BY <2>0, <5>1 DEF Entries
        <5>3. QED
          BY <2>0, <4>2, <5>2, Entering
      <4>3. QED
        BY <2>4, <4>1, <4>2 DEF DocumentLoads
    <3>3. QED
      BY <2>0, <3>1, <3>2 DEF BridgeInv, Reporting
  <2>5. ASSUME UserTraverses PROVE BridgeInv'
    BY <2>5, Traversing DEF UserTraverses, BridgeInv
  <2>6. ASSUME Go PROVE BridgeInv'
    <3>1. /\ travels \in Seq({-1, 1}) /\ travels # <<>> /\ travels' = Tail(travels)
          /\ Traverse(Head(travels)) /\ UNCHANGED <<entries, toHost, toGuest, hostPath>>
      BY <2>6 DEF Go, BridgeInv
    <3>2. Head(travels) \in Int /\ travels' \in Seq({-1, 1})
      BY <3>1
    <3>3. QED
      BY <3>1, <3>2, Traversing
  <2>7. ASSUME Event PROVE BridgeInv'
    <3>1. /\ pending > 0 /\ pending' = pending - 1 /\ UNCHANGED <<entries, here, bridged, toGuest, travels>>
          /\ toHost' = IF bridged THEN Append(toHost, Current.path) ELSE toHost
      BY <2>7 DEF Event, Reported
    <3>2. Current' = Current /\ HistoryInv'
      BY <2>0, <3>1 DEF Current, HistoryInv
    <3>3. toHost' \in Seq(Paths) /\ (bridged => LastReport' = Current.path)
      BY <2>0, <3>1, ReportIsLast DEF Entries
    <3>4. QED
      BY <2>0, <3>1, <3>2, <3>3 DEF BridgeInv, Reporting
  <2>8. ASSUME HostAsks PROVE BridgeInv'
    <3>1. PICK m \in Message : /\ toGuest' = Append(toGuest, m)
                               /\ m.type = "hello" \/ UNCHANGED hostPath
      BY <2>8 DEF HostAsks, Message
    <3>2. UNCHANGED <<entries, here, bridged, pending, toHost, travels>>
      BY <2>8 DEF HostAsks
    <3>3. /\ toGuest' \in Seq(Message) /\ Len(toGuest') = Len(toGuest) + 1 /\ Len(toGuest) \in Nat
          /\ toGuest'[Len(toGuest')] = m /\ \A k \in 1..Len(toGuest) : toGuest'[k] = toGuest[k]
      BY <2>0, <3>1
    <3>4. HistoryInv' /\ Current' = Current /\ (UNCHANGED hostPath => LastReport' = LastReport)
      BY <2>0, <3>2 DEF HistoryInv, Current, LastReport
    <3>5. Reporting'
      <4>1. CASE m.type = "hello"
        BY <3>3, <4>1 DEF Reporting
      <4>2. CASE UNCHANGED hostPath
        BY <3>2, <3>3, <3>4, <4>2 DEF Reporting, BridgeInv
      <4>3. QED
        BY <3>1, <4>1, <4>2
    <3>6. QED
      BY <2>0, <3>2, <3>3, <3>4, <3>5 DEF BridgeInv
  <2>9. ASSUME HostReceives PROVE BridgeInv'
    <3>1. /\ toHost # <<>> /\ toHost' = Tail(toHost) /\ hostPath' = Head(toHost)
          /\ UNCHANGED <<entries, here, bridged, pending, toGuest, travels>>
      BY <2>9 DEF HostReceives
    <3>2. toHost' \in Seq(Paths) /\ LastReport' = LastReport
      <4>1. /\ toHost' \in Seq(Paths) /\ Len(toHost) \in Nat \ {0} /\ Len(toHost') = Len(toHost) - 1
            /\ hostPath' = toHost[1]
            /\ \A k \in 1..Len(toHost') : toHost'[k] = toHost[k + 1]
        BY <2>0, <3>1
      <4>2. CASE Len(toHost) = 1
        BY <3>1, <4>1, <4>2 DEF LastReport
      <4>3. CASE Len(toHost) # 1
        <5>1. Len(toHost') \in 1..Len(toHost') /\ toHost'[Len(toHost')] = toHost[Len(toHost)]
          BY <4>1, <4>3
        <5>2. toHost # <<>> /\ toHost' # <<>>
          BY <4>1, <4>3
        <5>3. LastReport' = toHost'[Len(toHost')] /\ LastReport = toHost[Len(toHost)]
          BY <5>2, Zenon DEF LastReport
        <5>4. QED
          BY <4>1, <5>1, <5>3
      <4>4. QED
        BY <4>2, <4>3
    <3>3. HistoryInv' /\ Current' = Current
      BY <2>0, <3>1 DEF HistoryInv, Current
    <3>4. QED
      BY <2>0, <3>1, <3>2, <3>3 DEF BridgeInv, Reporting
  <2>10. CASE UNCHANGED bridgeVars
    BY <2>0, <2>10 DEF bridgeVars, BridgeInv, HistoryInv, Reporting, LastReport, Current
  <2>11. QED
    BY <2>1, <2>2, <2>3, <2>4, <2>5, <2>6, <2>7, <2>8, <2>9, <2>10, Answering DEF BridgeNext
<1>3. BridgeInv => HostFollows
  BY DEF BridgeInv, Reporting, LastReport, HostFollows
<1>4. QED
  BY <1>1, <1>2, <1>3, PTL DEF BridgeSpec
-----------------------------------------------------------------------------
(***************************************************************************)
(* Sign-in by popup.  While an attempt that nothing disturbs is under way, *)
(* what is posted is from its own popup; what a popup has posted is either *)
(* on its way or received; and only a token that was received is ever sent *)
(* away again.                                                             *)
(***************************************************************************)
Progress == [at : {"idle", "clearing", "waiting", "ok", "failed", "left"},
             solo : BOOLEAN, early : BOOLEAN]
Token(a) == [from |-> a, token |-> a]
Failure(a) == [from |-> a, token |-> 0]

PopupTypes ==
  /\ attempt \in [Attempts -> Progress]
  /\ window \in [Attempts -> {"none", "open", "blocked", "completed", "errored", "dismissed"}]
  /\ \A a \in Attempts : attempt[a].at = "idle" <=> window[a] = "none"
  /\ bearer \in Attempts \cup {0, Old}

Posted ==
  \A m \in mail : \E a \in Attempts :
    \/ window[a] = "completed" /\ m = Token(a) /\ a \in rows
    \/ window[a] = "errored" /\ m = Failure(a)

Received ==
  \A a \in Attempts : a \in going \cup {bearer} => window[a] = "completed" /\ Token(a) \notin mail

\* What is so of an attempt that no other has overlapped, while it is under way ...
Alone(a) ==
  Under(a) => /\ \A b \in Attempts \ {a} : ~Under(b) /\ window[b] # "open"
              /\ \A m \in mail : m.from = a
              /\ ~attempt[a].early /\ window[a] = "completed" =>
                   attempt[a].at = "waiting" /\ Token(a) \in mail
\* ... and when it is over.
Honoured(a) ==
  /\ attempt[a].at = "ok" => window[a] = "completed"
  /\ attempt[a].at = "failed" => window[a] # "open" /\ (window[a] = "completed" => attempt[a].early)
  /\ attempt[a].at = "ok" /\ ~attempt[a].early =>
       /\ (\A b \in Attempts \ {a} : attempt[b].at = "idle") => bearer = a
       /\ ~leaving /\ bearer = a => a \in rows /\ a \notin going

Undisturbed == \A a \in Attempts : attempt[a].solo => Alone(a) /\ Honoured(a)

PopupInv == PopupTypes /\ Posted /\ Received /\ Undisturbed

\* Messages of different attempts differ, and a token is no failure.
LEMMA MessageFacts ==
  \A a, b \in Attempts : /\ Token(a) # Failure(b) /\ (Token(a) = Token(b) => a = b)
                         /\ Token(a).from = a /\ Token(a).token = a /\ a # 0 /\ a # Old
                         /\ Failure(a).from = a /\ Failure(a).token = 0
  BY SignInAssumption DEF Token, Failure

\* Steps that touch attempts only by ending them, and take nothing away.
LEMMA EndsAttempts ==
  ASSUME PopupInv, NEW gone \in SUBSET Attempts,
         attempt' \in [Attempts -> Progress],
         \A a \in Attempts \ gone : attempt'[a] = attempt[a],
         \A a \in gone : attempt[a].at # "idle" /\ attempt'[a].at = "left",
         bearer' = 0, UNCHANGED <<window, mail, rows, going>>,
         \A a \in Attempts \ gone : attempt[a].at # "ok"
  PROVE  PopupInv'
<1>1. PopupTypes' /\ Posted'
  BY DEF PopupInv, PopupTypes, Posted
<1>2. Received'
  BY SignInAssumption DEF PopupInv, Received
<1>3. ASSUME NEW a \in Attempts, attempt'[a].solo PROVE Alone(a)' /\ Honoured(a)'
  <2>1. CASE a \in gone
    BY <2>1 DEF Alone, Honoured, Under
  <2>2. CASE a \notin gone
    <3>1. attempt'[a] = attempt[a] /\ Alone(a) /\ Honoured(a)
      BY <1>3, <2>2 DEF PopupInv, Undisturbed
    <3>2. \A b \in Attempts : Under(b)' => Under(b)
      BY DEF Under
    <3>3. Alone(a)'
      BY <3>1, <3>2 DEF Alone, Under
    <3>4. Honoured(a)'
      BY <2>2, <3>1 DEF Honoured
    <3>5. QED
      BY <3>3, <3>4
  <2>3. QED
    BY <2>1, <2>2
<1>4. QED
  BY <1>1, <1>2, <1>3 DEF PopupInv, Undisturbed

\* The click: a new attempt, which disturbs those under way.
LEMMA ClickSteps ==
  ASSUME PopupInv, NEW a \in Attempts, signIn(a)
  PROVE  PopupInv'
<1> DEFINE alone == mail = {} /\ \A b \in Attempts : ~Under(b) /\ window[b] # "open"
<1>1. PICK w \in {"open", "blocked"} : window' = [window EXCEPT ![a] = w]
  BY DEF signIn
<1>2. /\ attempt[a].at = "idle" /\ bearer \notin rows /\ ~leaving
      /\ UNCHANGED <<mail, bearer, rows, leaving>>
      /\ going' \subseteq going \cup {bearer}
  BY DEF signIn, Shown
<1>3. /\ attempt' \in [Attempts -> Progress]
      /\ attempt'[a].at \in {"clearing", "waiting", "failed"}
      /\ attempt'[a].at = "failed" => w = "blocked"
      /\ attempt'[a].solo <=> alone
      /\ ~attempt'[a].early
      /\ \A b \in Attempts \ {a} :
           /\ attempt'[b].at = attempt[b].at
           /\ attempt'[b].early <=> attempt[b].early
           /\ attempt'[b].solo => attempt[b].solo /\ ~Under(b)
  <2> DEFINE new == [Fresh EXCEPT !.at = "clearing", !.solo = alone]
             started == [b \in Attempts |->
                           IF b = a THEN new
                           ELSE IF Under(b) THEN [attempt[b] EXCEPT !.solo = FALSE]
                           ELSE attempt[b]]
             at == IF window'[a] = "blocked" THEN "failed" ELSE "waiting"
  <2>1. attempt \in [Attempts -> Progress] /\ window'[a] = w
    BY <1>1 DEF PopupInv, PopupTypes
  <2>2. new \in Progress /\ new.at = "clearing" /\ (new.solo <=> alone) /\ ~new.early
    <3>2. alone \in BOOLEAN
      OBVIOUS
    <3> HIDE DEF alone
    <3>1. Fresh \in Progress
      BY DEF Fresh, Progress
    <3>3. ~Fresh.early
      BY DEF Fresh
    <3>4. QED
      BY <3>1, <3>2, <3>3 DEF Progress
  <2>3. \A b \in Attempts : /\ [attempt[b] EXCEPT !.solo = FALSE] \in Progress
                            /\ [attempt[b] EXCEPT !.solo = FALSE].at = attempt[b].at
                            /\ [attempt[b] EXCEPT !.solo = FALSE].early <=> attempt[b].early
                            /\ ~[attempt[b] EXCEPT !.solo = FALSE].solo
    BY <2>1 DEF Progress
  <2> HIDE DEF new
  <2>4. started \in [Attempts -> Progress] /\ started[a] = new
    BY <2>1, <2>2, <2>3
  <2>5. \A b \in Attempts \ {a} :
          /\ started[b].at = attempt[b].at
          /\ started[b].early <=> attempt[b].early
          /\ started[b].solo => attempt[b].solo /\ ~Under(b)
    BY <2>1, <2>3
  <2>6. attempt' = started \/ attempt' = [started EXCEPT ![a].at = at]
    BY DEF signIn, new
  <2> HIDE DEF started
  <2>7. CASE attempt' = started
    BY <2>2, <2>4, <2>5, <2>7
  <2>8. CASE attempt' = [started EXCEPT ![a].at = at]
    <3>1. [new EXCEPT !.at = at] \in Progress /\ [new EXCEPT !.at = at].at = at
          /\ ([new EXCEPT !.at = at].solo <=> alone) /\ ~[new EXCEPT !.at = at].early
      BY <2>2 DEF Progress
    <3>2. attempt' = [started EXCEPT ![a] = [new EXCEPT !.at = at]]
      BY <2>4, <2>8
    <3>3. attempt' \in [Attempts -> Progress] /\ attempt'[a] = [new EXCEPT !.at = at]
          /\ \A b \in Attempts \ {a} : attempt'[b] = started[b]
      BY <2>4, <3>1, <3>2
    <3>4. at \in {"failed", "waiting"} /\ (at = "failed" => w = "blocked")
      BY <2>1
    <3>5. QED
      BY <2>5, <3>1, <3>3, <3>4
  <2>9. QED
    BY <2>6, <2>7, <2>8
<1> HIDE DEF alone
<1>4. /\ window'[a] = w /\ window[a] = "none"
      /\ \A b \in Attempts \ {a} : window'[b] = window[b]
  BY <1>1, <1>2 DEF PopupInv, PopupTypes
<1>5. PopupTypes'
  BY <1>1, <1>2, <1>3, <1>4 DEF PopupInv, PopupTypes
<1>6. Posted'
  BY <1>2, <1>4 DEF PopupInv, Posted
<1>7. Received'
  BY <1>2, <1>4 DEF PopupInv, Received
<1>8. ASSUME NEW b \in Attempts, attempt'[b].solo PROVE Alone(b)' /\ Honoured(b)'
  <2>1. CASE b = a
    <3>1. alone
      BY <1>3, <1>8, <2>1
    <3>2. Alone(b)'
      BY <1>2, <1>3, <1>4, <2>1, <3>1 DEF Alone, alone, Under
    <3>3. Honoured(b)'
      BY <1>3, <1>4, <2>1 DEF Honoured
    <3>4. QED
      BY <3>2, <3>3
  <2>2. CASE b # a
    <3>1. Honoured(b) /\ ~Under(b) /\ ~Under(b)'
      BY <1>3, <1>8, <2>2 DEF PopupInv, Undisturbed, Under
    <3>2. attempt'[b].at = attempt[b].at /\ window'[b] = window[b]
          /\ (attempt'[b].early <=> attempt[b].early)
      BY <1>3, <1>4, <2>2
    <3>3. attempt'[a].at # "idle"
      BY <1>3
    <3>4. Honoured(b)'
      BY <1>2, <2>2, <3>1, <3>2, <3>3 DEF Honoured
    <3>5. QED
      BY <3>1, <3>4 DEF Alone
  <2>3. QED
    BY <2>1, <2>2
<1>9. QED
  BY <1>5, <1>6, <1>7, <1>8 DEF PopupInv, Undisturbed

\* The earlier session is given up.
LEMMA ClearSteps ==
  ASSUME PopupInv, NEW a \in Attempts, runPreSignInSignOut(a)
  PROVE  PopupInv'
<1> DEFINE at == IF window[a] = "blocked" THEN "failed" ELSE "waiting"
<1>1. /\ attempt[a].at = "clearing" /\ bearer' = 0
      /\ attempt' = [attempt EXCEPT ![a].at = at]
      /\ UNCHANGED <<window, mail, rows, going, leaving>>
  BY DEF runPreSignInSignOut, PriorDropped
<1>2. /\ attempt' \in [Attempts -> Progress] /\ attempt'[a].at = at
      /\ (attempt'[a].solo <=> attempt[a].solo) /\ (attempt'[a].early <=> attempt[a].early)
      /\ \A b \in Attempts \ {a} : attempt'[b] = attempt[b]
  <2>1. attempt \in [Attempts -> Progress]
    BY DEF PopupInv, PopupTypes
  <2>2. [attempt[a] EXCEPT !.at = at] \in Progress
    BY <2>1 DEF Progress
  <2>3. attempt' = [attempt EXCEPT ![a] = [attempt[a] EXCEPT !.at = at]]
    BY <1>1, <2>1
  <2>4. QED
    BY <2>1, <2>2, <2>3 DEF Progress
<1>3. PopupTypes' /\ Posted'
  BY <1>1, <1>2 DEF PopupInv, PopupTypes, Posted
<1>4. Received'
  BY <1>1, SignInAssumption DEF PopupInv, Received
<1>5. ASSUME NEW b \in Attempts, attempt'[b].solo PROVE Alone(b)' /\ Honoured(b)'
  <2>1. Alone(b) /\ Honoured(b)
    BY <1>2, <1>5 DEF PopupInv, Undisturbed
  <2>2. \A d \in Attempts : Under(d)' => Under(d)
    BY <1>1, <1>2 DEF Under
  <2>3. CASE b = a
    BY <1>1, <1>2, <2>1, <2>2, <2>3 DEF Alone, Honoured, Under
  <2>4. CASE b # a
    <3>1. Alone(b)'
      BY <1>1, <1>2, <2>1, <2>2, <2>4 DEF Alone, Under
    <3>2. attempt'[a].at # "idle" /\ attempt'[b] = attempt[b]
      BY <1>2, <2>4
    <3>3. Honoured(b)'
      BY <1>1, <2>1, <2>4, <3>2, SignInAssumption DEF Honoured
    <3>4. QED
      BY <3>1, <3>3
  <2>5. QED
    BY <2>3, <2>4
<1>6. QED
  BY <1>3, <1>4, <1>5 DEF PopupInv, Undisturbed

\* The popup is finished, one way or another.
LEMMA PopupSteps ==
  ASSUME PopupInv, NEW a \in Attempts, handleAuthPopupRequest(a)
  PROVE  PopupInv'
<1>1. PICK w \in {"completed", "errored", "dismissed"} :
        /\ window' = [window EXCEPT ![a] = w]
        /\ mail' = CASE w = "completed" -> mail \cup {Token(a)}
                     [] w = "errored" -> mail \cup {Failure(a)}
                     [] w = "dismissed" -> mail
        /\ rows' = IF w = "completed" THEN rows \cup {a} ELSE rows
  BY DEF handleAuthPopupRequest, Token, Failure
<1>2. /\ window[a] = "open" /\ UNCHANGED <<bearer, going, leaving>>
      /\ attempt' = [attempt EXCEPT ![a].early = attempt[a].at = "clearing"]
  BY DEF handleAuthPopupRequest
<1>3. /\ attempt' \in [Attempts -> Progress]
      /\ \A b \in Attempts : /\ attempt'[b].at = attempt[b].at
                             /\ attempt'[b].solo <=> attempt[b].solo
                             /\ b # a => attempt'[b] = attempt[b]
      /\ attempt'[a].early <=> attempt[a].at = "clearing"
  <2> DEFINE early == attempt[a].at = "clearing"
  <2>1. attempt \in [Attempts -> Progress] /\ early \in BOOLEAN
    BY DEF PopupInv, PopupTypes
  <2>2. attempt' = [attempt EXCEPT ![a] = [attempt[a] EXCEPT !.early = early]]
    BY <1>2, <2>1
  <2>3. (attempt[a].at = "clearing") <=> early
    OBVIOUS
  <2> HIDE DEF early
  <2>4. /\ [attempt[a] EXCEPT !.early = early] \in Progress
        /\ [attempt[a] EXCEPT !.early = early].at = attempt[a].at
        /\ [attempt[a] EXCEPT !.early = early].solo <=> attempt[a].solo
        /\ [attempt[a] EXCEPT !.early = early].early <=> early
    BY <2>1 DEF Progress
  <2>5. QED
    BY <2>1, <2>2, <2>3, <2>4
<1>4. /\ window'[a] = w /\ \A b \in Attempts \ {a} : window'[b] = window[b]
      /\ mail \subseteq mail' /\ mail' \subseteq mail \cup {Token(a), Failure(a)}
      /\ (Token(a) \in mail' \ mail => w = "completed") /\ (Failure(a) \in mail' \ mail => w = "errored")
      /\ (w = "completed" => Token(a) \in mail')
      /\ rows \subseteq rows' /\ (w = "completed" => a \in rows')
  BY <1>1, MessageFacts DEF PopupInv, PopupTypes
<1>5. PopupTypes'
  BY <1>1, <1>2, <1>3, <1>4 DEF PopupInv, PopupTypes
<1>6. \A m \in mail : m # Token(a) /\ m # Failure(a)
  BY <1>2, MessageFacts DEF PopupInv, Posted
<1>7. Posted'
  <2> SUFFICES ASSUME NEW m \in mail'
               PROVE  \E b \in Attempts : \/ window'[b] = "completed" /\ m = Token(b) /\ b \in rows'
                                          \/ window'[b] = "errored" /\ m = Failure(b)
    BY DEF Posted
  <2>1. CASE m \in mail
    <3>1. PICK b \in Attempts : \/ window[b] = "completed" /\ m = Token(b) /\ b \in rows
                                \/ window[b] = "errored" /\ m = Failure(b)
      BY <2>1 DEF PopupInv, Posted
    <3>2. b # a
      BY <1>2, <3>1
    <3>3. QED
      BY <1>4, <3>1, <3>2
  <2>2. CASE m \notin mail
    BY <1>4, <2>2
  <2>3. QED
    BY <2>1, <2>2
<1>8. Received'
  <2> SUFFICES ASSUME NEW b \in Attempts, b \in going \cup {bearer}
               PROVE  window'[b] = "completed" /\ Token(b) \notin mail'
    BY <1>2 DEF Received
  <2>1. window[b] = "completed" /\ Token(b) \notin mail
    BY DEF PopupInv, Received
  <2>2. b # a
    BY <1>2, <2>1
  <2>3. QED
    BY <1>4, <2>1, <2>2, MessageFacts
<1>9. ASSUME NEW b \in Attempts, attempt'[b].solo PROVE Alone(b)' /\ Honoured(b)'
  <2>1. Alone(b) /\ Honoured(b)
    BY <1>3, <1>9 DEF PopupInv, Undisturbed
  <2>2. \A d \in Attempts : Under(d)' <=> Under(d)
    BY <1>3 DEF Under
  <2>3. CASE b = a
    <3>1. Alone(b)'
      <4>1. ASSUME Under(b)' PROVE /\ \A d \in Attempts \ {b} : ~Under(d)' /\ window'[d] # "open"
                                   /\ \A m \in mail' : m.from = b
        BY <1>4, <2>1, <2>2, <2>3, <4>1, MessageFacts DEF Alone
      <4>2. ASSUME Under(b)', ~attempt'[b].early, window'[b] = "completed"
            PROVE  attempt'[b].at = "waiting" /\ Token(b) \in mail'
        BY <1>3, <1>4, <2>3, <4>2 DEF Under
      <4>3. QED
        BY <4>1, <4>2 DEF Alone
    <3>2. attempt[b].at \notin {"ok", "failed"}
      BY <1>2, <2>1, <2>3 DEF Honoured
    <3>3. Honoured(b)'
      BY <1>3, <3>2 DEF Honoured
    <3>4. QED
      BY <3>1, <3>3
  <2>4. CASE b # a
    <3>1. ~Under(b) /\ ~Under(b)'
      BY <1>2, <2>1, <2>2, <2>4 DEF Alone
    <3>2. attempt'[b] = attempt[b] /\ window'[b] = window[b]
      BY <1>3, <1>4, <2>4
    <3>3. Honoured(b)'
      BY <1>2, <1>3, <1>4, <2>1, <3>2 DEF Honoured
    <3>4. QED
      BY <3>1, <3>3 DEF Alone
  <2>5. QED
    BY <2>3, <2>4
<1>10. QED
  BY <1>5, <1>7, <1>8, <1>9 DEF PopupInv, Undisturbed

\* A message is received by every attempt that waits.
LEMMA MessageSteps ==
  ASSUME PopupInv, NEW m \in mail, PopupMessage(m)
  PROVE  PopupInv'
<1> DEFINE at == IF m.token = 0 THEN "failed" ELSE "ok"
<1>1. /\ mail' = mail \ {m} /\ UNCHANGED <<window, rows, going, leaving>>
      /\ attempt' = [a \in Attempts |->
                       IF a \in Listening THEN [attempt[a] EXCEPT !.at = at] ELSE attempt[a]]
      /\ bearer' = IF Listening # {} /\ m.token # 0 THEN m.token ELSE bearer
  BY DEF PopupMessage
<1>2. PICK p \in Attempts : \/ window[p] = "completed" /\ m = Token(p) /\ p \in rows
                            \/ window[p] = "errored" /\ m = Failure(p)
  BY DEF PopupInv, Posted
<1>3. /\ attempt' \in [Attempts -> Progress]
      /\ \A a \in Attempts :
           /\ attempt[a].at = "waiting" =>
                /\ attempt'[a].at = at
                /\ attempt'[a].solo <=> attempt[a].solo
                /\ attempt'[a].early <=> attempt[a].early
           /\ attempt[a].at # "waiting" => attempt'[a] = attempt[a]
  <2>1. attempt \in [Attempts -> Progress]
    BY DEF PopupInv, PopupTypes
  <2>2. at \in {"failed", "ok"}
    OBVIOUS
  <2> HIDE DEF at
  <2>3. \A a \in Attempts : /\ [attempt[a] EXCEPT !.at = at] \in Progress
                            /\ [attempt[a] EXCEPT !.at = at].at = at
                            /\ [attempt[a] EXCEPT !.at = at].solo <=> attempt[a].solo
                            /\ [attempt[a] EXCEPT !.at = at].early <=> attempt[a].early
    BY <2>1, <2>2 DEF Progress
  <2>4. QED
    BY <1>1, <2>1, <2>3 DEF Listening
<1>4. m.token = 0 \/ (m.token = p /\ m = Token(p) /\ window[p] = "completed" /\ p \in rows)
  BY <1>2, MessageFacts
<1>5. PopupTypes'
  <2>1. at # "idle"
    OBVIOUS
  <2> HIDE DEF at
  <2>2. \A a \in Attempts : attempt'[a].at = "idle" <=> window'[a] = "none"
    <3>1. ASSUME NEW a \in Attempts PROVE attempt'[a].at = "idle" <=> attempt[a].at = "idle"
      <4>1. CASE attempt[a].at = "waiting"
        BY <1>3, <2>1, <4>1
      <4>2. CASE attempt[a].at # "waiting"
        BY <1>3, <4>2
      <4>3. QED
        BY <4>1, <4>2
    <3>2. window' = window
      BY <1>1
    <3>3. QED
      BY <3>1, <3>2 DEF PopupInv, PopupTypes
  <2>3. bearer' \in Attempts \cup {0, Old}
    BY <1>1, <1>4 DEF PopupInv, PopupTypes
  <2>4. QED
    BY <1>1, <1>3, <2>2, <2>3 DEF PopupInv, PopupTypes
<1>6. Posted'
  BY <1>1 DEF PopupInv, Posted
<1>7. Received'
  <2> SUFFICES ASSUME NEW b \in Attempts, b \in going \cup {bearer'}
               PROVE  window[b] = "completed" /\ Token(b) \notin mail'
    BY <1>1 DEF Received
  <2>1. CASE b \in going \cup {bearer}
    BY <1>1, <2>1 DEF PopupInv, Received
  <2>2. CASE b = m.token
    BY <1>1, <1>4, <2>2, MessageFacts
  <2>3. QED
    BY <1>1, <2>1, <2>2
<1>8. ASSUME NEW b \in Attempts, attempt'[b].solo PROVE Alone(b)' /\ Honoured(b)'
  <2>1. Alone(b) /\ Honoured(b)
    BY <1>3, <1>8 DEF PopupInv, Undisturbed
  <2>2. \A d \in Attempts : Under(d)' => Under(d) /\ attempt'[d] = attempt[d]
    BY <1>3 DEF Under
  <2>3. CASE attempt[b].at = "waiting"
    <3>1. m.from = b /\ p = b /\ Under(b)
      BY <1>2, <2>1, <2>3, MessageFacts DEF Alone, Under
    <3>2. ~Under(b)' /\ attempt'[b].at = at
      BY <1>3, <2>3 DEF Under
    <3>3. window[b] \in {"completed", "errored"} /\ b # 0
      BY <1>2, <3>1, MessageFacts
    <3>4. at = "failed" => window[b] = "errored"
      BY <1>2, <3>1, MessageFacts
    <3>5. at = "ok" => m = Token(b) /\ window[b] = "completed" /\ bearer' = b /\ b \in rows
      BY <1>1, <1>4, <2>3, <3>1 DEF Listening
    <3>6. at = "ok" => b \notin going
      BY <3>5 DEF PopupInv, Received
    <3>7. Honoured(b)'
      BY <1>1, <3>2, <3>3, <3>4, <3>5, <3>6 DEF Honoured
    <3>8. QED
      BY <3>2, <3>7 DEF Alone
  <2>4. CASE attempt[b].at # "waiting"
    <3>1. attempt'[b] = attempt[b]
      BY <1>3, <2>4
    <3>2. Alone(b)'
      <4> SUFFICES ASSUME Under(b)' PROVE Alone(b)'
        BY DEF Alone
      <4>1. Under(b)
        BY <2>2
      <4>2. ~(~attempt[b].early /\ window[b] = "completed")
        BY <2>1, <2>4, <4>1 DEF Alone
      <4>3. QED
        BY <1>1, <2>1, <2>2, <3>1, <4>1, <4>2 DEF Alone
    <3>3. Honoured(b)'
      <4>1. CASE bearer' = bearer
        <5>1. \A d \in Attempts : attempt'[d].at = "idle" => attempt[d].at = "idle"
          BY <1>3
        <5>2. QED
          BY <1>1, <2>1, <3>1, <4>1, <5>1 DEF Honoured
      <4>2. CASE bearer' # bearer
        <5>1. Listening # {} /\ bearer' = p /\ m = Token(p) /\ p \in rows
          BY <1>1, <1>4, <4>2
        <5>2. PICK d \in Attempts \ {b} : attempt[d].at = "waiting"
          BY <2>4, <5>1 DEF Listening
        <5>3. attempt'[d].at # "idle"
          BY <1>3, <5>2
        <5>4. p \notin going
          BY <5>1 DEF PopupInv, Received
        <5>5. QED
          BY <1>1, <2>1, <3>1, <5>1, <5>2, <5>3, <5>4 DEF Honoured
      <4>3. QED
        BY <4>1, <4>2
    <3>4. QED
      BY <3>2, <3>3
  <2>5. QED
    BY <2>3, <2>4
<1>9. QED
  BY <1>5, <1>6, <1>7, <1>8 DEF PopupInv, Undisturbed

\* An attempt whose popup is closed ends when no message is on its way.
LEMMA CloseSteps ==
  ASSUME PopupInv, NEW a \in Attempts, settleClosed(a)
  PROVE  PopupInv'
<1>1. /\ attempt[a].at = "waiting" /\ window[a] \in {"completed", "errored", "dismissed"}
      /\ mail = {} /\ attempt' = [attempt EXCEPT ![a].at = "failed"]
      /\ UNCHANGED <<window, mail, bearer, rows, going, leaving>>
  BY DEF settleClosed, Grace
<1>2. /\ attempt' \in [Attempts -> Progress] /\ attempt'[a].at = "failed"
      /\ (attempt'[a].solo <=> attempt[a].solo) /\ (attempt'[a].early <=> attempt[a].early)
      /\ \A b \in Attempts \ {a} : attempt'[b] = attempt[b]
  <2>1. attempt \in [Attempts -> Progress]
    BY DEF PopupInv, PopupTypes
  <2>2. [attempt[a] EXCEPT !.at = "failed"] \in Progress
    BY <2>1 DEF Progress
  <2>3. attempt' = [attempt EXCEPT ![a] = [attempt[a] EXCEPT !.at = "failed"]]
    BY <1>1, <2>1
  <2>4. QED
    BY <2>1, <2>2, <2>3 DEF Progress
<1>3. PopupTypes' /\ Posted' /\ Received'
  BY <1>1, <1>2 DEF PopupInv, PopupTypes, Posted, Received
<1>4. ASSUME NEW b \in Attempts, attempt'[b].solo PROVE Alone(b)' /\ Honoured(b)'
  <2>1. Alone(b) /\ Honoured(b)
    BY <1>2, <1>4 DEF PopupInv, Undisturbed
  <2>2. \A d \in Attempts : Under(d)' => Under(d)
    BY <1>1, <1>2 DEF Under
  <2>3. CASE b = a
    <3>1. window[a] = "completed" => attempt[a].early
      BY <1>1, <2>1, <2>3 DEF Alone, Under
    <3>2. QED
      BY <1>1, <1>2, <2>3, <3>1 DEF Alone, Honoured, Under
  <2>4. CASE b # a
    <3>1. Alone(b)'
      BY <1>1, <1>2, <2>1, <2>2, <2>4 DEF Alone
    <3>2. attempt'[a].at # "idle" /\ attempt'[b] = attempt[b]
      BY <1>2, <2>4
    <3>3. Honoured(b)'
      BY <1>1, <2>1, <2>4, <3>2 DEF Honoured
    <3>4. QED
      BY <3>1, <3>3
  <2>5. QED
    BY <2>3, <2>4
<1>5. QED
  BY <1>3, <1>4 DEF PopupInv, Undisturbed

\* An attempt that no other overlapped and whose popup completed while the page
\* listened succeeds with the session of that popup, in any number of attempts:
\* neither the closing of the popup, nor the request that ends the earlier
\* session, nor a sign-out before, takes it away.
THEOREM PopupsAreHonoured == SignSpec => []PopupHonoured
<1>1. SignInit => PopupInv
  <2> SUFFICES ASSUME SignInit PROVE PopupInv
    OBVIOUS
  <2>1. Fresh \in Progress /\ Fresh.at = "idle"
    BY DEF Fresh, Progress
  <2>2. attempt \in [Attempts -> Progress] /\ \A a \in Attempts : attempt[a].at = "idle"
    BY <2>1 DEF SignInit
  <2>3. PopupTypes /\ Posted /\ Received
    BY <2>2, SignInAssumption DEF SignInit, PopupTypes, Posted, Received
  <2>4. \A a \in Attempts : Alone(a) /\ Honoured(a)
    BY <2>2 DEF Alone, Honoured, Under
  <2>5. QED
    BY <2>3, <2>4 DEF PopupInv, Undisturbed
<1>2. ASSUME PopupInv, [SignNext]_signVars PROVE PopupInv'
  <2> USE <1>2
  <2>1. ASSUME UNCHANGED pageVars PROVE PopupInv'
    BY <2>1 DEF pageVars, PopupInv, PopupTypes, Posted, Received, Undisturbed, Alone, Honoured, Under
  <2>2. ASSUME NEW t \in going, EndsSession(t) PROVE PopupInv'
    <3>1. /\ going' = going \ {t} /\ rows' = rows \ {t}
          /\ UNCHANGED <<attempt, window, mail, bearer, leaving>>
      BY <2>2 DEF EndsSession, carried
    <3>2. PopupTypes' /\ Received'
      BY <3>1 DEF PopupInv, PopupTypes, Received
    <3>3. Posted'
      BY <3>1 DEF PopupInv, Posted, Received
    <3>4. Undisturbed'
      BY <3>1 DEF PopupInv, Undisturbed, Alone, Honoured, Under
    <3>5. QED
      BY <3>2, <3>3, <3>4 DEF PopupInv
  <2>3. ASSUME signOut PROVE PopupInv'
    <3>1. /\ leaving' /\ going' = going \cup {bearer}
          /\ UNCHANGED <<attempt, window, mail, bearer, rows>>
      BY <2>3 DEF signOut
    <3>2. PopupTypes' /\ Received' /\ Posted'
      BY <3>1 DEF PopupInv, PopupTypes, Received, Posted
    <3>3. Undisturbed'
      BY <3>1 DEF PopupInv, Undisturbed, Alone, Honoured, Under
    <3>4. QED
      BY <3>2, <3>3 DEF PopupInv
  <2>4. ASSUME runSignOut PROVE PopupInv'
    <3> DEFINE gone == {a \in Attempts : Under(a) \/ attempt[a].at = "ok"}
               left == [Fresh EXCEPT !.at = "left"]
    <3>1. /\ attempt' = [a \in Attempts |-> IF a \in gone THEN left ELSE attempt[a]]
          /\ bearer' = 0 /\ UNCHANGED <<window, mail, rows, going>>
      BY <2>4 DEF runSignOut
    <3>2. Fresh \in Progress
      BY DEF Fresh, Progress
    <3>3. left \in Progress /\ left.at = "left"
      BY <3>2 DEF Progress
    <3>4. \A a \in gone : attempt[a].at # "idle"
      BY DEF Under
    <3>5. \A a \in Attempts \ gone : attempt[a].at # "ok"
      OBVIOUS
    <3>6. gone \in SUBSET Attempts /\ attempt \in [Attempts -> Progress]
      BY DEF PopupInv, PopupTypes
    <3> HIDE DEF gone, left
    <3>7. /\ attempt' \in [Attempts -> Progress]
          /\ \A a \in Attempts \ gone : attempt'[a] = attempt[a]
          /\ \A a \in gone : attempt'[a].at = "left"
      BY <3>1, <3>3, <3>6
    <3>8. QED
      BY <3>1, <3>4, <3>5, <3>6, <3>7, EndsAttempts
  <2>5. CASE DemoNext
    BY <2>1, <2>5 DEF DemoNext, enterDemo, FirstSignIn, SignUp, SecondSignIn, Call
  <2>6. CASE UNCHANGED signVars
    BY <2>1, <2>6 DEF signVars
  <2>7. QED
    BY <2>2, <2>3, <2>4, <2>5, <2>6, ClickSteps, ClearSteps, PopupSteps, MessageSteps, CloseSteps
       DEF SignNext, PageNext
<1>3. PopupInv => PopupHonoured
  BY DEF PopupInv, Undisturbed, Honoured, PopupHonoured
<1>4. QED
  BY <1>1, <1>2, <1>3, PTL DEF SignSpec
-----------------------------------------------------------------------------
(***************************************************************************)
(* The list of leads.  As long as leads only arrive, a page that is asked  *)
(* for is the first one or has leads on it: the pager counts what was      *)
(* there, and no lead has gone since.                                      *)
(***************************************************************************)
ListTypes ==
  /\ table \in Seq(Lead)
  /\ filters \in Filters
  /\ requests \subseteq [filters : Filters, total : Nat \cup {-1}]
  /\ listing \in [Filters -> [total : Nat \cup {-1}, items : Nat, facets : SUBSET Sources]]

OnPage(f) == f.page = 1 \/ matches(f) > offset(f)

Paged ==
  /\ OnPage(filters)
  /\ \A r \in requests : OnPage(r.filters) /\ r.total <= matches(r.filters)
  /\ \A f \in Filters : /\ listing[f].total <= matches(f)
                        /\ listing[f].total > 0 => listing[f].items > 0

ListInv == ListTypes /\ (~shrunk => Paged)

\* A page of n leads more begins n leads later.
LEMMA Products ==
  ASSUME NEW p \in Nat, NEW s \in Nat \ {0}
  PROVE  p * s \in Nat /\ (p + 1) * s = p * s + s
  BY SMT

\* A page that follows within the rounded-up number of pages begins before the end.
LEMMA RoundedUp ==
  ASSUME NEW t \in Nat, NEW s \in Nat \ {0}, NEW p \in Nat, p < (t + s - 1) \div s
  PROVE  p * s < t
  BY SMT

\* A page has room, and so has the table.
LEMMA Sizes == PageSize \in Nat /\ PageSize > 0 /\ MaxLeads \in Nat /\ MaxLeads > 0
<1>1. PageSize \in Nat \ {0} /\ MaxLeads \in Nat \ {0}
  BY LeadSearchAssumption, Zenon
<1>2. QED
  BY <1>1

\* Settings are records.
LEMMA FilterFacts ==
  ASSUME NEW f \in Filters
  PROVE  /\ f.page \in 1..MaxLeads /\ f.page \in Nat /\ f.page - 1 \in Nat
         /\ f.source \in Sources \cup {Anything} /\ f.delivery_status \in {Anything, "failed"}
         /\ offset(f) \in Nat /\ (f.page = 1 => offset(f) = 0)
<1>1. /\ f.page \in 1..MaxLeads /\ f.page \in Nat /\ f.page - 1 \in Nat
      /\ f.source \in Sources \cup {Anything} /\ f.delivery_status \in {Anything, "failed"}
  <2>1. /\ f.page \in 1..MaxLeads
        /\ f.source \in Sources \cup {Anything} /\ f.delivery_status \in {Anything, "failed"}
    BY DEF Filters
  <2>2. \A i \in 1..MaxLeads : i \in Nat /\ i - 1 \in Nat
    BY Sizes
  <2>3. QED
    BY <2>1, <2>2
<1>2. (f.page - 1) * PageSize \in Nat
  BY <1>1, LeadSearchAssumption, Products
<1>3. f.page = 1 => (f.page - 1) * PageSize = 0
  <2>1. 0 * PageSize = 0
    BY Sizes
  <2>2. 1 - 1 = 0
    OBVIOUS
  <2>3. QED
    BY <2>1, <2>2, Zenon
<1>4. QED
  BY <1>1, <1>2, <1>3 DEF offset

\* What matches is counted, and does not depend on the page.
LEMMA MatchFacts ==
  ASSUME ListTypes
  PROVE  /\ \A f \in Filters : matches(f) \in Nat
         /\ \A f, g \in Filters : f.source = g.source /\ f.delivery_status = g.delivery_status
                                  => matches(f) = matches(g)
<1>1. DOMAIN table = 1..Len(table) /\ Len(table) \in Nat
  BY DEF ListTypes
<1>2. IsFiniteSet(DOMAIN table)
  BY <1>1, FS_Interval
<1>3. ASSUME NEW f \in Filters PROVE matches(f) \in Nat
  <2> DEFINE S == {i \in DOMAIN table :
                     /\ f.source \in {Anything, table[i].source}
                     /\ f.delivery_status \in {Anything, table[i].delivery_status}}
  <2>1. S \in SUBSET DOMAIN table
    OBVIOUS
  <2>2. Cardinality(S) \in Nat
    BY <1>2, <2>1, FS_Subset, FS_CardinalityType
  <2>3. QED
    BY <2>2 DEF matches
<1>4. QED
  BY <1>3 DEF matches

\* A lead that arrives takes no match away.
LEMMA ArrivalMatches ==
  ASSUME ListTypes, NEW l \in Lead, table' = Append(table, l), NEW f \in Filters
  PROVE  matches(f) <= matches(f)'
<1> DEFINE S == {i \in DOMAIN table :
                   /\ f.source \in {Anything, table[i].source}
                   /\ f.delivery_status \in {Anything, table[i].delivery_status}}
           T == {i \in DOMAIN table' :
                   /\ f.source \in {Anything, table'[i].source}
                   /\ f.delivery_status \in {Anything, table'[i].delivery_status}}
<1>1. /\ DOMAIN table = 1..Len(table) /\ DOMAIN table' = 1..(Len(table) + 1) /\ Len(table) \in Nat
      /\ \A i \in 1..Len(table) : table'[i] = table[i]
  BY DEF ListTypes
<1>2. S \subseteq T /\ T \subseteq 1..(Len(table) + 1)
  BY <1>1
<1>3. IsFiniteSet(T)
  <2>1. 1 \in Int /\ Len(table) + 1 \in Int
    BY <1>1
  <2>2. IsFiniteSet(1..(Len(table) + 1))
    BY <2>1, FS_Interval
  <2>3. QED
    BY <1>2, <2>2, FS_Subset
<1>4. Cardinality(S) <= Cardinality(T)
  BY <1>2, <1>3, FS_Subset
<1>5. QED
  BY <1>4 DEF matches

\* Other settings are shown: they are those of a page that can be asked for.
LEMMA ShowKeeps ==
  ASSUME ListInv, NEW f, Show(f), ~shrunk => OnPage(f)
  PROVE  ListInv'
<1>1. /\ f \in Filters /\ filters' = f /\ UNCHANGED <<table, listing, shrunk>>
      /\ requests' \subseteq requests \cup {[filters |-> f, total |-> -1]}
  BY DEF Show
<1>2. ListTypes'
  BY <1>1 DEF ListInv, ListTypes
<1>3. ASSUME ~shrunk PROVE Paged'
  <2>1. Paged /\ OnPage(f) /\ \A g : OnPage(g)' = OnPage(g) /\ matches(g)' = matches(g)
    BY <1>1, <1>3 DEF ListInv, OnPage, matches, offset
  <2>2. -1 <= matches(f)
    BY <1>1, MatchFacts DEF ListInv
  <2>3. ASSUME NEW r \in requests' PROVE OnPage(r.filters) /\ r.total <= matches(r.filters)
    BY <1>1, <2>1, <2>2 DEF Paged
  <2>4. QED
    BY <1>1, <2>1, <2>3 DEF Paged
<1>4. QED
  BY <1>1, <1>2, <1>3 DEF ListInv

\* The pager goes to a page that has leads, for all it knows.
LEMMA TurnKeeps ==
  ASSUME ListInv, Turn
  PROVE  ListInv'
<1> DEFINE next == [filters EXCEPT !.page = @ + 1]
           prev == [filters EXCEPT !.page = @ - 1]
           p == filters.page
<1>1. /\ filters \in Filters /\ data \in [total : Nat \cup {-1}, items : Nat, facets : SUBSET Sources]
      /\ data.total \in Nat \cup {-1} /\ data = listing[filters]
      /\ p \in Nat /\ p >= 1 /\ filters.source \in Sources \cup {Anything}
      /\ PageSize \in Nat \ {0}
  <2>1. filters \in Filters /\ data = listing[filters]
        /\ listing \in [Filters -> [total : Nat \cup {-1}, items : Nat, facets : SUBSET Sources]]
    BY DEF ListInv, ListTypes, data
  <2>2. data \in [total : Nat \cup {-1}, items : Nat, facets : SUBSET Sources]
    BY <2>1
  <2>3. p \in 1..MaxLeads /\ p \in Nat /\ filters.source \in Sources \cup {Anything}
    BY <2>1, FilterFacts
  <2>4. p >= 1
    BY <2>3, Sizes
  <2>5. QED
    BY <2>1, <2>2, <2>3, <2>4, LeadSearchAssumption
<1>2. CASE p < pages /\ Show(next)
  <2>1. next \in Filters /\ next.source = filters.source
        /\ next.delivery_status = filters.delivery_status /\ next.page = p + 1
    BY <1>1, <1>2 DEF Show, Filters
  <2>2. ASSUME ~shrunk PROVE OnPage(next)
    <3>1. ~(data.total <= PageSize)
      BY <1>1, <1>2 DEF pages
    <3>2. data.total \in Nat /\ p < (data.total + PageSize - 1) \div PageSize
      BY <1>1, <1>2, <3>1 DEF pages
    <3>3. p * PageSize < data.total
      BY <1>1, <3>2, RoundedUp
    <3>4. data.total <= matches(filters)
      BY <1>1, <2>2 DEF ListInv, Paged
    <3>5. matches(next) = matches(filters) /\ matches(filters) \in Nat
      BY <1>1, <2>1, MatchFacts DEF ListInv
    <3>6. offset(next) = p * PageSize /\ p * PageSize \in Nat
      <4>1. (p + 1) - 1 = p
        BY <1>1
      <4>2. QED
        BY <1>1, <2>1, <4>1, Products DEF offset
    <3>7. QED
      BY <3>2, <3>3, <3>4, <3>5, <3>6 DEF OnPage
  <2>3. QED
    BY <1>2, <2>2, ShowKeeps
<1>3. CASE p > 1 /\ Show(prev)
  <2>1. prev \in Filters /\ prev.source = filters.source
        /\ prev.delivery_status = filters.delivery_status /\ prev.page = p - 1
    BY <1>1, <1>3 DEF Show, Filters
  <2>2. ASSUME ~shrunk PROVE OnPage(prev)
    <3>1. matches(filters) > offset(filters)
      BY <1>3, <2>2 DEF ListInv, Paged, OnPage
    <3>2. p - 2 \in Nat /\ (p - 2) + 1 = p - 1 /\ (p - 1) - 1 = p - 2
      BY <1>1, <1>3
    <3>3. offset(filters) = (p - 2) * PageSize + PageSize /\ offset(prev) = (p - 2) * PageSize
          /\ (p - 2) * PageSize \in Nat
      BY <1>1, <2>1, <3>2, Products DEF offset
    <3>4. matches(prev) = matches(filters) /\ matches(filters) \in Nat
      BY <1>1, <2>1, MatchFacts DEF ListInv
    <3>5. QED
      BY <1>1, <3>1, <3>3, <3>4 DEF OnPage
  <2>3. QED
    BY <1>3, <2>2, ShowKeeps
<1>4. QED
  BY <1>2, <1>3 DEF Turn

\* The answer to a request for a page with leads has leads on it.
LEMMA RowsKeep ==
  ASSUME ListInv, NEW r \in requests, listLeadsRows(r)
  PROVE  ListInv'
<1> DEFINE f == r.filters
           new == [total |-> r.total, items |-> rowsOf(f), facets |-> {table[i].source : i \in DOMAIN table}]
<1>1. /\ r.total # -1 /\ requests' = requests \ {r} /\ listing' = [listing EXCEPT ![f] = new]
      /\ UNCHANGED <<table, filters, shrunk>>
  BY DEF listLeadsRows
<1>2. f \in Filters /\ r.total \in Nat
  BY <1>1 DEF ListInv, ListTypes
<1>3. /\ matches(f) \in Nat /\ offset(f) \in Nat /\ PageSize \in Nat \ {0}
      /\ (f.page = 1 => offset(f) = 0)
  BY <1>2, MatchFacts, FilterFacts, LeadSearchAssumption DEF ListInv
<1>4. rowsOf(f) \in Nat /\ (matches(f) > offset(f) => rowsOf(f) > 0)
  BY <1>3 DEF rowsOf
<1>5. {table[i].source : i \in DOMAIN table} \in SUBSET Sources
  <2>1. \A i \in DOMAIN table : table[i] \in Lead
    BY DEF ListInv, ListTypes
  <2>2. QED
    BY <2>1 DEF Lead
<1>6. new \in [total : Nat \cup {-1}, items : Nat, facets : SUBSET Sources]
      /\ new.total = r.total /\ new.items = rowsOf(f)
  BY <1>2, <1>4, <1>5
<1> HIDE DEF new
<1>7. ListTypes'
  BY <1>1, <1>2, <1>6 DEF ListInv, ListTypes
<1>8. ASSUME ~shrunk PROVE Paged'
  <2>1. Paged /\ \A g : OnPage(g)' = OnPage(g) /\ matches(g)' = matches(g)
    BY <1>1, <1>8 DEF ListInv, OnPage, matches, offset
  <2>2. OnPage(f) /\ r.total <= matches(f)
    BY <2>1 DEF Paged
  <2>3. r.total > 0 => rowsOf(f) > 0
    BY <1>2, <1>3, <1>4, <2>2 DEF OnPage
  <2>4. ASSUME NEW g \in Filters
        PROVE  listing'[g].total <= matches(g) /\ (listing'[g].total > 0 => listing'[g].items > 0)
    <3>1. CASE g = f
      BY <1>1, <1>2, <1>6, <2>2, <2>3, <3>1 DEF ListInv, ListTypes
    <3>2. CASE g # f
      <4>1. listing'[g] = listing[g]
        BY <1>1, <3>2 DEF ListInv, ListTypes
      <4>2. QED
        BY <2>1, <4>1 DEF Paged
    <3>3. QED
      BY <3>1, <3>2
  <2>5. QED
    BY <1>1, <2>1, <2>4 DEF Paged
<1>9. QED
  BY <1>1, <1>7, <1>8 DEF ListInv

\* The leads of a fresh sandbox are leads.
LEMMA SeedFacts == Seed \in Seq(Lead)
<1> DEFINE source == CHOOSE s \in Sources : TRUE
<1>1. source \in Sources
  BY LeadSearchAssumption
<1>2. Seed = <<[source |-> source, delivery_status |-> "failed"]>>
  BY DEF Seed
<1> HIDE DEF source
<1>3. [source |-> source, delivery_status |-> "failed"] \in Lead
  BY <1>1 DEF Lead
<1>4. QED
  BY <1>2, <1>3

\* Leads arrive, are delivered and are reset.
LEMMA TableKeeps ==
  ASSUME ListInv, Arrives \/ Delivered \/ Resets
  PROVE  ListInv'
<1>1. UNCHANGED <<filters, listing, requests>>
  BY DEF Arrives, Delivered, Resets
<1>2. CASE Arrives
  <2>1. PICK l \in Lead : table' = Append(table, l)
    BY <1>2 DEF Arrives
  <2>2. ListTypes' /\ shrunk' = shrunk
    BY <1>1, <1>2, <2>1 DEF ListInv, ListTypes, Arrives
  <2>3. \A f \in Filters : matches(f) <= matches(f)' /\ matches(f) \in Nat /\ matches(f)' \in Nat
    <3>1. \A f \in Filters : matches(f) \in Nat
      BY MatchFacts DEF ListInv
    <3>2. (\A f \in Filters : matches(f) \in Nat)'
      BY <2>2, MatchFacts, PTL
    <3>3. QED
      BY <2>1, <3>1, <3>2, ArrivalMatches DEF ListInv
  <2>4. ASSUME ~shrunk PROVE Paged'
    <3>1. Paged
      BY <2>4 DEF ListInv
    <3>2. \A f \in Filters : OnPage(f) => OnPage(f)'
      BY <2>3, FilterFacts DEF OnPage, offset
    <3>3. \A r \in requests : r.filters \in Filters /\ r.total \in Int
      BY DEF ListInv, ListTypes
    <3>4. \A f \in Filters : listing[f].total \in Int
      BY DEF ListInv, ListTypes
    <3>5. filters \in Filters
      BY DEF ListInv, ListTypes
    <3>6. QED
      BY <1>1, <2>3, <3>1, <3>2, <3>3, <3>4, <3>5 DEF Paged
  <2>5. QED
    BY <2>2, <2>4 DEF ListInv
<1>3. CASE Delivered
  <2>1. PICK i \in DOMAIN table : table' = [table EXCEPT ![i].delivery_status = "delivered"]
    BY <1>3 DEF Delivered
  <2>2. [table[i] EXCEPT !.delivery_status = "delivered"] \in Lead
    <3>1. table[i] \in Lead
      BY DEF ListInv, ListTypes
    <3>2. QED
      BY <3>1 DEF Lead
  <2>3. table' \in Seq(Lead)
    BY <2>1, <2>2 DEF ListInv, ListTypes
  <2>4. QED
    BY <1>1, <1>3, <2>3 DEF ListInv, ListTypes, Delivered
<1>4. CASE Resets
  <2>1. Seed \in Seq(Lead)
    BY SeedFacts
  <2>2. QED
    BY <1>1, <1>4, <2>1 DEF ListInv, ListTypes, Resets
<1>5. QED
  BY <1>2, <1>3, <1>4

(***************************************************************************)
(* The search box.  A timer is that of the text in the box; a search that  *)
(* began after the last key is for that text.                              *)
(***************************************************************************)
SearchInv ==
  /\ timers \subseteq {q}
  /\ ~late => \A a \in asking : a.q = q
  /\ ~late /\ timers = {} /\ asking = {} => hits \in {q, ""}

\* What is shown fits what was asked for, for any number of leads, words and
\* settings: the pager leads to no empty page of a list to which leads are only
\* added, and the box, at rest, shows the answer for its text.
THEOREM LeadsAreShown == LeadSpec => []LeadsShown
<1>1. ListInit => ListInv
  <2> SUFFICES ASSUME ListInit PROVE ListInv
    OBVIOUS
  <2>1. /\ INITIAL \in Filters /\ INITIAL.page = 1
        /\ Loading \in [total : Nat \cup {-1}, items : Nat, facets : SUBSET Sources]
        /\ Loading.total = -1 /\ Seed \in Seq(Lead)
    <3>1. 1 \in 1..MaxLeads
      BY Sizes
    <3>2. INITIAL \in Filters /\ INITIAL.page = 1
      BY <3>1 DEF INITIAL, Filters
    <3>3. Loading \in [total : Nat \cup {-1}, items : Nat, facets : SUBSET Sources] /\ Loading.total = -1
      BY DEF Loading
    <3>4. QED
      BY <3>2, <3>3, SeedFacts
  <2>2. ListTypes
    BY <2>1 DEF ListInit, ListTypes
  <2>3. \A f \in Filters : matches(f) \in Nat
    BY <2>2, MatchFacts
  <2>4. Paged
    BY <2>1, <2>3 DEF ListInit, Paged, OnPage
  <2>5. QED
    BY <2>2, <2>4 DEF ListInv
<1>2. ASSUME ListInv, [LeadNext]_leadVars PROVE ListInv'
  <2> USE <1>2
  <2>1. CASE UNCHANGED listVars
    BY <2>1 DEF listVars, ListInv, ListTypes, Paged, OnPage, matches, offset
  <2>2. ASSUME NEW f, f.page = 1, Show(f) PROVE ListInv'
    BY <2>2, ShowKeeps DEF OnPage
  <2>3. CASE patch
    <3>1. PICK f : Show(ToFirstPage(f)) /\ \/ \E s : f = [filters EXCEPT !.source = s]
                                           \/ \E s : f = [filters EXCEPT !.delivery_status = s]
      BY <2>3 DEF patch
    <3>2. ToFirstPage(f).page = 1
      BY <3>1 DEF ToFirstPage, ListInv, ListTypes, Filters
    <3>3. QED
      BY <2>2, <3>1, <3>2
  <2>4. CASE ResetFilters
    <3>1. INITIAL.page = 1
      BY DEF INITIAL
    <3>2. QED
      BY <2>2, <2>4, <3>1 DEF ResetFilters
  <2>5. ASSUME NEW r \in requests, listLeadsCount(r) PROVE ListInv'
    <3> DEFINE new == [r EXCEPT !.total = matches(r.filters)]
    <3>1. /\ requests' = (requests \ {r}) \cup {new}
          /\ UNCHANGED <<table, filters, listing, shrunk>>
      BY <2>5 DEF listLeadsCount
    <3>2. r.filters \in Filters /\ r \in [filters : Filters, total : Nat \cup {-1}]
      BY DEF ListInv, ListTypes
    <3>3. matches(r.filters) \in Nat
      BY <3>2, MatchFacts DEF ListInv
    <3>4. new \in [filters : Filters, total : Nat \cup {-1}] /\ new.filters = r.filters
          /\ new.total = matches(r.filters) /\ new.total <= matches(r.filters)
      BY <3>2, <3>3
    <3> HIDE DEF new
    <3>5. ListTypes'
      BY <3>1, <3>4 DEF ListInv, ListTypes
    <3>6. ASSUME ~shrunk PROVE Paged'
      <4>1. Paged /\ \A g : OnPage(g)' = OnPage(g) /\ matches(g)' = matches(g)
        BY <3>1, <3>6 DEF ListInv, OnPage, matches, offset
      <4>2. QED
        BY <3>1, <3>4, <4>1 DEF Paged
    <3>7. QED
      BY <3>1, <3>5, <3>6 DEF ListInv
  <2>6. CASE SearchNext /\ UNCHANGED listVars
    BY <2>1, <2>6
  <2>7. CASE UNCHANGED leadVars
    BY <2>1, <2>7 DEF leadVars
  <2>8. QED
    BY <2>3, <2>4, <2>5, <2>6, <2>7, TurnKeeps, RowsKeep, TableKeeps DEF LeadNext, ListNext
<1>3. SearchInit => SearchInv
  BY DEF SearchInit, SearchInv
<1>4. ASSUME SearchInv, [LeadNext]_leadVars PROVE SearchInv'
  <2>1. CASE UNCHANGED searchVars
    BY <1>4, <2>1 DEF searchVars, SearchInv
  <2>2. ASSUME NEW w, GlobalSearch(w) PROVE SearchInv'
    <3>1. timers' \subseteq {q'} /\ late' = (asking # {}) /\ asking' = asking
      BY <2>2 DEF GlobalSearch, Stopped
    <3>2. timers' = {} => hits' \in {q', ""}
      BY <2>2 DEF GlobalSearch, Stopped
    <3>3. ~late' => asking' = {}
      BY <3>1
    <3>4. ~late' => \A a \in asking' : a.q = q'
      BY <3>3
    <3>5. timers' \subseteq {q'}
      BY <3>1, Zenon
    <3>6. ~late' /\ timers' = {} /\ asking' = {} => hits' \in {q', ""}
      BY <3>2, Zenon
    <3>7. QED
      BY <3>4, <3>5, <3>6, Zenon DEF SearchInv
  <2>3. ASSUME NEW w \in timers, TimesOut(w) PROVE SearchInv'
    <3>1. /\ timers' = timers \ {w} /\ asking' = asking \cup {[q |-> w, key |-> keys]}
          /\ q' = q /\ late' = late
      BY <2>3 DEF TimesOut
    <3>2. w = q /\ timers' \subseteq {q'}
      BY <1>4, <3>1 DEF SearchInv
    <3>3. ~late => \A a \in asking : a.q = q
      BY <1>4 DEF SearchInv
    <3>4. ~late => \A a \in asking' : a.q = q'
      BY <3>1, <3>2, <3>3
    <3>5. asking' # {}
      BY <3>1
    <3>6. QED
      BY <3>1, <3>2, <3>4, <3>5, Zenon DEF SearchInv
  <2>4. ASSUME NEW a \in asking, searchLeads(a) PROVE SearchInv'
    BY <1>4, <2>4 DEF searchLeads, SearchInv
  <2>5. QED
    BY <1>4, <2>1, <2>2, <2>3, <2>4 DEF LeadNext, SearchNext, leadVars
<1>5. ListInv /\ SearchInv => LeadsShown
  <2>1. ASSUME ListInv, ~shrunk, data.total > 0 PROVE data.items > 0
    BY <2>1 DEF ListInv, ListTypes, Paged, data
  <2>2. QED
    BY <2>1 DEF SearchInv, LeadsShown
<1>6. QED
  BY <1>1, <1>2, <1>3, <1>4, <1>5, PTL DEF LeadSpec
(***************************************************************************)
(* The preview tool.  A run that nobody overlaps has looked at every       *)
(* server that is up, because at its start each one had the port or its    *)
(* pid in the file; from then on only the run itself starts another.       *)
(***************************************************************************)
ProcessState == [is : {"starting", "bound", "dead", "other"}, build : Nat]
RunState ==
  [at : {"look", "terminate", "check", "free", "wait"}, action : {"stop", "restart"},
   alone : BOOLEAN, owners : SUBSET Nat, child : Nat, build : Nat, then : {"free", "fail"}]
ToolState == {Over(how) : how \in {"idle", "ok", "failed", "killed"}} \cup RunState
PreviewTypes ==
  /\ build \in Nat /\ pidFile \in Nat /\ toolFaults \in Nat
  /\ process \in Seq(ProcessState)
  /\ tool \in [Runs -> ToolState]

ByItself(t) == Running(t) /\ tool[t].alone
NoOverlap == \A t, u \in Runs : ByItself(t) /\ Running(u) => t = u
Knows(t) ==
  /\ tool[t].build = build
  /\ tool[t].at = "look" => Up \subseteq portOwners \cup {pidFile}
  /\ tool[t].at \in {"terminate", "check"} => Up \subseteq tool[t].owners
  /\ tool[t].at = "free" => Up = {}
  /\ tool[t].at \in {"free", "wait"} => tool[t].action = "restart"
  /\ tool[t].at = "wait" => /\ Up \subseteq {tool[t].child} /\ tool[t].child = pidFile
                            /\ tool[t].child \in Pids /\ process[tool[t].child].build = build
PreviewInv ==
  PreviewTypes /\ NoOverlap /\ \A t \in Runs : ByItself(t) => Knows(t)

\* Processes are numbered from 1.
LEMMA ProcessesHaveState ==
  ASSUME PreviewTypes
  PROVE  /\ Pids = 1..Len(process) /\ Len(process) \in Nat
         /\ process \in [1..Len(process) -> ProcessState]
         /\ \A p \in Pids : process[p] \in ProcessState
  BY DEF PreviewTypes, Pids

\* A run that is under way has all its fields.
LEMMA RunsHaveState ==
  ASSUME PreviewTypes, NEW t \in Runs
  PROVE  /\ Running(t) <=> tool[t].at \in {"look", "terminate", "check", "free", "wait"}
         /\ Running(t) => tool[t] \in RunState
         /\ ~Running(t) => \E how \in {"idle", "ok", "failed", "killed"} : tool[t] = Over(how)
<1>1. tool[t] \in ToolState
  BY DEF PreviewTypes
<1>2. CASE \E how \in {"idle", "ok", "failed", "killed"} : tool[t] = Over(how)
  BY <1>2 DEF Running, Over
<1>3. CASE tool[t] \in RunState
  BY <1>3 DEF Running, RunState
<1>4. QED
  BY <1>1, <1>2, <1>3 DEF ToolState

\* A step of one run concerns that run alone.
LEMMA OneRunMoves ==
  ASSUME PreviewInv, NEW t \in Runs, Running(t), PreviewTypes',
         \A u \in Runs \ {t} : tool'[u] = tool[u],
         Running(t)' => tool'[t].alone = tool[t].alone,
         ByItself(t) /\ Running(t)' => Knows(t)'
  PROVE  PreviewInv'
<1>1. \A u \in Runs \ {t} : (Running(u)' <=> Running(u)) /\ (ByItself(u)' <=> ByItself(u))
  BY DEF Running, ByItself
<1>2. \A u \in Runs \ {t} : ~ByItself(u)
  BY DEF PreviewInv, NoOverlap
<1>3. ByItself(t)' => ByItself(t)
  BY DEF ByItself
<1>4. NoOverlap'
  BY <1>1, <1>2, <1>3 DEF NoOverlap, PreviewInv
<1>5. \A u \in Runs : ByItself(u)' => Knows(u)'
  BY <1>1, <1>2, <1>3 DEF ByItself
<1>6. QED
  BY <1>4, <1>5 DEF PreviewInv

\* What looks like a preview and is not known does not exist when a run begins alone.
LEMMA BeginKeeps ==
  ASSUME PreviewInv, NEW t \in Runs, NEW action \in {"stop", "restart"}, Begin(t, action)
  PROVE  PreviewInv'
<1> DEFINE alone == (\A u \in Runs : ~Running(u)) /\ Up \subseteq portOwners \cup {pidFile}
           begun == [at |-> "look", action |-> action, alone |-> alone, owners |-> {},
                     child |-> 0, build |-> build, then |-> "free"]
<1>1. /\ ~Running(t) /\ UNCHANGED <<build, process, pidFile, toolFaults>>
      /\ tool' = [u \in Runs |-> IF u = t THEN begun
                    ELSE IF Running(u) THEN [tool[u] EXCEPT !.alone = FALSE] ELSE tool[u]]
  BY DEF Begin
<1>2. PreviewTypes
  BY DEF PreviewInv
<1>3. alone \in BOOLEAN /\ begun \in ToolState /\ begun.at = "look" /\ begun.alone = alone
      /\ begun.build = build
  BY <1>2 DEF ToolState, RunState, PreviewTypes
<1>4. ASSUME NEW u \in Runs \ {t}
      PROVE  tool'[u] \in ToolState /\ ~ByItself(u)' /\ (Running(u)' <=> Running(u))
  <2>1. CASE Running(u)
    <3>1. tool'[u] = [tool[u] EXCEPT !.alone = FALSE]
      BY <1>1, <2>1
    <3>2. tool'[u] \in ToolState /\ tool'[u].alone = FALSE /\ tool'[u].at = tool[u].at
      BY <1>2, <2>1, <3>1, RunsHaveState DEF ToolState, RunState
    <3>3. QED
      BY <2>1, <3>2 DEF ByItself, Running
  <2>2. CASE ~Running(u)
    <3>1. tool'[u] = tool[u] /\ tool[u] \in ToolState
      BY <1>1, <1>2, <2>2 DEF PreviewTypes
    <3>2. QED
      BY <2>2, <3>1 DEF ByItself, Running
  <2>3. QED
    BY <2>1, <2>2
<1>5. PreviewTypes'
  <2>1. tool' \in [Runs -> ToolState]
    BY <1>1, <1>3, <1>4
  <2>2. QED
    BY <1>1, <1>2, <2>1 DEF PreviewTypes
<1>6. tool'[t] = begun
  BY <1>1
<1>7. Up' = Up /\ portOwners' = portOwners /\ Pids' = Pids
  BY <1>1 DEF Up, portOwners, Pids
<1>8. ByItself(t)' => Knows(t)'
  BY <1>1, <1>3, <1>6, <1>7 DEF ByItself, Knows
<1>9. NoOverlap'
  <2>1. ASSUME ByItself(t)', NEW u \in Runs, Running(u)' PROVE t = u
    BY <1>3, <1>4, <1>6, <2>1 DEF ByItself
  <2>2. QED
    BY <1>4, <2>1 DEF NoOverlap
<1>10. QED
  BY <1>4, <1>5, <1>8, <1>9 DEF PreviewInv

\* The listener is one of the servers that are up.
LEMMA ServersUp ==
  ASSUME PreviewTypes
  PROVE  /\ portOwners \subseteq Up /\ Up \subseteq Pids /\ Pids \subseteq Nat /\ 0 \notin Pids
         /\ previewOwners \subseteq Nat /\ (Up \subseteq portOwners \cup {pidFile} => Up \subseteq previewOwners)
<1>1. Pids = 1..Len(process) /\ Len(process) \in Nat
  BY DEF PreviewTypes, Pids
<1>2. portOwners \subseteq Up /\ Up \subseteq Pids /\ Pids \subseteq Nat /\ 0 \notin Pids
  BY <1>1 DEF portOwners, Up
<1>3. QED
  BY <1>2 DEF previewOwners, looksLikePreviewProcess, PreviewTypes

LEMMA LookKeeps ==
  ASSUME PreviewInv, NEW t \in Runs, Look(t)
  PROVE  PreviewInv'
<1>1. /\ tool[t].at = "look" /\ UNCHANGED <<build, process, pidFile, toolFaults>>
      /\ tool' = [tool EXCEPT ![t].at = "terminate", ![t].owners = previewOwners]
  BY DEF Look
<1>2. PreviewTypes /\ Running(t)
  BY <1>1 DEF PreviewInv, Running
<1>3. previewOwners \in SUBSET Nat /\ (Up \subseteq portOwners \cup {pidFile} => Up \subseteq previewOwners)
  BY <1>2, ServersUp
<1>4. /\ tool'[t].at = "terminate" /\ tool'[t].owners = previewOwners
      /\ tool'[t].alone = tool[t].alone /\ tool'[t].build = tool[t].build
      /\ tool' \in [Runs -> ToolState] /\ \A u \in Runs \ {t} : tool'[u] = tool[u]
  <2>1. /\ tool' = [tool EXCEPT ![t] = [tool[t] EXCEPT !.at = "terminate", !.owners = previewOwners]]
        /\ tool[t] \in RunState
    BY <1>1, <1>2, RunsHaveState DEF PreviewTypes
  <2>2. QED
    BY <1>2, <1>3, <2>1 DEF PreviewTypes, ToolState, RunState
<1>5. PreviewTypes'
  BY <1>1, <1>2, <1>4 DEF PreviewTypes
<1>6. Up' = Up
  BY <1>1 DEF Up, Pids
<1>7. ByItself(t) => Knows(t)'
  BY <1>1, <1>3, <1>4, <1>6 DEF PreviewInv, Knows
<1>8. QED
  BY <1>2, <1>4, <1>5, <1>7, OneRunMoves

\* Who outlives the signals is one of those that were found.
LEMMA TerminateKeeps ==
  ASSUME PreviewInv, NEW t \in Runs, terminatePids(t)
  PROVE  PreviewInv'
<1>1. PICK stubborn \in SUBSET (tool[t].owners \cap Up) :
        /\ process' = [p \in Pids |-> IF p \in (tool[t].owners \cap Up) \ stubborn
                                      THEN [process[p] EXCEPT !.is = "dead"] ELSE process[p]]
        /\ tool' = [tool EXCEPT ![t].at = "check", ![t].owners = stubborn]
        /\ tool[t].at = "terminate" /\ UNCHANGED <<build, pidFile>>
        /\ toolFaults' \in {toolFaults, toolFaults + 1}
  BY DEF terminatePids
<1>2. PreviewTypes /\ Running(t)
  BY <1>1 DEF PreviewInv, Running
<1>3. Pids = 1..Len(process) /\ Len(process) \in Nat /\ stubborn \in SUBSET Nat
      /\ \A p \in Pids : process[p] \in ProcessState
  BY <1>1, <1>2, ServersUp, ProcessesHaveState
<1>4. /\ process' \in Seq(ProcessState)
      /\ Up' \subseteq Up \ ((tool[t].owners \cap Up) \ stubborn)
  <2>1. \A p \in Pids : /\ process'[p] \in ProcessState
                        /\ p \in (tool[t].owners \cap Up) \ stubborn => process'[p].is = "dead"
                        /\ p \notin (tool[t].owners \cap Up) \ stubborn => process'[p] = process[p]
    BY <1>1, <1>3 DEF ProcessState
  <2>2. Pids' = Pids
    BY <1>1 DEF Pids
  <2>3. process' \in [1..Len(process) -> ProcessState]
    BY <1>1, <1>3, <2>1
  <2>4. process' \in Seq(ProcessState)
    BY <1>3, <2>3
  <2>5. \A p \in Up' : p \in Up /\ p \notin (tool[t].owners \cap Up) \ stubborn
    BY <2>1, <2>2 DEF Up
  <2>6. QED
    BY <2>4, <2>5
<1>5. /\ tool'[t].at = "check" /\ tool'[t].owners = stubborn
      /\ tool'[t].alone = tool[t].alone /\ tool'[t].build = tool[t].build
      /\ tool' \in [Runs -> ToolState] /\ \A u \in Runs \ {t} : tool'[u] = tool[u]
  <2>1. /\ tool' = [tool EXCEPT ![t] = [tool[t] EXCEPT !.at = "check", !.owners = stubborn]]
        /\ tool[t] \in RunState
    BY <1>1, <1>2, RunsHaveState DEF PreviewTypes
  <2>2. QED
    BY <1>2, <1>3, <2>1 DEF PreviewTypes, ToolState, RunState
<1>6. PreviewTypes'
  BY <1>1, <1>2, <1>4, <1>5 DEF PreviewTypes
<1>7. ByItself(t) => Knows(t)'
  BY <1>1, <1>4, <1>5 DEF PreviewInv, Knows
<1>8. QED
  BY <1>2, <1>5, <1>6, <1>7, OneRunMoves

\* A restart goes on when nothing is up.
LEMMA OutcomeKeeps ==
  ASSUME PreviewInv, NEW t \in Runs, stopOutcome(t)
  PROVE  PreviewInv'
<1>1. /\ tool[t].at = "check" /\ UNCHANGED <<build, process, toolFaults>>
      /\ pidFile' \in {pidFile, 0}
  BY DEF stopOutcome
<1>2. PreviewTypes /\ Running(t)
  BY <1>1 DEF PreviewInv, Running
<1>3. Up' = Up
  BY <1>1 DEF Up, Pids
<1>4. CASE \E how \in {"ok", "failed"} : tool' = [tool EXCEPT ![t] = Over(how)]
  <2>1. /\ tool' \in [Runs -> ToolState] /\ ~Running(t)' /\ \A u \in Runs \ {t} : tool'[u] = tool[u]
    BY <1>2, <1>4 DEF PreviewTypes, ToolState, Over, Running
  <2>2. PreviewTypes'
    BY <1>1, <1>2, <2>1 DEF PreviewTypes
  <2>3. QED
    BY <1>2, <2>1, <2>2, OneRunMoves
<1>5. CASE /\ (tool[t].owners \cap Up) \cup portOwners = {} /\ tool[t].action = "restart"
           /\ tool' = [tool EXCEPT ![t] = [tool[t] EXCEPT !.at = "free"]]
  <2>1. /\ tool'[t].at = "free" /\ tool'[t].action = "restart" /\ tool'[t].alone = tool[t].alone
        /\ tool'[t].build = tool[t].build
        /\ tool' \in [Runs -> ToolState] /\ \A u \in Runs \ {t} : tool'[u] = tool[u]
    BY <1>2, <1>5, RunsHaveState DEF PreviewTypes, ToolState, RunState
  <2>2. PreviewTypes'
    BY <1>1, <1>2, <2>1 DEF PreviewTypes
  <2>3. ByItself(t) => Knows(t)'
    BY <1>1, <1>3, <1>5, <2>1 DEF PreviewInv, Knows
  <2>4. QED
    BY <1>2, <2>1, <2>2, <2>3, OneRunMoves
<1>6. QED
  BY <1>4, <1>5 DEF stopOutcome

\* The new child is all there is.
LEMMA SpawnKeeps ==
  ASSUME PreviewInv, NEW t \in Runs, Spawn(t)
  PROVE  PreviewInv'
<1> DEFINE n == Len(process) + 1
<1>1. /\ tool[t].at = "free" /\ UNCHANGED <<build, toolFaults>>
      /\ process' = Append(process, [is |-> "starting", build |-> build])
      /\ pidFile' = Len(process')
      /\ tool' = [tool EXCEPT ![t].at = "wait", ![t].child = Len(process')]
  BY DEF Spawn
<1>2. PreviewTypes /\ Running(t)
  BY <1>1 DEF PreviewInv, Running
<1>3. /\ process' \in Seq(ProcessState)
      /\ Len(process') = n /\ n \in Nat /\ Pids' = Pids \cup {n} /\ n \notin Pids
      /\ process'[n] = [is |-> "starting", build |-> build]
      /\ \A p \in Pids : process'[p] = process[p]
  <2>1. Pids = 1..Len(process) /\ Len(process) \in Nat
    BY <1>2, ProcessesHaveState
  <2>2. [is |-> "starting", build |-> build] \in ProcessState /\ process \in Seq(ProcessState)
    BY <1>2 DEF PreviewTypes, ProcessState
  <2>3. /\ process' \in Seq(ProcessState) /\ Len(process') = n
        /\ process'[n] = [is |-> "starting", build |-> build]
        /\ \A p \in 1..Len(process) : process'[p] = process[p]
    BY <1>1, <2>1, <2>2
  <2>4. Pids' = 1..n
    BY <2>3 DEF Pids
  <2>5. QED
    BY <2>1, <2>3, <2>4
<1>4. Up' \subseteq Up \cup {n}
  BY <1>3 DEF Up
<1>5. /\ tool'[t].at = "wait" /\ tool'[t].child = n /\ tool'[t].alone = tool[t].alone
      /\ tool'[t].build = tool[t].build /\ tool'[t].action = tool[t].action
      /\ tool' \in [Runs -> ToolState] /\ \A u \in Runs \ {t} : tool'[u] = tool[u]
  <2>1. tool' = [tool EXCEPT ![t] = [tool[t] EXCEPT !.at = "wait", !.child = n]] /\ tool[t] \in RunState
    BY <1>1, <1>2, <1>3, RunsHaveState DEF PreviewTypes
  <2>2. QED
    BY <1>2, <1>3, <2>1 DEF PreviewTypes, ToolState, RunState
<1>6. PreviewTypes'
  BY <1>1, <1>2, <1>3, <1>5 DEF PreviewTypes
<1>7. ByItself(t) => Knows(t)'
  BY <1>1, <1>3, <1>4, <1>5 DEF PreviewInv, Knows
<1>8. QED
  BY <1>2, <1>5, <1>6, <1>7, OneRunMoves

\* A restart that gives up looks for its child in the file.
LEMMA ReadyKeeps ==
  ASSUME PreviewInv, NEW t \in Runs, waitForReady(t)
  PROVE  PreviewInv'
<1>1. tool[t].at = "wait" /\ UNCHANGED <<build, process, pidFile, toolFaults>>
  BY DEF waitForReady
<1>2. PreviewTypes /\ Running(t)
  BY <1>1 DEF PreviewInv, Running
<1>3. Up' = Up /\ portOwners' = portOwners
  BY <1>1 DEF Up, portOwners, Pids
<1>4. CASE tool' = [tool EXCEPT ![t] = Over("ok")]
  <2>1. /\ tool' \in [Runs -> ToolState] /\ ~Running(t)' /\ \A u \in Runs \ {t} : tool'[u] = tool[u]
    BY <1>2, <1>4 DEF PreviewTypes, ToolState, Over, Running
  <2>2. PreviewTypes'
    BY <1>1, <1>2, <2>1 DEF PreviewTypes
  <2>3. QED
    BY <1>2, <2>1, <2>2, OneRunMoves
<1>5. CASE tool' = AfterFailure(t)
  <2>1. /\ tool'[t].at = "look" /\ tool'[t].alone = tool[t].alone /\ tool'[t].build = tool[t].build
        /\ tool' \in [Runs -> ToolState] /\ \A u \in Runs \ {t} : tool'[u] = tool[u]
    <3>1. /\ tool' = [tool EXCEPT ![t] = [tool[t] EXCEPT !.at = "look", !.then = "fail"]]
          /\ tool[t] \in RunState
      BY <1>2, <1>5, RunsHaveState DEF AfterFailure, PreviewTypes
    <3>2. QED
      BY <1>2, <3>1 DEF PreviewTypes, ToolState, RunState
  <2>2. PreviewTypes'
    BY <1>1, <1>2, <2>1 DEF PreviewTypes
  <2>3. ByItself(t) => Knows(t)'
    BY <1>1, <1>3, <2>1 DEF PreviewInv, Knows
  <2>4. QED
    BY <1>2, <2>1, <2>2, <2>3, OneRunMoves
<1>6. QED
  BY <1>4, <1>5 DEF waitForReady

\* A server that binds or exits, or a pid that is used again, tells no run anything new.
LEMMA ServersMove ==
  ASSUME PreviewInv, NEW p \in Pids, NEW is \in {"bound", "dead", "other"},
         process' = [process EXCEPT ![p].is = is],
         is = "bound" => process[p].is = "starting",
         process[p].is \in {"starting", "dead"},
         UNCHANGED <<build, pidFile, tool>>, toolFaults' \in Nat
  PROVE  PreviewInv'
<1>1. PreviewTypes /\ Pids = 1..Len(process) /\ Len(process) \in Nat
  BY DEF PreviewInv, PreviewTypes, Pids
<1>2. /\ process' \in Seq(ProcessState)
      /\ Pids' = Pids /\ process'[p].is = is /\ process'[p].build = process[p].build
      /\ \A r \in Pids \ {p} : process'[r] = process[r]
  <2>1. /\ process' = [process EXCEPT ![p] = [process[p] EXCEPT !.is = is]]
        /\ process[p] \in ProcessState /\ process \in [1..Len(process) -> ProcessState]
    BY <1>1, ProcessesHaveState
  <2>2. /\ [process[p] EXCEPT !.is = is] \in ProcessState
        /\ [process[p] EXCEPT !.is = is].is = is
        /\ [process[p] EXCEPT !.is = is].build = process[p].build
    BY <2>1 DEF ProcessState
  <2>3. process' \in [1..Len(process) -> ProcessState]
    BY <1>1, <2>1, <2>2
  <2>4. Len(process) \in Nat
    BY <1>1
  <2>5. \A n \in Nat : \A s \in [1..n -> ProcessState] : s \in Seq(ProcessState)
    OBVIOUS
  <2>6. process' \in Seq(ProcessState)
    BY <2>3, <2>4, <2>5, Zenon
  <2>7. QED
    BY <1>1, <2>1, <2>2, <2>6 DEF Pids
<1>3. Up' \subseteq Up /\ portOwners \subseteq portOwners'
  BY <1>2 DEF Up, portOwners
<1>4. \A r \in Up' \ portOwners' : r \in Up \ portOwners
  BY <1>2, <1>3 DEF Up, portOwners
<1>5. PreviewTypes'
  BY <1>1, <1>2 DEF PreviewTypes
<1>6. ASSUME NEW t \in Runs, ByItself(t)' PROVE Knows(t)'
  <2>1. ByItself(t) /\ Knows(t) /\ tool'[t] = tool[t] /\ build' = build /\ pidFile' = pidFile
    BY <1>6 DEF ByItself, Running, PreviewInv
  <2>2. \A r \in Pids : process'[r].build = process[r].build
    BY <1>2
  <2>3. QED
    BY <1>2, <1>3, <1>4, <2>1, <2>2 DEF Knows
<1>7. NoOverlap'
  BY DEF NoOverlap, ByItself, Running, PreviewInv
<1>8. QED
  BY <1>5, <1>6, <1>7 DEF PreviewInv

\* After a build nobody counts as undisturbed.
LEMMA RebuildKeeps ==
  ASSUME PreviewInv, Rebuild
  PROVE  PreviewInv'
<1>1. /\ build' = build + 1 /\ UNCHANGED <<process, pidFile, toolFaults>>
      /\ tool' = [t \in Runs |-> IF Running(t) THEN [tool[t] EXCEPT !.alone = FALSE] ELSE tool[t]]
  BY DEF Rebuild
<1>2. PreviewTypes
  BY DEF PreviewInv
<1>3. ASSUME NEW t \in Runs PROVE tool'[t] \in ToolState /\ ~ByItself(t)'
  <2>1. CASE Running(t)
    <3>1. tool'[t] = [tool[t] EXCEPT !.alone = FALSE]
      BY <1>1, <2>1
    <3>2. tool'[t] \in ToolState /\ tool'[t].alone = FALSE
      BY <1>2, <2>1, <3>1, RunsHaveState DEF ToolState, RunState
    <3>3. QED
      BY <3>2 DEF ByItself
  <2>2. CASE ~Running(t)
    <3>1. tool'[t] = tool[t] /\ tool[t] \in ToolState
      BY <1>1, <1>2, <2>2 DEF PreviewTypes
    <3>2. QED
      BY <2>2, <3>1 DEF ByItself, Running
  <2>3. QED
    BY <2>1, <2>2
<1>4. tool' \in [Runs -> ToolState]
  BY <1>1, <1>3
<1>5. PreviewTypes'
  BY <1>1, <1>2, <1>4 DEF PreviewTypes
<1>6. QED
  BY <1>3, <1>5 DEF PreviewInv, NoOverlap

\* A run is killed; nothing else changes.
LEMMA KillKeeps ==
  ASSUME PreviewInv, NEW t \in Runs, Running(t), tool' = [tool EXCEPT ![t] = Over("killed")],
         UNCHANGED <<build, process, pidFile>>, toolFaults' \in Nat
  PROVE  PreviewInv'
<1>1. PreviewTypes
  BY DEF PreviewInv
<1>2. /\ tool' \in [Runs -> ToolState] /\ ~Running(t)' /\ \A u \in Runs \ {t} : tool'[u] = tool[u]
  BY <1>1 DEF PreviewTypes, ToolState, Over, Running
<1>3. PreviewTypes'
  BY <1>1, <1>2 DEF PreviewTypes
<1>4. QED
  BY <1>2, <1>3, OneRunMoves

LEMMA PreviewInvariance == PreviewSpec => []PreviewInv
<1>1. PreviewInit => PreviewInv
  <2>1. ASSUME PreviewInit PROVE PreviewTypes /\ \A t \in Runs : ~Running(t)
    BY <2>1 DEF PreviewInit, PreviewTypes, ToolState, Running, Over
  <2>2. QED
    BY <2>1 DEF PreviewInv, NoOverlap, ByItself
<1>2. ASSUME PreviewInv, [PreviewNext]_previewVars PROVE PreviewInv'
  <2>1. CASE UNCHANGED previewVars
    BY <1>2, <2>1 DEF previewVars, PreviewInv, PreviewTypes, NoOverlap, ByItself, Running, Knows,
       Up, portOwners, Pids
  <2>2. ASSUME NEW p \in Pids, Bind(p) PROVE PreviewInv'
    <3>1. /\ process[p].is = "starting" /\ UNCHANGED <<build, pidFile, tool, toolFaults>>
          /\ process' = [process EXCEPT ![p].is = IF portOwners = {} THEN "bound" ELSE "dead"]
      BY <2>2 DEF Bind
    <3>2. QED
      BY <1>2, <3>1, ServersMove DEF PreviewInv, PreviewTypes
  <2>3. CASE Mishap
    <3>1. toolFaults' \in Nat /\ UNCHANGED <<build, pidFile>>
      BY <1>2, <2>3 DEF Mishap, PreviewInv, PreviewTypes
    <3>2. CASE \E t \in Runs : Running(t) /\ tool' = [tool EXCEPT ![t] = Over("killed")] /\ UNCHANGED process
      BY <1>2, <3>1, <3>2, KillKeeps
    <3>3. CASE \E p \in Pids : /\ process[p].is = "dead" /\ process' = [process EXCEPT ![p].is = "other"]
                               /\ UNCHANGED tool
      BY <1>2, <3>1, <3>3, ServersMove
    <3>4. QED
      BY <2>3, <3>2, <3>3 DEF Mishap
  <2>4. QED
    BY <1>2, <2>1, <2>2, <2>3, BeginKeeps, LookKeeps, TerminateKeeps, OutcomeKeeps, SpawnKeeps,
       ReadyKeeps, RebuildKeeps DEF PreviewNext
<1>3. QED
  BY <1>1, <1>2, PTL DEF PreviewSpec

\* What a run of the preview tool that nobody overlaps reports is so
\* (stopOutcome, waitForReady).
THEOREM ReportsAreTrue == PreviewSpec => ReportTrue
<1> DEFINE Report(t) ==
      Running(t) /\ tool[t].alone =>
        /\ tool'[t].at = "failed" => (tool[t].child \in Up' => tool[t].owners # {})
        /\ tool'[t].at = "ok" /\ tool[t].action = "stop" => Up' = {}
        /\ tool'[t].at = "ok" /\ tool[t].action = "restart" =>
             /\ portOwners' = {tool[t].child}
             /\ process'[tool[t].child].build = tool[t].build
<1>1. ASSUME PreviewInv, [PreviewNext]_previewVars, NEW t \in Runs,
             Running(t), tool'[t].at \in {"ok", "failed"}, tool[t].alone
      PROVE  Report(t)
  <2>1. PreviewTypes /\ ByItself(t) /\ Knows(t) /\ tool[t].at \notin {"ok", "failed"}
    BY <1>1 DEF PreviewInv, ByItself, Running
  <2>2. CASE stopOutcome(t)
    <3>1. tool[t].at = "check" /\ Up' = Up /\ Up \subseteq tool[t].owners /\ portOwners \subseteq Up
      BY <2>1, <2>2, ServersUp DEF stopOutcome, Knows, Up, Pids, portOwners
    <3>2. CASE tool'[t].at = "failed"
      <4>1. tool[t].child \in Up' => tool[t].owners # {}
        BY <3>1
      <4>2. QED
        BY <3>2, <4>1
    <3>3. CASE tool'[t].at = "ok"
      <4>1. (tool[t].owners \cap Up) \cup portOwners = {} /\ tool[t].action = "stop"
        <5>1. tool[t] \in RunState
          BY <1>1, <2>1, RunsHaveState
        <5>2. \A x : [tool EXCEPT ![t] = x][t] = x
          BY <2>1 DEF PreviewTypes
        <5>3. Over("failed").at = "failed" /\ [tool[t] EXCEPT !.at = "free"].at = "free"
          BY <5>1 DEF Over, RunState
        <5>4. (tool[t].owners \cap Up) \cup portOwners = {}
          BY <2>2, <3>3, <5>2, <5>3 DEF stopOutcome
        <5>5. tool[t].action # "restart"
          BY <2>2, <3>3, <5>2, <5>3, <5>4 DEF stopOutcome
        <5>6. QED
          BY <5>1, <5>4, <5>5 DEF RunState
      <4>2. Up' = {}
        BY <3>1, <4>1
      <4>3. QED
        BY <3>3, <4>1, <4>2
    <3>4. QED
      BY <1>1, <3>2, <3>3
  <2>3. CASE waitForReady(t)
    <3>1. /\ tool[t].at = "wait" /\ tool[t].action = "restart" /\ Up \subseteq {tool[t].child}
          /\ process[tool[t].child].build = build /\ tool[t].build = build
          /\ process' = process /\ portOwners' = portOwners /\ portOwners \subseteq Up
      BY <2>1, <2>3, ServersUp DEF waitForReady, Knows, portOwners, Pids
    <3>2. tool'[t].at = "ok" /\ portOwners # {}
      <4>1. ~(tool' = AfterFailure(t))
        <5>1. tool[t] \in RunState
          BY <1>1, <2>1, RunsHaveState
        <5>2. AfterFailure(t)[t].at = "look"
          BY <2>1, <5>1 DEF AfterFailure, PreviewTypes, RunState
        <5>3. QED
          BY <1>1, <5>2
      <4>2. QED
        BY <2>1, <2>3, <4>1 DEF waitForReady, PreviewTypes, Over
    <3>3. portOwners' = {tool[t].child} /\ process'[tool[t].child].build = tool[t].build
      BY <3>1, <3>2
    <3>4. QED
      BY <3>1, <3>2, <3>3
  <2>4. ASSUME ~stopOutcome(t), ~waitForReady(t) PROVE FALSE
    <3>1. CASE tool' = tool
      BY <1>1, <2>1, <3>1
    <3>2. CASE Rebuild \/ \E u \in Runs, action \in {"stop", "restart"} : Begin(u, action)
      <4>1. tool'[t] \in {tool[t], [tool[t] EXCEPT !.alone = FALSE]}
        BY <1>1, <3>2 DEF Rebuild, Begin
      <4>2. tool'[t].at = tool[t].at
        BY <1>1, <2>1, <4>1, RunsHaveState DEF RunState
      <4>3. QED
        BY <1>1, <2>1, <4>2
    <3>3. CASE \E u \in Runs : Look(u) \/ terminatePids(u) \/ Spawn(u)
      <4>1. tool[t] \in RunState
        BY <1>1, <2>1, RunsHaveState
      <4>2. CASE Look(t) \/ terminatePids(t) \/ Spawn(t)
        <5>1. tool'[t].at \in {"terminate", "check", "wait"}
          BY <2>1, <4>1, <4>2 DEF Look, terminatePids, Spawn, PreviewTypes, RunState
        <5>2. QED
          BY <1>1, <5>1
      <4>3. ASSUME NEW u \in Runs \ {t}, Look(u) \/ terminatePids(u) \/ Spawn(u) PROVE FALSE
        <5>1. tool'[t] = tool[t]
          BY <2>1, <4>3 DEF Look, terminatePids, Spawn, PreviewTypes
        <5>2. QED
          BY <1>1, <2>1, <5>1
      <4>4. QED
        BY <3>3, <4>2, <4>3
    <3>4. CASE \E u \in Runs \ {t} : stopOutcome(u) \/ waitForReady(u)
      BY <1>1, <2>1, <3>4 DEF stopOutcome, waitForReady, AfterFailure, PreviewTypes
    <3>5. CASE Mishap
      BY <1>1, <2>1, <3>5 DEF Mishap, PreviewTypes, Over
    <3>6. QED
      BY <1>1, <2>4, <3>1, <3>2, <3>3, <3>4, <3>5 DEF PreviewNext, Bind, previewVars
  <2>5. QED
    BY <2>2, <2>3, <2>4
<1>2. PreviewInv /\ [PreviewNext]_previewVars => \A t \in Runs : Report(t)
  BY <1>1
<1>3. QED
  BY <1>2, PreviewInvariance, PTL DEF PreviewSpec, ReportTrue
(***************************************************************************)
(* The console.  A reset goes through the tables one after another while   *)
(* other calls go on, so what a call or an answer holds may be of an older *)
(* seed than the tables.  What all of it has in common: ids of a seed that *)
(* is still to come are not known to anyone.                               *)
(***************************************************************************)
DeliveryOps == {"retryDelivery", "simulateFailureOnDelivery"}
DeleteSteps == {"delivery_attempts", "deliveries", "routing_rules", "integrations", "seed"}
Row == [gen : Nat, status : {"queued", "processing", "delivered", "failed"},
        attempt_count : Nat, attempts : Nat]
Data == [ids : SUBSET (Nat \cup (Leads \X Nat)), row : Row, torn : BOOLEAN]
PageOps == {"saveRule", "toggleRule", "deleteRule", "toggleIntegration", "testIntegration",
            "submitIntake", "resetDemo"} \cup DeliveryOps
CallRecord ==
  [op : PageOps,
   from : Pages \cup {"elsewhere"}, closure : Pages \cup {"here", "elsewhere"},
   lead : Leads \cup {None}, gen : Nat, rule : Nat,
   step : DeleteSteps \cup {"start", "claim", "attempt", "row", "done", "not found"},
   attempt_count : Nat, at : Nat, id : Nat]
RuleRecord == [id : Nat, integration_id : Nat, saved : Nat]
CacheEntry == [readAt : Nat \cup {-1}, invalid : BOOLEAN, error : BOOLEAN, data : Data]
FetchEntry == [stage : {"idle", "asked", "row", "read"}, readAt : Nat, data : Data]
ConsoleTypes ==
  /\ page \in Pages
  /\ cache \in [Keys -> CacheEntry] /\ fetch \in [Keys -> FetchEntry]
  /\ calls \subseteq CallRecord
  /\ rules \subseteq RuleRecord
  /\ integrations \in Nat /\ delivery \in [Leads -> Row] /\ resets \in Nat /\ writes \in Nat
  /\ told \in [Keys -> Nat] /\ events \in Nat

\* A reset has come to this step.
ResetAt(s) == \E c \in calls : c.op = "resetDemo" /\ c.step = s
\* The newest seed whose ids anybody can hold.
Known == IF ResetAt("integrations") \/ ResetAt("seed") THEN resets ELSE resets + 1

\* The pages from which each call is sent.
SentFrom(c) ==
  \/ c.from = "routing" /\ c.op \in {"saveRule", "toggleRule", "deleteRule"}
  \/ c.from = "integrations" /\ c.op \in {"toggleIntegration", "testIntegration"}
  \/ c.from = "deliveries" /\ c.op = "retryDelivery"
  \/ c.from \in Leads /\ c.op \in DeliveryOps
  \/ c.from = "settings" /\ c.op = "resetDemo"
  \/ c.from = "intake-simulator" /\ c.op = "submitIntake"
CallFits(c) ==
  /\ c.closure # "elsewhere" => SentFrom(c)
  /\ c.op \in DeliveryOps => c.lead \in Leads /\ c.gen # 0
  /\ c.op = "resetDemo" => c.step \in DeleteSteps \cup {"done"}
  /\ c.op # "resetDemo" => c.step \notin DeleteSteps
  /\ c.step \in {"claim", "attempt", "row"} => c.op \in DeliveryOps
OneReset == \A c, d \in calls : c.op = "resetDemo" /\ d.op = "resetDemo" => c = d

\* What an answer tells of ids.
Dated(k, d, g) ==
  /\ d.row.gen <= g
  /\ k = "rules" => d.ids \subseteq Nat
  /\ k = "integrations" => d.ids \subseteq 1..g
  /\ k = "deliveries" => d.ids \subseteq Leads \X (1..g)
Tables ==
  /\ integrations = IF ResetAt("seed") THEN 0 ELSE Known
  /\ IF ResetAt("routing_rules") \/ ResetAt("integrations") \/ ResetAt("seed")
     THEN \A l \in Leads : delivery[l] = Gone
     ELSE \A l \in Leads : delivery[l].gen = resets + 1

ConsoleBase ==
  /\ ConsoleTypes /\ Tables /\ OneReset
  /\ \A c \in calls : CallFits(c) /\ c.gen <= Known
  /\ \A k \in Keys : Dated(k, cache[k].data, Known) /\ Dated(k, fetch[k].data, Known)
  /\ \A k \in Keys \ Leads : fetch[k].stage # "row"

\* What a page shows of this tab's own changes.
HasRead(c) ==
  c.closure # "elsewhere" /\ c.from # "intake-simulator" =>
    cache[IF c.from = "routing" THEN "rules" ELSE c.from].readAt >= 0
FreshOf(k) ==
  /\ told[k] <= writes
  /\ fetch[k].stage \in {"row", "read"} => fetch[k].readAt >= told[k]
  /\ cache[k].readAt >= 0 /\ cache[k].readAt < told[k] =>
       /\ cache[k].invalid \/ fetch[k].stage # "idle"
       /\ k \in Queries(page) /\ ~cache[k].error => fetch[k].stage # "idle"
FreshInv ==
  /\ \A c \in calls : HasRead(c) /\ c.at <= writes
  /\ \A k \in Keys : FreshOf(k)

\* What is known of the attempts, unless a reset has just deleted them.
Backed(c) ==
  c.op \in DeliveryOps /\ Found(c) /\ ~ResetAt("deliveries") =>
    /\ c.step = "attempt" => c.attempt_count <= delivery[c.lead].attempts
    /\ c.step = "row" => c.attempt_count + 1 <= delivery[c.lead].attempts
Half(l, d) ==
  \/ d.torn
  \/ /\ d.row.gen # 0
     /\ \/ d.row.gen # delivery[l].gen \/ ResetAt("deliveries")
        \/ d.row.attempt_count <= delivery[l].attempts
AttemptsInv ==
  /\ ~ResetAt("deliveries") => \A l \in Leads : delivery[l].attempt_count <= delivery[l].attempts
  /\ \A c \in calls : Backed(c)
  /\ \A l \in Leads :
       /\ fetch[l].stage = "row" => Half(l, fetch[l].data)
       /\ fetch[l].stage = "read" =>
            fetch[l].data.torn \/ fetch[l].data.row.attempt_count <= fetch[l].data.row.attempts
  /\ AttemptsListed

\* A rule is of the seed that is there, or it was saved when that was known to be old.
RulesInv ==
  \A r \in rules :
    \/ r.integration_id <= r.saved
    \/ r.integration_id = integrations /\ ~ResetAt("integrations") /\ ~ResetAt("seed")

\* Every page asks for queries that there are, and lists nothing before an answer.
LEMMA KeysOfPages ==
  /\ Leads \subseteq Keys /\ {"rules", "integrations", "deliveries", "dashboard", "settings"} \subseteq Keys
  /\ \A p \in Pages : Queries(p) \subseteq Keys
  /\ Gone \in Row /\ Gone.gen = 0 /\ Nothing \in Data
  /\ Unread \in CacheEntry /\ Unread.data = Nothing /\ Unread.readAt = -1 /\ ~Unread.error
  /\ NoFetch \in FetchEntry /\ NoFetch.data = Nothing /\ NoFetch.stage = "idle"
  /\ Asked \in FetchEntry /\ Asked.data = Nothing /\ Asked.stage = "asked"
  /\ \A k : \A g \in Nat : Dated(k, Nothing, g)
<1>1. Leads \subseteq Keys /\ {"rules", "integrations", "deliveries", "dashboard", "settings"} \subseteq Keys
  BY DEF Keys
<1>2. \A p \in Pages : Queries(p) \subseteq Keys
  BY <1>1, ConsoleAssumption DEF Queries, FixedPages
<1>3. Gone \in Row /\ Gone.gen = 0
  BY DEF Gone, Row
<1>4. Nothing \in Data /\ Nothing.ids = {} /\ Nothing.row = Gone
  BY <1>3 DEF Nothing, Data
<1>5. Unread \in CacheEntry /\ Unread.data = Nothing /\ Unread.readAt = -1 /\ ~Unread.error
  BY <1>4 DEF Unread, CacheEntry
<1>6. NoFetch \in FetchEntry /\ NoFetch.data = Nothing /\ NoFetch.stage = "idle"
  BY <1>4 DEF NoFetch, FetchEntry
<1>7. Asked \in FetchEntry /\ Asked.data = Nothing /\ Asked.stage = "asked"
  BY <1>6 DEF Asked, FetchEntry
<1>8. \A k : \A g \in Nat : Dated(k, Nothing, g)
  BY <1>3, <1>4 DEF Dated
<1>9. QED
  BY <1>1, <1>2, <1>3, <1>4, <1>5, <1>6, <1>7, <1>8

\* The types of what the query client keeps.
LEMMA CacheHasTypes ==
  ASSUME ConsoleTypes, NEW k \in Keys
  PROVE  /\ cache[k] \in CacheEntry /\ cache[k].data \in Data /\ cache[k].readAt \in Nat \cup {-1}
         /\ cache[k].data.row \in Row /\ cache[k].data.row.gen \in Nat
         /\ fetch[k] \in FetchEntry /\ fetch[k].data \in Data /\ fetch[k].readAt \in Nat
         /\ fetch[k].data.row \in Row /\ fetch[k].data.row.gen \in Nat
<1>1. cache[k] \in CacheEntry /\ fetch[k] \in FetchEntry
  BY DEF ConsoleTypes
<1>2. /\ cache[k].data \in Data /\ cache[k].readAt \in Nat \cup {-1}
      /\ fetch[k].data \in Data /\ fetch[k].readAt \in Nat
  BY <1>1 DEF CacheEntry, FetchEntry
<1>3. cache[k].data.row \in Row /\ fetch[k].data.row \in Row
  BY <1>2 DEF Data
<1>4. QED
  BY <1>1, <1>2, <1>3 DEF Row

\* Answers of an earlier time are not of a later seed.
LEMMA DatedLater ==
  ASSUME NEW k, NEW d \in Data, NEW g \in Nat, NEW h \in Nat, g <= h, Dated(k, d, g)
  PROVE  Dated(k, d, h)
<1>1. 1..g \subseteq 1..h /\ d.row.gen \in Nat
  BY DEF Data, Row
<1>2. QED
  BY <1>1 DEF Dated

\* The ids anybody knows are of some seed so far.
LEMMA KnownIsNat ==
  ASSUME ConsoleTypes
  PROVE  Known \in Nat /\ Known \in {resets, resets + 1}
  BY DEF Known, ConsoleTypes

\* Every step but those of a reset: no id changes.
LEMMA BaseFrame ==
  ASSUME ConsoleBase, ConsoleTypes', OneReset',
         \A c \in calls' : CallFits(c) /\ c.gen <= Known,
         \A s \in {"routing_rules", "integrations", "seed"} : ResetAt(s)' <=> ResetAt(s),
         UNCHANGED <<resets, integrations>>,
         \A l \in Leads : /\ delivery'[l].gen = delivery[l].gen
                          /\ delivery[l] = Gone => delivery'[l] = Gone,
         \A k \in Keys : Dated(k, cache'[k].data, Known) /\ Dated(k, fetch'[k].data, Known),
         \A k \in Keys \ Leads : fetch'[k].stage # "row"
  PROVE  ConsoleBase' /\ Known' = Known
<1>1. Known' = Known
  BY DEF Known
<1>2. (ResetAt("seed")' <=> ResetAt("seed")) /\ (ResetAt("routing_rules")' <=> ResetAt("routing_rules"))
      /\ (ResetAt("integrations")' <=> ResetAt("integrations"))
  OBVIOUS
<1>3. Tables
  BY DEF ConsoleBase
<1>4. Tables'
  BY <1>1, <1>2, <1>3 DEF Tables
<1>5. QED
  BY <1>1, <1>4 DEF ConsoleBase

\* A call is sent.
Sent(c) ==
  /\ c \in CallRecord /\ CallFits(c) /\ c.gen <= Known /\ HasRead(c) /\ c.at = 0
  /\ c.step = IF c.op = "resetDemo" THEN "delivery_attempts" ELSE "start"
  /\ c.op = "resetDemo" => ~Resetting
  /\ calls' = calls \cup {c} /\ events' \in Nat
  /\ UNCHANGED <<page, cache, fetch, consoleDb, told>>

LEMMA SentKeeps ==
  ASSUME ConsoleBase, NEW c, Sent(c)
  PROVE  ConsoleBase' /\ Known' = Known /\ \A s : s # "delivery_attempts" => (ResetAt(s)' <=> ResetAt(s))
<1>1. \A s : s # "delivery_attempts" => (ResetAt(s)' <=> ResetAt(s))
  BY DEF Sent, ResetAt
<1>2. ConsoleTypes'
  BY DEF Sent, ConsoleBase, ConsoleTypes, consoleDb
<1>3. OneReset'
  BY DEF Sent, Resetting, OneReset, ConsoleBase
<1>4. \A d \in calls' : CallFits(d) /\ d.gen <= Known
  BY DEF Sent, ConsoleBase
<1>5. QED
  BY <1>1, <1>2, <1>3, <1>4, BaseFrame DEF Sent, ConsoleBase, consoleDb

\* A call as the pages make it.
LEMMA Mutations ==
  ASSUME ConsoleTypes, NEW op \in PageOps,
         NEW from \in Pages \cup {"elsewhere"}, NEW lead \in Leads \cup {None},
         NEW gen \in Nat, NEW rule \in Nat, NEW c, c = Mutation(op, from, lead, gen, rule)
  PROVE  /\ c \in CallRecord /\ c.op = op /\ c.from = from /\ c.closure = "here" /\ c.lead = lead
         /\ c.gen = gen /\ c.rule = rule /\ c.at = 0
         /\ c.step = IF op = "resetDemo" THEN "delivery_attempts" ELSE "start"
<1>1. DeleteOrder[1] = "delivery_attempts"
  BY DEF DeleteOrder
<1>2. events \in Nat
  BY DEF ConsoleTypes
<1>3. QED
  BY <1>1, <1>2 DEF Mutation, CallRecord, DeleteSteps

\* What a page sends, with what it has read.
LEMMA PageSends ==
  ASSUME ConsoleBase,
         NEW op \in PageOps, NEW lead \in Leads \cup {None}, NEW gen \in Nat, NEW rule \in Nat,
         Send(Mutation(op, page, lead, gen, rule)),
         SentFrom([op |-> op, from |-> page]), gen <= Known,
         op \in DeliveryOps => lead \in Leads /\ gen # 0,
         op = "resetDemo" => ~Resetting,
         page # "intake-simulator" => cache[IF page = "routing" THEN "rules" ELSE page].readAt >= 0
  PROVE  \E c : Sent(c)
<1> DEFINE c == Mutation(op, page, lead, gen, rule)
<1>1. ConsoleTypes /\ page \in Pages
  BY DEF ConsoleBase, ConsoleTypes
<1>2. /\ c \in CallRecord /\ c.op = op /\ c.from = page /\ c.closure = "here" /\ c.lead = lead
      /\ c.gen = gen /\ c.at = 0
      /\ c.step = IF op = "resetDemo" THEN "delivery_attempts" ELSE "start"
  BY <1>1, Mutations
<1>3. /\ calls' = calls \cup {c} /\ events' \in Nat
      /\ UNCHANGED <<page, cache, fetch, consoleDb, told>>
  BY <1>1 DEF Send, Happens, ConsoleTypes
<1> HIDE DEF c
<1>4. CallFits(c)
  BY <1>2 DEF CallFits, SentFrom, DeleteSteps, DeliveryOps
<1>5. HasRead(c)
  BY <1>2 DEF HasRead
<1>6. Sent(c)
  BY <1>2, <1>3, <1>4, <1>5 DEF Sent
<1>7. QED
  BY <1>6

LEMMA PagesSend ==
  ASSUME ConsoleBase,
         RoutingPage \/ IntegrationsPage \/ DeliveriesPage \/ LeadDetailPage \/ SettingsPage \/ IntakePage
  PROVE  \E c : Sent(c)
<1>1. ConsoleTypes /\ Known \in Nat /\ page \in Pages /\ integrations \in Nat /\ integrations <= Known
      /\ resets \in Nat /\ resets <= Known
  BY KnownIsNat DEF ConsoleBase, ConsoleTypes, Tables
<1>2. \A k \in Keys : Dated(k, cache[k].data, Known)
  BY DEF ConsoleBase
<1>3. Ids \subseteq Nat /\ NewRule \in Nat /\ Generations \subseteq 1..Known
  BY <1>1 DEF Ids, Generations, NewRule, ConsoleTypes, RuleRecord
<1>4. "rules" \in Keys /\ "integrations" \in Keys /\ "deliveries" \in Keys /\ "settings" \in Keys
  BY KeysOfPages
<1>5. CASE RoutingPage
  <2>1. page = "routing" /\ Loaded("rules")
    BY <1>5 DEF RoutingPage
  <2>2. cache["rules"].readAt >= 0 /\ cache["rules"].data.ids \subseteq Nat /\ Options \subseteq 0..Known
    BY <1>1, <1>2, <1>4, <2>1 DEF Loaded, Dated, Options
  <2>3. CASE \E rule \in Ids \cup {NewRule}, gen \in Options : Send(Mutation("saveRule", page, None, gen, rule))
    <3>1. PICK rule \in Ids \cup {NewRule}, gen \in Options : Send(Mutation("saveRule", page, None, gen, rule))
      BY <2>3
    <3>2. rule \in Nat /\ gen \in Nat /\ gen <= Known
      <4>1. rule \in Nat
        BY <1>3
      <4>2. gen \in 0..Known
        BY <2>2
      <4>3. QED
        BY <1>1, <4>1, <4>2
    <3>3. QED
      BY <1>1, <2>1, <2>2, <3>1, <3>2, PageSends
      DEF SentFrom, DeliveryOps, PageOps
  <2>4. CASE \E rule \in cache["rules"].data.ids, op \in {"toggleRule", "deleteRule"} :
               Send(Mutation(op, page, None, 0, rule))
    <3>1. PICK rule \in cache["rules"].data.ids, op \in {"toggleRule", "deleteRule"} :
            Send(Mutation(op, page, None, 0, rule))
      BY <2>4
    <3>2. rule \in Nat /\ 0 <= Known
      BY <1>1, <2>2
    <3>3. QED
      BY <1>1, <2>1, <2>2, <3>1, <3>2, PageSends
      DEF SentFrom, DeliveryOps, PageOps
  <2>5. QED
    BY <1>5, <2>3, <2>4 DEF RoutingPage
<1>6. CASE IntegrationsPage
  <2>1. page = "integrations" /\ Loaded("integrations")
    BY <1>6 DEF IntegrationsPage
  <2>2. cache["integrations"].readAt >= 0 /\ cache["integrations"].data.ids \subseteq 1..Known
    BY <1>2, <1>4, <2>1 DEF Loaded, Dated
  <2>3. PICK gen \in 1..Known, op \in {"toggleIntegration", "testIntegration"} :
          Send(Mutation(op, page, None, gen, NewRule))
    BY <1>6, <2>2 DEF IntegrationsPage
  <2>4. gen \in Nat /\ gen <= Known
    BY <1>1
  <2>5. QED
    BY <1>1, <1>3, <2>1, <2>2, <2>3, <2>4, PageSends
    DEF SentFrom, DeliveryOps, PageOps
<1>7. CASE DeliveriesPage
  <2>1. page = "deliveries" /\ cache["deliveries"].readAt >= 0
        /\ cache["deliveries"].data.ids \subseteq Leads \X (1..Known)
    BY <1>2, <1>4, <1>7 DEF DeliveriesPage, Dated
  <2>2. PICK d \in Leads \X (1..Known) : Send(Mutation("retryDelivery", page, d[1], d[2], NewRule))
    BY <1>7, <2>1 DEF DeliveriesPage
  <2>3. d[1] \in Leads /\ d[2] \in Nat /\ d[2] # 0 /\ d[2] <= Known
    BY <1>1
  <2>4. QED
    BY <1>1, <1>3, <2>1, <2>2, <2>3, PageSends
    DEF SentFrom, DeliveryOps, PageOps
<1>8. CASE LeadDetailPage
  <2>1. page \in Leads /\ Loaded(page) /\ cache[page].data.row.gen # 0
    BY <1>8 DEF LeadDetailPage
  <2>2. page # "routing" /\ page \in Keys
    BY <2>1, KeysOfPages, ConsoleAssumption DEF FixedPages
  <2>3. cache[page].readAt >= 0 /\ cache[page].data.row.gen \in Nat /\ cache[page].data.row.gen <= Known
    <3>1. Dated(page, cache[page].data, Known) /\ cache[page].data.row.gen \in Nat
      BY <1>1, <1>2, <2>2, CacheHasTypes
    <3>2. QED
      BY <2>1, <3>1 DEF Loaded, Dated
  <2>4. PICK op \in DeliveryOps : Send(Mutation(op, page, page, cache[page].data.row.gen, NewRule))
    BY <1>8 DEF LeadDetailPage, DeliveryOps
  <2>5. QED
    BY <1>1, <1>3, <2>1, <2>2, <2>3, <2>4, PageSends
    DEF SentFrom, DeliveryOps, PageOps
<1>9. CASE SettingsPage
  <2>1. page = "settings" /\ cache["settings"].readAt >= 0 /\ ~Resetting
        /\ Send(Mutation("resetDemo", page, None, 0, NewRule))
    BY <1>9 DEF SettingsPage, Loaded
  <2>2. 0 <= Known
    BY <1>1
  <2>3. QED
    BY <1>1, <1>3, <2>1, <2>2, PageSends
    DEF SentFrom, DeliveryOps, PageOps
<1>10. CASE IntakePage
  <2>1. page = "intake-simulator" /\ Send(Mutation("submitIntake", page, None, 0, NewRule))
    BY <1>10 DEF IntakePage
  <2>2. 0 <= Known
    BY <1>1
  <2>3. QED
    BY <1>1, <1>3, <2>1, <2>2, PageSends
    DEF SentFrom, DeliveryOps, PageOps
<1>11. QED
  BY <1>5, <1>6, <1>7, <1>8, <1>9, <1>10

\* What another tab sends comes from pages of any age.
LEMMA OthersSend ==
  ASSUME ConsoleBase, Elsewhere
  PROVE  \E c : Sent(c)
<1>1. ConsoleTypes /\ Known \in Nat /\ integrations \in Nat /\ integrations <= Known
      /\ resets \in Nat /\ resets <= Known
  BY KnownIsNat DEF ConsoleBase, ConsoleTypes, Tables
<1>2. Ids \subseteq Nat /\ NewRule \in Nat /\ Generations \subseteq 1..Known
  BY <1>1 DEF Ids, Generations, NewRule, ConsoleTypes, RuleRecord
<1>3. events' \in Nat /\ UNCHANGED <<page, cache, fetch, consoleDb, told>>
  BY <1>1 DEF Elsewhere, Happens, ConsoleTypes
<1>4. PICK c :
        /\ calls' = calls \cup {[c EXCEPT !.closure = "elsewhere"]}
        /\ \/ \E op \in DeliveryOps, l \in Leads, gen \in Generations :
                c = Mutation(op, "elsewhere", l, gen, NewRule)
           \/ \E gen \in Generations, rule \in Ids \cup {NewRule} :
                c = Mutation("saveRule", "elsewhere", None, gen, rule)
           \/ ~Resetting /\ c = Mutation("resetDemo", "elsewhere", None, 0, NewRule)
  BY DEF Elsewhere, DeliveryOps
<1>5. /\ c \in CallRecord /\ c.gen <= Known /\ c.at = 0
      /\ c.step = IF c.op = "resetDemo" THEN "delivery_attempts" ELSE "start"
      /\ c.op = "resetDemo" => ~Resetting
      /\ c.op \in DeliveryOps => c.lead \in Leads /\ c.gen # 0
  <2>1. CASE \E op \in DeliveryOps, l \in Leads, gen \in Generations :
               c = Mutation(op, "elsewhere", l, gen, NewRule)
    <3>1. PICK op \in DeliveryOps, l \in Leads, gen \in Generations :
            c = Mutation(op, "elsewhere", l, gen, NewRule)
      BY <2>1
    <3>2. gen \in Nat /\ gen <= Known /\ gen # 0
      BY <1>1, <1>2
    <3>3. QED
      BY <1>1, <1>2, <3>1, <3>2, Mutations DEF DeliveryOps, PageOps
  <2>2. CASE \E gen \in Generations, rule \in Ids \cup {NewRule} :
               c = Mutation("saveRule", "elsewhere", None, gen, rule)
    <3>1. PICK gen \in Generations, rule \in Ids \cup {NewRule} :
            c = Mutation("saveRule", "elsewhere", None, gen, rule)
      BY <2>2
    <3>2. gen \in Nat /\ gen <= Known /\ rule \in Nat
      BY <1>1, <1>2
    <3>3. QED
      BY <1>1, <3>1, <3>2, Mutations DEF DeliveryOps, PageOps
  <2>3. CASE ~Resetting /\ c = Mutation("resetDemo", "elsewhere", None, 0, NewRule)
    BY <1>1, <1>2, <2>3, Mutations DEF DeliveryOps, PageOps
  <2>4. QED
    BY <1>4, <2>1, <2>2, <2>3
<1> DEFINE other == [c EXCEPT !.closure = "elsewhere"]
<1>6. /\ other \in CallRecord /\ other.op = c.op /\ other.gen = c.gen /\ other.at = c.at
      /\ other.step = c.step /\ other.lead = c.lead /\ other.closure = "elsewhere"
  BY <1>5 DEF CallRecord
<1> HIDE DEF other
<1>7. CallFits(other) /\ HasRead(other)
  BY <1>5, <1>6 DEF CallFits, HasRead, DeliveryOps, DeleteSteps
<1>8. calls' = calls \cup {other}
  BY <1>4 DEF other
<1>9. Sent(other)
  BY <1>3, <1>5, <1>6, <1>7, <1>8 DEF Sent
<1>10. QED
  BY <1>9

\* What a step of a server function makes of its call: a field or two.
Same(n, c) ==
  n.op = c.op /\ n.from = c.from /\ n.closure = c.closure /\ n.lead = c.lead /\ n.gen = c.gen
Turns(c, n) ==
  /\ calls' = (calls \ {c}) \cup {n} /\ Same(n, c)
  /\ n.at \in {c.at, writes'} /\ writes' \in {writes, writes + 1}
  /\ UNCHANGED <<page, cache, fetch, told, events>>

LEMMA Becoming ==
  ASSUME ConsoleTypes, NEW c \in calls, NEW new \in CallRecord, Becomes(c, new), Same(new, c), new.at = c.at
  PROVE  \E n \in CallRecord :
           Turns(c, n) /\ n.step = new.step /\ n.attempt_count = new.attempt_count
<1> DEFINE last == new.step = "done" /\ c.closure # "elsewhere"
           n == IF last THEN [new EXCEPT !.at = writes + 1] ELSE new
<1>1. writes \in Nat /\ writes' = IF last THEN writes + 1 ELSE writes
  BY DEF Becomes, ConsoleTypes
<1>2. /\ n \in CallRecord /\ n.op = new.op /\ n.from = new.from /\ n.closure = new.closure
      /\ n.lead = new.lead /\ n.gen = new.gen /\ n.step = new.step
      /\ n.attempt_count = new.attempt_count /\ n.at \in {c.at, writes'}
  <2>1. CASE last
    <3>1. n = [new EXCEPT !.at = writes + 1] /\ writes' = writes + 1 /\ writes + 1 \in Nat
      BY <1>1, <2>1
    <3>2. QED
      BY <3>1 DEF CallRecord
  <2>2. CASE ~last
    <3>1. n = new
      BY <2>2
    <3>2. QED
      BY <3>1
  <2>3. QED
    BY <2>1, <2>2
<1>3. calls' = (calls \ {c}) \cup {n} /\ UNCHANGED <<page, cache, fetch, told, events>>
  BY DEF Becomes
<1> HIDE DEF n
<1>4. Same(n, c)
  BY <1>2 DEF Same
<1>5. writes' \in {writes, writes + 1}
  BY <1>1
<1>6. Turns(c, n)
  BY <1>2, <1>3, <1>4, <1>5 DEF Turns
<1>7. QED
  BY <1>2, <1>6

\* What a statement makes of a delivery.
DeliveryMoves(c, n) ==
  \/ UNCHANGED delivery /\ n.step \notin {"attempt", "row"}
  \/ ~Found(c) /\ UNCHANGED delivery
  \/ /\ c.op \in DeliveryOps /\ Found(c)
     /\ \E row \in Row :
          /\ delivery' = [delivery EXCEPT ![c.lead] = row] /\ row.gen = c.gen
          /\ \/ /\ row.attempt_count = delivery[c.lead].attempt_count
                /\ row.attempts = delivery[c.lead].attempts
                /\ n.step # "row"
                /\ n.step = "attempt" => n.attempt_count = row.attempt_count
             \/ /\ c.step = "attempt" /\ n.step = "row" /\ n.attempt_count = c.attempt_count
                /\ row.attempt_count = delivery[c.lead].attempt_count
                /\ row.attempts = delivery[c.lead].attempts + 1
             \/ /\ c.step = "row" /\ n.step = "done"
                /\ row.attempt_count = c.attempt_count + 1
                /\ row.attempts = delivery[c.lead].attempts

\* What it makes of the rules.
RulesMove(c) ==
  /\ rules' \subseteq RuleRecord
  /\ \A r \in rules' : r \in rules \/ (r.integration_id = c.gen /\ r.saved = resets)

\* A step of a server function other than a reset.
Served(c, n) ==
  /\ c \in calls /\ c.op # "resetDemo" /\ n \in CallRecord /\ Turns(c, n) /\ CallFits(n)
  /\ RulesMove(c) /\ DeliveryMoves(c, n) /\ UNCHANGED <<integrations, resets>>

\* A call that takes a step keeps its origin.
LEMMA StepsFit ==
  ASSUME NEW c \in CallRecord, CallFits(c), c.op # "resetDemo", NEW n \in CallRecord, Same(n, c),
         n.step \notin DeleteSteps, n.step \in {"claim", "attempt", "row"} => c.op \in DeliveryOps
  PROVE  CallFits(n)
  BY DEF CallFits, Same, SentFrom

LEMMA Advancing ==
  ASSUME ConsoleBase, NEW c \in calls, c.op # "resetDemo",
         NEW step \in {"claim", "row", "done", "not found"}, Advances(c, step),
         step \in {"claim", "row"} => c.op \in DeliveryOps
  PROVE  \E n \in CallRecord :
           Turns(c, n) /\ n.step = step /\ n.attempt_count = c.attempt_count /\ CallFits(n)
<1>1. c \in CallRecord /\ CallFits(c) /\ ConsoleTypes
  BY DEF ConsoleBase, ConsoleTypes
<1> DEFINE new == [c EXCEPT !.step = step]
<1>2. /\ new \in CallRecord /\ Same(new, c) /\ new.at = c.at /\ new.step = step
      /\ new.attempt_count = c.attempt_count
  BY <1>1 DEF CallRecord, Same
<1>3. Becomes(c, new)
  BY DEF Advances
<1> HIDE DEF new
<1>4. PICK n \in CallRecord :
           Turns(c, n) /\ n.step = new.step /\ n.attempt_count = new.attempt_count
  BY <1>1, <1>2, <1>3, Becoming
<1>5. CallFits(n)
  BY <1>1, <1>2, <1>4, StepsFit DEF DeleteSteps, Turns
<1>6. QED
  BY <1>2, <1>4, <1>5

\* The calls that write at most a rule.
LEMMA PlainServed ==
  ASSUME ConsoleBase, NEW c \in calls,
         saveRule(c) \/ deleteRule(c) \/ Toggle(c) \/ submitIntake(c) \/ testIntegration(c)
  PROVE  \E n : Served(c, n)
<1>1. /\ c \in CallRecord /\ ConsoleTypes /\ resets \in Nat /\ rules \subseteq RuleRecord
      /\ c.id \in Nat /\ c.gen \in Nat
  BY DEF ConsoleBase, ConsoleTypes, CallRecord
<1>2. /\ c.op # "resetDemo" /\ UNCHANGED <<delivery, integrations, resets>>
      /\ \E step \in {"done", "not found"} : Advances(c, step)
  BY DEF saveRule, deleteRule, Toggle, submitIntake, testIntegration, NotFound
<1>3. RulesMove(c)
  <2>1. ASSUME rules' \subseteq rules PROVE RulesMove(c)
    BY <1>1, <2>1 DEF RulesMove
  <2>2. CASE saveRule(c)
    <3>1. CASE c.rule = NewRule
      <4> DEFINE new == [id |-> 10 + c.id, integration_id |-> c.gen, saved |-> resets]
      <4>1. new \in RuleRecord /\ new.integration_id = c.gen /\ new.saved = resets
        BY <1>1 DEF RuleRecord
      <4>2. rules' = rules \cup {new}
        BY <2>2, <3>1 DEF saveRule
      <4> HIDE DEF new
      <4>3. QED
        BY <1>1, <4>1, <4>2 DEF RulesMove
    <3>2. CASE c.rule # NewRule
      <4>1. ASSUME NEW x \in rules'
            PROVE  x \in RuleRecord /\ (x \in rules \/ (x.integration_id = c.gen /\ x.saved = resets))
        <5>1. PICK r \in rules :
                x = IF r.id = c.rule THEN [r EXCEPT !.integration_id = c.gen, !.saved = resets] ELSE r
          BY <2>2, <3>2 DEF saveRule
        <5>2. r \in RuleRecord
          BY <1>1
        <5>3. QED
          BY <1>1, <5>1, <5>2 DEF RuleRecord
      <4>2. QED
        BY <4>1 DEF RulesMove
    <3>3. QED
      BY <3>1, <3>2
  <2>3. CASE deleteRule(c)
    BY <2>1, <2>3 DEF deleteRule
  <2>4. CASE UNCHANGED rules
    BY <2>1, <2>4
  <2>5. QED
    BY <2>2, <2>3, <2>4 DEF Toggle, submitIntake, testIntegration
<1>4. PICK step \in {"done", "not found"} : Advances(c, step)
  BY <1>2
<1>5. PICK n \in CallRecord :
           Turns(c, n) /\ n.step = step /\ n.attempt_count = c.attempt_count /\ CallFits(n)
  BY <1>2, <1>4, Advancing
<1>6. DeliveryMoves(c, n)
  BY <1>2, <1>5 DEF DeliveryMoves
<1>7. QED
  BY <1>2, <1>3, <1>5, <1>6 DEF Served

\* The claim takes the count with it, if it finds the delivery waiting.
LEMMA ClaimServed ==
  ASSUME ConsoleBase, NEW c \in calls, c.op \in DeliveryOps,
         NEW otherwise \in SUBSET {"done", "not found"}, Claim(c, otherwise),
         UNCHANGED <<rules, integrations, resets>>
  PROVE  \E n : Served(c, n)
<1>1. /\ c \in CallRecord /\ ConsoleTypes /\ CallFits(c) /\ c.op # "resetDemo" /\ c.lead \in Leads
      /\ RulesMove(c)
  BY DEF ConsoleBase, ConsoleTypes, CallFits, DeliveryOps, RulesMove
<1>2. delivery[c.lead] \in Row /\ delivery[c.lead].attempt_count \in Nat
  BY <1>1 DEF ConsoleTypes, Row
<1>3. CASE Claimable(c)
  <2> DEFINE row == [delivery[c.lead] EXCEPT !.status = "processing"]
             new == [c EXCEPT !.attempt_count = delivery[c.lead].attempt_count, !.step = "attempt"]
  <2>1. Found(c) /\ delivery' = [delivery EXCEPT ![c.lead] = row] /\ Becomes(c, new)
    BY <1>3 DEF Claim, Claimable, Set
  <2>2. /\ row \in Row /\ row.gen = c.gen /\ row.attempt_count = delivery[c.lead].attempt_count
        /\ row.attempts = delivery[c.lead].attempts
    BY <1>2, <2>1 DEF Row, Found
  <2>3. /\ new \in CallRecord /\ Same(new, c) /\ new.at = c.at /\ new.step = "attempt"
        /\ new.attempt_count = delivery[c.lead].attempt_count
    BY <1>1, <1>2 DEF CallRecord, Same
  <2> HIDE DEF row, new
  <2>4. PICK n \in CallRecord :
           Turns(c, n) /\ n.step = new.step /\ n.attempt_count = new.attempt_count
    BY <1>1, <2>1, <2>3, Becoming
  <2>5. CallFits(n)
    BY <1>1, <2>3, <2>4, StepsFit DEF DeleteSteps, Turns
  <2>6. DeliveryMoves(c, n)
    BY <2>1, <2>2, <2>3, <2>4 DEF DeliveryMoves
  <2>7. QED
    BY <1>1, <2>4, <2>5, <2>6 DEF Served
<1>4. CASE ~Claimable(c)
  <2>1. PICK step \in {"done", "not found"} : Advances(c, step) /\ UNCHANGED delivery
    BY <1>4 DEF Claim
  <2>2. PICK n \in CallRecord :
           Turns(c, n) /\ n.step = step /\ n.attempt_count = c.attempt_count /\ CallFits(n)
    BY <1>1, <2>1, Advancing
  <2>3. DeliveryMoves(c, n)
    BY <2>1, <2>2 DEF DeliveryMoves
  <2>4. QED
    BY <1>1, <2>2, <2>3 DEF Served
<1>5. QED
  BY <1>3, <1>4

\* A statement of a delivery writes the row, if it is still there.
LEMMA RowServed ==
  ASSUME ConsoleBase, NEW c \in calls, c.op \in DeliveryOps,
         NEW row \in Row, Set(c, row), NEW step \in {"claim", "row", "done", "not found"}, Advances(c, step),
         UNCHANGED <<rules, integrations, resets>>,
         Found(c) =>
           /\ row.gen = c.gen
           /\ \/ /\ row.attempt_count = delivery[c.lead].attempt_count
                 /\ row.attempts = delivery[c.lead].attempts /\ step # "row"
              \/ /\ c.step = "attempt" /\ step = "row"
                 /\ row.attempt_count = delivery[c.lead].attempt_count
                 /\ row.attempts = delivery[c.lead].attempts + 1
              \/ /\ c.step = "row" /\ step = "done"
                 /\ row.attempt_count = c.attempt_count + 1
                 /\ row.attempts = delivery[c.lead].attempts
  PROVE  \E n : Served(c, n)
<1>1. c.op # "resetDemo" /\ RulesMove(c)
  BY DEF DeliveryOps, ConsoleBase, ConsoleTypes, RulesMove
<1>2. PICK n \in CallRecord :
         Turns(c, n) /\ n.step = step /\ n.attempt_count = c.attempt_count /\ CallFits(n)
  BY <1>1, Advancing
<1>3. DeliveryMoves(c, n)
  <2>1. CASE Found(c)
    <3>1. delivery' = [delivery EXCEPT ![c.lead] = row] /\ n.step # "attempt"
      BY <1>2, <2>1 DEF Set
    <3>2. QED
      BY <1>2, <2>1, <3>1 DEF DeliveryMoves
  <2>2. CASE ~Found(c)
    BY <2>2 DEF DeliveryMoves, Set
  <2>3. QED
    BY <2>1, <2>2
<1>4. QED
  BY <1>1, <1>2, <1>3 DEF Served

LEMMA DeliveryServed ==
  ASSUME ConsoleBase, NEW c \in calls, retryDelivery(c) \/ simulateFailureOnDelivery(c) \/ processDelivery(c)
  PROVE  \E n : Served(c, n)
<1>1. /\ c \in CallRecord /\ ConsoleTypes /\ CallFits(c)
      /\ UNCHANGED <<rules, integrations, resets>>
  BY DEF ConsoleBase, ConsoleTypes, retryDelivery, simulateFailureOnDelivery, processDelivery
<1>2. c.op \in DeliveryOps
  BY <1>1 DEF retryDelivery, simulateFailureOnDelivery, processDelivery, CallFits, DeliveryOps
<1>3. c.lead \in Leads /\ c.attempt_count \in Nat
  BY <1>1, <1>2 DEF CallFits, CallRecord
<1> DEFINE old == delivery[c.lead]
<1>4. old \in Row /\ (Found(c) => old.gen = c.gen) /\ old.attempts \in Nat
  BY <1>1, <1>3 DEF ConsoleTypes, Found, Row
<1>5. CASE retryDelivery(c)
  BY <1>1, <1>2, <1>5, ClaimServed DEF retryDelivery, NotFound
<1>6. CASE simulateFailureOnDelivery(c)
  <2>1. PICK step \in {"claim", "done", "not found"} : Advances(c, step)
    BY <1>6 DEF simulateFailureOnDelivery, NotFound
  <2>2. [old EXCEPT !.status = "queued"] \in Row
        /\ [old EXCEPT !.status = "queued"].gen = old.gen
        /\ [old EXCEPT !.status = "queued"].attempt_count = old.attempt_count
        /\ [old EXCEPT !.status = "queued"].attempts = old.attempts
    BY <1>4 DEF Row
  <2>3. Set(c, [old EXCEPT !.status = "queued"])
    BY <1>6 DEF simulateFailureOnDelivery
  <2>4. QED
    BY <1>1, <1>2, <1>4, <2>1, <2>2, <2>3, RowServed
<1>7. CASE c.step = "claim" /\ Claim(c, {"done"})
  BY <1>1, <1>2, <1>7, ClaimServed
<1>8. CASE c.step = "attempt" /\ Set(c, [old EXCEPT !.attempts = @ + 1]) /\ Advances(c, "row")
  <2>1. [old EXCEPT !.attempts = @ + 1] \in Row
        /\ [old EXCEPT !.attempts = @ + 1].gen = old.gen
        /\ [old EXCEPT !.attempts = @ + 1].attempt_count = old.attempt_count
        /\ [old EXCEPT !.attempts = @ + 1].attempts = old.attempts + 1
    BY <1>4 DEF Row
  <2>2. QED
    BY <1>1, <1>2, <1>4, <1>8, <2>1, RowServed
<1>9. ASSUME c.step = "row", NEW status \in {"delivered", "failed"},
             Set(c, [old EXCEPT !.status = status, !.attempt_count = c.attempt_count + 1]), Advances(c, "done")
      PROVE  \E n : Served(c, n)
  <2> DEFINE row == [old EXCEPT !.status = status, !.attempt_count = c.attempt_count + 1]
  <2>1. row \in Row /\ row.gen = old.gen /\ row.attempt_count = c.attempt_count + 1
        /\ row.attempts = old.attempts
    <3>1. c.attempt_count + 1 \in Nat /\ status \in {"delivered", "failed"} /\ old \in Row
      BY <1>3, <1>4
    <3> HIDE DEF old
    <3>2. QED
      BY <3>1 DEF Row
  <2>2. QED
    BY <1>1, <1>2, <1>4, <1>9, <2>1, RowServed
<1>10. QED
  BY <1>5, <1>6, <1>7, <1>8, <1>9 DEF processDelivery

\* No server function but a reset moves ids.
LEMMA ServedKeeps ==
  ASSUME ConsoleBase, NEW c, NEW n, Served(c, n)
  PROVE  ConsoleBase' /\ Known' = Known /\ \A s : ResetAt(s)' <=> ResetAt(s)
<1>1. c \in calls /\ c \in CallRecord /\ CallFits(c) /\ c.gen <= Known /\ ConsoleTypes
  BY DEF Served, ConsoleBase, ConsoleTypes
<1>2. n.op # "resetDemo" /\ n.gen = c.gen /\ n \in CallRecord /\ CallFits(n)
      /\ calls' = (calls \ {c}) \cup {n} /\ c.op # "resetDemo"
  BY DEF Served, Same, Turns
<1>3. \A s : ResetAt(s)' <=> ResetAt(s)
  BY <1>2 DEF ResetAt
<1>4. OneReset'
  BY <1>2 DEF OneReset, ConsoleBase
<1>5. \A d \in calls' : CallFits(d) /\ d.gen <= Known
  BY <1>1, <1>2 DEF ConsoleBase
<1>6. delivery' \in [Leads -> Row]
      /\ \A l \in Leads : delivery'[l].gen = delivery[l].gen /\ (delivery[l] = Gone => delivery'[l] = Gone)
  <2>1. DeliveryMoves(c, n) /\ delivery \in [Leads -> Row]
    BY <1>1 DEF Served, ConsoleTypes
  <2>2. CASE UNCHANGED delivery
    BY <2>1, <2>2
  <2>3. CASE delivery' # delivery
    <3>1. c.op \in DeliveryOps /\ Found(c)
      BY <2>1, <2>3 DEF DeliveryMoves
    <3>2. PICK row \in Row : delivery' = [delivery EXCEPT ![c.lead] = row] /\ row.gen = c.gen
      BY <2>1, <2>3 DEF DeliveryMoves
    <3>3. c.lead \in Leads /\ c.gen # 0 /\ delivery[c.lead].gen = c.gen
      BY <1>1, <3>1 DEF CallFits, Found
    <3>4. delivery[c.lead] # Gone
      BY <3>3, KeysOfPages
    <3>5. QED
      BY <2>1, <3>2, <3>3, <3>4
  <2>4. QED
    BY <2>2, <2>3
<1>7. ConsoleTypes'
  <2>1. calls' \subseteq CallRecord /\ writes' \in Nat
    BY <1>1, <1>2 DEF ConsoleTypes, Served, Turns
  <2>2. QED
    BY <1>1, <1>6, <2>1 DEF ConsoleTypes, Served, Turns, RulesMove
<1>8. QED
  BY <1>3, <1>4, <1>5, <1>6, <1>7, BaseFrame DEF Served, Turns, ConsoleBase

\* A reset goes from table to table.
Moved(c, n, from, to) ==
  c \in calls /\ c.op = "resetDemo" /\ c.step = from /\ n.step = to /\ n \in CallRecord /\ CallFits(n) /\ Turns(c, n)

LEMMA ResetMoves ==
  ASSUME ConsoleBase, NEW c \in calls, resetDemo(c)
  PROVE  \E n :
    \/ /\ Moved(c, n, "delivery_attempts", "deliveries")
       /\ delivery' = [l \in Leads |-> [delivery[l] EXCEPT !.attempts = 0]]
       /\ UNCHANGED <<rules, integrations, resets>>
    \/ /\ Moved(c, n, "deliveries", "routing_rules")
       /\ delivery' = [l \in Leads |-> Gone] /\ UNCHANGED <<rules, integrations, resets>>
    \/ /\ Moved(c, n, "routing_rules", "integrations")
       /\ rules' = {} /\ resets' = resets + 1 /\ UNCHANGED <<integrations, delivery>>
    \/ /\ Moved(c, n, "integrations", "seed")
       /\ integrations' = 0 /\ UNCHANGED <<rules, delivery, resets>>
    \/ /\ Moved(c, n, "seed", "done")
       /\ rules' = rules \cup {[id |-> resets + 1, integration_id |-> resets + 1, saved |-> resets]}
       /\ integrations' = resets + 1 /\ delivery' = Seeded(resets + 1) /\ UNCHANGED resets
<1>1. c \in CallRecord /\ CallFits(c) /\ ConsoleTypes /\ c.op = "resetDemo"
  BY DEF ConsoleBase, ConsoleTypes, resetDemo
<1>2. PICK i \in 1..5 : /\ DeleteOrder[i] = c.step
                        /\ Advances(c, IF i = 5 THEN "done" ELSE DeleteOrder[i + 1])
  BY DEF resetDemo, DeleteOrder
<1>3. /\ DeleteOrder[1] = "delivery_attempts" /\ DeleteOrder[2] = "deliveries"
      /\ DeleteOrder[3] = "routing_rules" /\ DeleteOrder[4] = "integrations" /\ DeleteOrder[5] = "seed"
  BY DEF DeleteOrder
<1>4. ASSUME NEW step \in DeleteSteps \cup {"done"}, Advances(c, step)
      PROVE  \E n \in CallRecord : Turns(c, n) /\ n.step = step /\ CallFits(n)
  <2> DEFINE new == [c EXCEPT !.step = step]
  <2>1. new \in CallRecord /\ Same(new, c) /\ new.at = c.at /\ new.step = step
    BY <1>1 DEF CallRecord, Same
  <2>2. Becomes(c, new)
    BY <1>4 DEF Advances
  <2> HIDE DEF new
  <2>3. PICK n \in CallRecord :
           Turns(c, n) /\ n.step = new.step /\ n.attempt_count = new.attempt_count
    BY <1>1, <2>1, <2>2, Becoming
  <2>4. Same(n, c) /\ n.step = step
    BY <2>1, <2>3 DEF Turns
  <2>5. CallFits(n)
    BY <1>1, <2>4 DEF CallFits, Same, SentFrom, DeleteSteps, DeliveryOps
  <2>6. QED
    BY <2>3, <2>4, <2>5
<1>5. CASE i = 1
  <2>1. c.step = "delivery_attempts" /\ Advances(c, "deliveries")
    BY <1>2, <1>3, <1>5
  <2>2. PICK n \in CallRecord : Turns(c, n) /\ n.step = "deliveries" /\ CallFits(n)
    BY <1>4, <2>1 DEF DeleteSteps
  <2>3. QED
    BY <1>1, <2>1, <2>2 DEF resetDemo, Moved
<1>6. CASE i = 2
  <2>1. c.step = "deliveries" /\ Advances(c, "routing_rules")
    BY <1>2, <1>3, <1>6
  <2>2. PICK n \in CallRecord : Turns(c, n) /\ n.step = "routing_rules" /\ CallFits(n)
    BY <1>4, <2>1 DEF DeleteSteps
  <2>3. QED
    BY <1>1, <2>1, <2>2 DEF resetDemo, Moved
<1>7. CASE i = 3
  <2>1. c.step = "routing_rules" /\ Advances(c, "integrations")
    BY <1>2, <1>3, <1>7
  <2>2. PICK n \in CallRecord : Turns(c, n) /\ n.step = "integrations" /\ CallFits(n)
    BY <1>4, <2>1 DEF DeleteSteps
  <2>3. QED
    BY <1>1, <2>1, <2>2 DEF resetDemo, Moved
<1>8. CASE i = 4
  <2>1. c.step = "integrations" /\ Advances(c, "seed")
    BY <1>2, <1>3, <1>8
  <2>2. PICK n \in CallRecord : Turns(c, n) /\ n.step = "seed" /\ CallFits(n)
    BY <1>4, <2>1 DEF DeleteSteps
  <2>3. QED
    BY <1>1, <2>1, <2>2 DEF resetDemo, Moved
<1>9. CASE i = 5
  <2>1. c.step = "seed" /\ Advances(c, "done")
    BY <1>2, <1>3, <1>9
  <2>2. PICK n \in CallRecord : Turns(c, n) /\ n.step = "done" /\ CallFits(n)
    BY <1>4, <2>1
  <2>3. QED
    BY <1>1, <2>1, <2>2 DEF resetDemo, Moved
<1>10. QED
  BY <1>2, <1>5, <1>6, <1>7, <1>8, <1>9

\* There is one reset, and it is where it says.
LEMMA OneMoves ==
  ASSUME ConsoleBase, NEW c, NEW n, NEW from, NEW to, Moved(c, n, from, to)
  PROVE  /\ \A s : (ResetAt(s) <=> s = from) /\ (ResetAt(s)' <=> s = to)
         /\ OneReset' /\ calls' \subseteq CallRecord /\ writes' \in Nat
         /\ UNCHANGED <<page, cache, fetch, told, events>>
         /\ \A d \in calls' : CallFits(d) /\ d.gen <= Known /\ d.gen \in Nat
<1>1. /\ c \in calls /\ c.op = "resetDemo" /\ c.step = from /\ n.step = to /\ n \in CallRecord
      /\ CallFits(n) /\ n.op = c.op /\ n.gen = c.gen /\ calls' = (calls \ {c}) \cup {n}
      /\ writes' \in {writes, writes + 1} /\ UNCHANGED <<page, cache, fetch, told, events>>
  BY DEF Moved, Turns, Same
<1>2. \A d \in calls : d.op = "resetDemo" => d = c
  BY <1>1 DEF ConsoleBase, OneReset
<1>3. \A s : (ResetAt(s) <=> s = from) /\ (ResetAt(s)' <=> s = to)
  BY <1>1, <1>2 DEF ResetAt
<1>4. OneReset'
  BY <1>1, <1>2 DEF OneReset
<1>5. calls \subseteq CallRecord /\ writes \in Nat /\ \A d \in calls : CallFits(d) /\ d.gen <= Known
  BY DEF ConsoleBase, ConsoleTypes
<1>6. calls' \subseteq CallRecord
  BY <1>1, <1>5
<1>7. \A d \in calls' : CallFits(d) /\ d.gen <= Known
  BY <1>1, <1>5
<1>8. \A d \in CallRecord : d.gen \in Nat
  BY DEF CallRecord
<1>9. QED
  BY <1>1, <1>3, <1>4, <1>5, <1>6, <1>7, <1>8

LEMMA ResetKeeps ==
  ASSUME ConsoleBase, NEW c \in calls, resetDemo(c)
  PROVE  ConsoleBase' /\ Known <= Known'
<1>1. ConsoleTypes /\ Known \in Nat /\ resets \in Nat /\ Tables
  BY KnownIsNat DEF ConsoleBase, ConsoleTypes
<1>2. ASSUME NEW n, NEW from, NEW to, Moved(c, n, from, to),
             rules' \subseteq RuleRecord, integrations' \in Nat, delivery' \in [Leads -> Row], resets' \in Nat,
             Tables', Known' \in Nat, Known <= Known'
      PROVE  ConsoleBase' /\ Known <= Known'
  <2>1. /\ OneReset' /\ calls' \subseteq CallRecord /\ writes' \in Nat
        /\ UNCHANGED <<page, cache, fetch, told, events>>
        /\ \A d \in calls' : CallFits(d) /\ d.gen <= Known /\ d.gen \in Nat
    BY <1>2, OneMoves
  <2>2. ConsoleTypes'
    BY <1>1, <1>2, <2>1 DEF ConsoleTypes
  <2>3. \A d \in calls' : CallFits(d) /\ d.gen <= Known'
    BY <1>1, <1>2, <2>1
  <2>4. /\ \A k \in Keys : Dated(k, cache'[k].data, Known') /\ Dated(k, fetch'[k].data, Known')
        /\ \A k \in Keys \ Leads : fetch'[k].stage # "row"
    BY <1>1, <1>2, <2>1, DatedLater, CacheHasTypes DEF ConsoleBase
  <2>5. QED
    BY <1>2, <2>1, <2>2, <2>3, <2>4 DEF ConsoleBase
<1>3. delivery \in [Leads -> Row] /\ rules \subseteq RuleRecord /\ integrations \in Nat
  BY <1>1 DEF ConsoleTypes
<1>4. ASSUME NEW n, Moved(c, n, "delivery_attempts", "deliveries"),
             delivery' = [l \in Leads |-> [delivery[l] EXCEPT !.attempts = 0]],
             UNCHANGED <<rules, integrations, resets>>
      PROVE  ConsoleBase' /\ Known <= Known'
  <2>1. \A s : (ResetAt(s) <=> s = "delivery_attempts") /\ (ResetAt(s)' <=> s = "deliveries")
    BY <1>4, OneMoves
  <2>2. Known = resets + 1 /\ Known' = resets + 1
    BY <1>4, <2>1 DEF Known
  <2>3. \A l \in Leads : delivery'[l] \in Row /\ delivery'[l].gen = delivery[l].gen
    BY <1>3, <1>4 DEF Row
  <2>4. delivery' \in [Leads -> Row]
    BY <1>4, <2>3
  <2>5. Tables'
    BY <1>1, <1>4, <2>1, <2>2, <2>3 DEF Tables
  <2>6. QED
    BY <1>1, <1>2, <1>3, <1>4, <2>2, <2>4, <2>5
<1>5. ASSUME NEW n, Moved(c, n, "deliveries", "routing_rules"),
             delivery' = [l \in Leads |-> Gone], UNCHANGED <<rules, integrations, resets>>
      PROVE  ConsoleBase' /\ Known <= Known'
  <2>1. \A s : (ResetAt(s) <=> s = "deliveries") /\ (ResetAt(s)' <=> s = "routing_rules")
    BY <1>5, OneMoves
  <2>2. Known = resets + 1 /\ Known' = resets + 1
    BY <1>5, <2>1 DEF Known
  <2>3. delivery' \in [Leads -> Row] /\ \A l \in Leads : delivery'[l] = Gone
    BY <1>5, KeysOfPages
  <2>4. Tables'
    BY <1>1, <1>5, <2>1, <2>2, <2>3 DEF Tables
  <2>5. QED
    BY <1>1, <1>2, <1>3, <1>5, <2>2, <2>3, <2>4
<1>6. ASSUME NEW n, Moved(c, n, "routing_rules", "integrations"),
             rules' = {}, resets' = resets + 1, UNCHANGED <<integrations, delivery>>
      PROVE  ConsoleBase' /\ Known <= Known'
  <2>1. \A s : (ResetAt(s) <=> s = "routing_rules") /\ (ResetAt(s)' <=> s = "integrations")
    BY <1>6, OneMoves
  <2>2. Known = resets + 1 /\ Known' = resets + 1
    BY <1>6, <2>1 DEF Known
  <2>3. Tables'
    BY <1>1, <1>6, <2>1, <2>2 DEF Tables
  <2>4. QED
    BY <1>1, <1>2, <1>3, <1>6, <2>2, <2>3
<1>7. ASSUME NEW n, Moved(c, n, "integrations", "seed"),
             integrations' = 0, UNCHANGED <<rules, delivery, resets>>
      PROVE  ConsoleBase' /\ Known <= Known'
  <2>1. \A s : (ResetAt(s) <=> s = "integrations") /\ (ResetAt(s)' <=> s = "seed")
    BY <1>7, OneMoves
  <2>2. Known = resets /\ Known' = resets
    BY <1>7, <2>1 DEF Known
  <2>3. Tables'
    BY <1>1, <1>7, <2>1, <2>2 DEF Tables
  <2>4. QED
    BY <1>1, <1>2, <1>3, <1>7, <2>2, <2>3
<1>8. ASSUME NEW n, Moved(c, n, "seed", "done"),
             rules' = rules \cup {[id |-> resets + 1, integration_id |-> resets + 1, saved |-> resets]},
             integrations' = resets + 1, delivery' = Seeded(resets + 1), UNCHANGED resets
      PROVE  ConsoleBase' /\ Known <= Known'
  <2>1. \A s : (ResetAt(s) <=> s = "seed") /\ (ResetAt(s)' <=> s = "done")
    BY <1>8, OneMoves
  <2>2. Known = resets /\ Known' = resets + 1
    BY <1>8, <2>1 DEF Known
  <2>3. delivery' \in [Leads -> Row] /\ \A l \in Leads : delivery'[l].gen = resets + 1
    BY <1>1, <1>8 DEF Seeded, Row
  <2>4. rules' \subseteq RuleRecord
    BY <1>1, <1>3, <1>8 DEF RuleRecord
  <2>5. Tables'
    BY <1>1, <1>8, <2>1, <2>2, <2>3 DEF Tables
  <2>6. QED
    BY <1>1, <1>2, <1>3, <1>8, <2>2, <2>3, <2>4, <2>5
<1>9. QED
  BY <1>4, <1>5, <1>6, <1>7, <1>8, ResetMoves

\* The answer to a call touches no table.
LEMMA ReturnKeeps ==
  ASSUME ConsoleBase, NEW c \in calls, Return(c)
  PROVE  /\ ConsoleBase' /\ Known' = Known
         /\ \A s \in DeleteSteps : ResetAt(s)' <=> ResetAt(s)
         /\ \A k \in Keys : fetch'[k] \in {fetch[k], Asked}
<1>1. ConsoleTypes /\ calls' = calls \ {c} /\ c.step \notin DeleteSteps
      /\ UNCHANGED <<page, consoleDb, events>>
  BY DEF Return, DeleteSteps, ConsoleBase
<1>2. \A s \in DeleteSteps : ResetAt(s)' <=> ResetAt(s)
  BY <1>1 DEF ResetAt
<1>3. OneReset' /\ \A d \in calls' : CallFits(d) /\ d.gen <= Known
  BY <1>1 DEF OneReset, ConsoleBase
<1> DEFINE TypedAnswers ==
      /\ cache' \in [Keys -> CacheEntry] /\ fetch' \in [Keys -> FetchEntry]
      /\ \A k \in Keys : cache'[k].data = cache[k].data /\ fetch'[k] \in {fetch[k], Asked}
<1>4. TypedAnswers
  <2>1. CASE UNCHANGED <<cache, fetch>>
    BY <1>1, <2>1 DEF ConsoleTypes
  <2>2. ASSUME NEW ks, invalidateQueries(ks) PROVE TypedAnswers
    <3>1. ASSUME NEW k \in Keys
          PROVE  cache'[k] \in CacheEntry /\ cache'[k].data = cache[k].data /\ fetch'[k] \in {fetch[k], Asked}
      <4>1. cache[k] \in CacheEntry /\ cache'[k] \in {cache[k], [cache[k] EXCEPT !.invalid = TRUE]}
        BY <1>1, <2>2, CacheHasTypes DEF invalidateQueries
      <4>2. fetch'[k] \in {fetch[k], Asked}
        BY <2>2 DEF invalidateQueries
      <4>3. QED
        BY <4>1, <4>2 DEF CacheEntry
    <3>2. DOMAIN cache' = Keys /\ DOMAIN fetch' = Keys
          /\ cache' = [k \in Keys |-> cache'[k]] /\ fetch' = [k \in Keys |-> fetch'[k]]
      BY <2>2 DEF invalidateQueries
    <3>3. \A k \in Keys : fetch'[k] \in FetchEntry
      BY <1>1, <3>1, KeysOfPages, CacheHasTypes
    <3>4. QED
      BY <3>1, <3>2, <3>3
  <2>3. QED
    BY <2>1, <2>2 DEF Return
<1>5. ConsoleTypes'
  <2>1. told' \in [Keys -> Nat]
    <3>1. calls \subseteq CallRecord /\ c.at \in Nat /\ told \in [Keys -> Nat]
      BY <1>1 DEF ConsoleTypes, CallRecord
    <3>2. QED
      BY <3>1 DEF Return
  <2>2. QED
    BY <1>1, <1>4, <2>1 DEF ConsoleTypes, consoleDb
<1>6. \A k \in Keys : Dated(k, cache'[k].data, Known) /\ Dated(k, fetch'[k].data, Known)
  BY <1>1, <1>4, KeysOfPages, KnownIsNat DEF ConsoleBase
<1>7. \A k \in Keys \ Leads : fetch'[k].stage # "row"
  BY <1>4, KeysOfPages DEF ConsoleBase
<1>8. QED
  BY <1>1, <1>2, <1>3, <1>4, <1>5, <1>6, <1>7, BaseFrame DEF consoleDb, DeleteSteps, ConsoleBase

\* A navigation asks for what is not there, and parts calls from their page.
LEMMA NavigateKeeps ==
  ASSUME ConsoleBase, NEW p \in Pages, Navigate(p)
  PROVE  /\ ConsoleBase' /\ Known' = Known /\ \A s : ResetAt(s)' <=> ResetAt(s)
         /\ \A k \in Keys : fetch'[k] \in {fetch[k], Asked}
         /\ \A n \in calls' : \E c \in calls :
              n = c \/ (n = [c EXCEPT !.closure = page] /\ c.closure = "here" /\ page \in Pages)
<1>1. ConsoleTypes /\ page \in Pages
  BY DEF ConsoleBase, ConsoleTypes
<1>2. \A n \in calls' : \E c \in calls :
        n = c \/ (n = [c EXCEPT !.closure = page] /\ c.closure = "here")
  <2>1. CASE calls' = calls
    BY <2>1
  <2>2. ASSUME calls' = {[c EXCEPT !.closure = IF @ = "here" THEN page ELSE @] : c \in calls},
               NEW n \in calls'
        PROVE  \E c \in calls : n = c \/ (n = [c EXCEPT !.closure = page] /\ c.closure = "here")
    <3>1. PICK c \in calls : n = [c EXCEPT !.closure = IF @ = "here" THEN page ELSE @]
      BY <2>2
    <3>2. c \in CallRecord
      BY <1>1 DEF ConsoleTypes
    <3>3. CASE c.closure = "here"
      BY <3>1, <3>3
    <3>4. CASE c.closure # "here"
      BY <3>1, <3>2, <3>4 DEF CallRecord
    <3>5. QED
      BY <3>3, <3>4
  <2>3. QED
    BY <2>1, <2>2 DEF Navigate
<1>3. \A c \in calls : \E n \in calls' :
        n = c \/ (n = [c EXCEPT !.closure = page] /\ c.closure = "here")
  <2>1. CASE calls' = calls
    BY <2>1
  <2>2. ASSUME calls' = {[c EXCEPT !.closure = IF @ = "here" THEN page ELSE @] : c \in calls},
               NEW c \in calls
        PROVE  \E n \in calls' : n = c \/ (n = [c EXCEPT !.closure = page] /\ c.closure = "here")
    <3>1. [c EXCEPT !.closure = IF @ = "here" THEN page ELSE @] \in calls'
      BY <2>2
    <3>2. c \in CallRecord
      BY <1>1 DEF ConsoleTypes
    <3>3. CASE c.closure = "here"
      BY <3>1, <3>3
    <3>4. CASE c.closure # "here"
      <4>1. [c EXCEPT !.closure = IF @ = "here" THEN page ELSE @] = c
        BY <3>2, <3>4 DEF CallRecord
      <4>2. QED
        BY <3>1, <4>1
    <3>5. QED
      BY <3>3, <3>4
  <2>3. QED
    BY <2>1, <2>2 DEF Navigate
<1>4. ASSUME NEW c \in CallRecord, CallFits(c), NEW n,
             n = c \/ (n = [c EXCEPT !.closure = page] /\ c.closure = "here")
      PROVE  n \in CallRecord /\ CallFits(n) /\ n.op = c.op /\ n.step = c.step /\ n.gen = c.gen
  <2>1. CASE n = c
    BY <1>4, <2>1
  <2>2. CASE n = [c EXCEPT !.closure = page] /\ c.closure = "here"
    <3>1. /\ n \in CallRecord /\ n.op = c.op /\ n.step = c.step /\ n.gen = c.gen /\ n.lead = c.lead
          /\ n.from = c.from
      BY <1>1, <1>4, <2>2 DEF CallRecord
    <3>2. CallFits(n)
      BY <1>4, <2>2, <3>1 DEF CallFits, SentFrom
    <3>3. QED
      BY <3>1, <3>2
  <2>3. QED
    BY <1>4, <2>1, <2>2
<1>5. \A c \in calls : c \in CallRecord /\ CallFits(c) /\ c.gen <= Known
  BY DEF ConsoleBase, ConsoleTypes
<1>6. \A s : ResetAt(s)' <=> ResetAt(s)
  <2>1. ASSUME NEW s, ResetAt(s) PROVE ResetAt(s)'
    BY <1>3, <1>4, <1>5, <2>1 DEF ResetAt
  <2>2. ASSUME NEW s, ResetAt(s)' PROVE ResetAt(s)
    BY <1>2, <1>4, <1>5, <2>2 DEF ResetAt
  <2>3. QED
    BY <2>1, <2>2
<1>7. OneReset'
  <2>1. CASE calls' = calls
    BY <2>1 DEF OneReset, ConsoleBase
  <2>2. CASE calls' = {[c EXCEPT !.closure = IF @ = "here" THEN page ELSE @] : c \in calls}
    <3>1. ASSUME NEW m \in calls', NEW n \in calls', m.op = "resetDemo", n.op = "resetDemo"
          PROVE  m = n
      <4>1. PICK c \in calls : m = [c EXCEPT !.closure = IF @ = "here" THEN page ELSE @]
        BY <2>2
      <4>2. PICK d \in calls : n = [d EXCEPT !.closure = IF @ = "here" THEN page ELSE @]
        BY <2>2
      <4>3. c.op = m.op /\ d.op = n.op
        BY <1>5, <4>1, <4>2 DEF CallRecord
      <4>4. c = d
        BY <3>1, <4>3 DEF OneReset, ConsoleBase
      <4>5. QED
        BY <4>1, <4>2, <4>4
    <3>2. QED
      BY <3>1 DEF OneReset
  <2>3. QED
    BY <2>1, <2>2 DEF Navigate
<1>8. \A d \in calls' : d \in CallRecord /\ CallFits(d) /\ d.gen <= Known
  BY <1>2, <1>4, <1>5
<1>9. fetch' \in [Keys -> FetchEntry] /\ \A k \in Keys : fetch'[k] \in {fetch[k], Asked}
  <2>1. PICK old \in SUBSET Queries(p) :
          fetch' = [k \in Keys |->
            IF /\ k \in Queries(p) /\ fetch[k].stage = "idle"
               /\ cache[k].readAt < 0 \/ cache[k].invalid \/ k \in old
            THEN Asked ELSE fetch[k]]
    BY DEF Navigate
  <2>2. \A k \in Keys : fetch'[k] \in {fetch[k], Asked}
    BY <2>1
  <2>3. \A k \in Keys : fetch'[k] \in FetchEntry
    BY <1>1, <2>2, KeysOfPages, CacheHasTypes
  <2>4. QED
    BY <2>1, <2>2, <2>3
<1>10. page' = p /\ UNCHANGED <<cache, consoleDb, told>> /\ events' \in Nat
  BY <1>1 DEF Navigate, Happens, ConsoleTypes
<1>11. ConsoleTypes'
  BY <1>1, <1>8, <1>9, <1>10 DEF ConsoleTypes, consoleDb
<1>12. \A k \in Keys : Dated(k, cache'[k].data, Known) /\ Dated(k, fetch'[k].data, Known)
  BY <1>1, <1>9, <1>10, KeysOfPages, KnownIsNat DEF ConsoleBase
<1>13. \A k \in Keys \ Leads : fetch'[k].stage # "row"
  BY <1>9, KeysOfPages DEF ConsoleBase
<1>14. QED
  BY <1>1, <1>2, <1>6, <1>7, <1>8, <1>9, <1>10, <1>11, <1>12, <1>13, BaseFrame DEF consoleDb, ConsoleBase

\* What an answer with ids, or with a row, tells.
LEMMA DatedIds ==
  ASSUME NEW k, NEW g \in Nat, NEW ids, ids \subseteq Nat \/ ids \subseteq Leads \X Nat,
         k = "rules" => ids \subseteq Nat, k = "integrations" => ids \subseteq 1..g,
         k = "deliveries" => ids \subseteq Leads \X (1..g),
         NEW d, d = [Nothing EXCEPT !.ids = ids]
  PROVE  d \in Data /\ Dated(k, d, g)
<1>1. /\ Nothing = [ids |-> {}, row |-> Gone, torn |-> FALSE] /\ Gone \in Row /\ Gone.gen = 0
  BY KeysOfPages DEF Nothing
<1>2. d = [ids |-> ids, row |-> Gone, torn |-> FALSE]
  BY <1>1
<1>3. d \in Data
  BY <1>1, <1>2 DEF Data
<1>4. d.row.gen = 0 /\ d.ids = ids
  BY <1>1, <1>2
<1>5. QED
  BY <1>3, <1>4 DEF Dated

LEMMA DatedRow ==
  ASSUME NEW k, NEW g \in Nat, NEW row \in Row, row.gen <= g, NEW torn, torn \in BOOLEAN,
         NEW d, d = [ids |-> {}, row |-> row, torn |-> torn]
  PROVE  d \in Data /\ Dated(k, d, g)
<1>1. d.row = row /\ d.ids = {}
  OBVIOUS
<1>2. {} \in SUBSET (Nat \cup (Leads \X Nat))
  OBVIOUS
<1>3. d \in Data
  BY <1>2 DEF Data
<1>4. QED
  BY <1>1, <1>3 DEF Dated

\* Queries tell what the tables hold.
LEMMA ViewIsDated ==
  ASSUME ConsoleBase, NEW k \in Keys
  PROVE  View(k) \in Data /\ Dated(k, View(k), Known)
<1>1. ConsoleTypes /\ Known \in Nat /\ Tables
  BY KnownIsNat DEF ConsoleBase
<1>2. k \in Leads => k \notin {"rules", "integrations", "deliveries"}
  BY ConsoleAssumption DEF FixedPages
<1>3. integrations \in Nat /\ integrations <= Known
  BY <1>1 DEF Tables, ConsoleTypes
<1>4. \A l \in Leads : delivery[l] \in Row /\ delivery[l].gen \in Nat /\ delivery[l].gen <= Known
  <2>1. \A l \in Leads : delivery[l] \in Row /\ delivery[l].gen \in Nat
    BY <1>1 DEF ConsoleTypes, Row
  <2>2. resets \in Nat /\ Gone.gen = 0
    BY <1>1, KeysOfPages DEF ConsoleTypes
  <2>3. CASE ResetAt("routing_rules") \/ ResetAt("integrations") \/ ResetAt("seed")
    BY <1>1, <2>1, <2>2, <2>3 DEF Tables
  <2>4. CASE ~(ResetAt("routing_rules") \/ ResetAt("integrations") \/ ResetAt("seed"))
    <3>1. Known = resets + 1
      BY <2>4 DEF Known
    <3>2. \A l \in Leads : delivery[l].gen = resets + 1
      BY <1>1, <2>4 DEF Tables
    <3>3. QED
      BY <2>1, <2>2, <3>1, <3>2
  <2>5. QED
    BY <2>3, <2>4
<1>5. CASE k = "rules"
  <2> DEFINE ids == {r.id : r \in {x \in rules : x.integration_id = integrations}}
  <2>1. ids \in SUBSET Nat
    BY <1>1 DEF ConsoleTypes, RuleRecord
  <2>2. View(k) = [Nothing EXCEPT !.ids = ids]
    BY <1>2, <1>5 DEF View
  <2> HIDE DEF ids
  <2>3. QED
    BY <1>1, <1>5, <2>1, <2>2, DatedIds
<1>6. CASE k = "integrations"
  <2> DEFINE ids == {integrations} \ {0}
  <2>1. ids \in SUBSET Nat /\ ids \subseteq 1..Known
    BY <1>1, <1>3
  <2>2. View(k) = [Nothing EXCEPT !.ids = ids]
    BY <1>2, <1>6 DEF View
  <2> HIDE DEF ids
  <2>3. ids \subseteq Nat /\ k # "rules" /\ k # "deliveries"
    BY <1>6, <2>1
  <2>4. QED
    BY <1>1, <2>1, <2>2, <2>3, DatedIds
<1>7. CASE k = "deliveries"
  <2> DEFINE ids == {<<l, delivery[l].gen>> : l \in {x \in Leads : delivery[x].status \in {"queued", "failed"}}}
  <2>1. \A l \in Leads : delivery[l].status \in {"queued", "failed"} => delivery[l].gen \in 1..Known
    <3>1. ASSUME NEW l \in Leads, delivery[l].status \in {"queued", "failed"} PROVE delivery[l].gen # 0
      <4>1. delivery[l] # Gone
        BY <3>1 DEF Gone
      <4>2. delivery[l].gen = resets + 1 /\ resets \in Nat
        BY <1>1, <4>1 DEF Tables, ConsoleTypes
      <4>3. QED
        BY <4>2
    <3>2. QED
      BY <1>1, <1>4, <3>1
  <2>2. ids \in SUBSET (Leads \X Nat) /\ ids \subseteq Leads \X (1..Known)
    BY <1>4, <2>1
  <2>3. View(k) = [Nothing EXCEPT !.ids = ids]
    BY <1>2, <1>7 DEF View
  <2> HIDE DEF ids
  <2>4. QED
    BY <1>1, <1>7, <2>2, <2>3, DatedIds
<1>8. CASE k \in Leads
  <2>1. View(k) = [ids |-> {}, row |-> delivery[k], torn |-> Deleting]
    BY <1>2, <1>8 DEF View, Nothing
  <2>2. delivery[k] \in Row /\ delivery[k].gen <= Known /\ Deleting \in BOOLEAN
    BY <1>4, <1>8 DEF Deleting
  <2>3. QED
    BY <1>1, <2>1, <2>2, DatedRow
<1>9. CASE k \notin {"rules", "integrations", "deliveries"} \cup Leads
  <2>1. View(k) = Nothing
    BY <1>9 DEF View
  <2>2. QED
    BY <1>1, <2>1, KeysOfPages
<1>10. QED
  BY <1>5, <1>6, <1>7, <1>8, <1>9

\* Requests under way touch no table and no call.
LEMMA QueriesKeep ==
  ASSUME ConsoleBase, NEW k \in Keys, Query(k) \/ QueryAttempts(k) \/ Answer(k) \/ QueryFails(k) \/ Refetch(k)
  PROVE  ConsoleBase' /\ Known' = Known /\ \A s : ResetAt(s)' <=> ResetAt(s)
<1>1. ConsoleTypes /\ Known \in Nat /\ UNCHANGED <<page, calls, consoleDb, told>> /\ events' \in Nat
  BY KnownIsNat DEF Query, QueryAttempts, Answer, QueryFails, Refetch, Happens, ConsoleBase, ConsoleTypes
<1>2. \A s : ResetAt(s)' <=> ResetAt(s)
  BY <1>1 DEF ResetAt
<1>3. OneReset' /\ \A c \in calls' : CallFits(c) /\ c.gen <= Known
  BY <1>1 DEF OneReset, ConsoleBase
<1>4. /\ cache[k] \in CacheEntry /\ cache[k].data \in Data /\ fetch[k] \in FetchEntry
      /\ fetch[k].data \in Data /\ fetch[k].readAt \in Nat
      /\ fetch[k].data.row \in Row /\ Dated(k, fetch[k].data, Known) /\ Dated(k, cache[k].data, Known)
  BY <1>1, CacheHasTypes DEF ConsoleBase
<1>5. ASSUME NEW x \in CacheEntry, NEW y \in FetchEntry, Dated(k, x.data, Known), Dated(k, y.data, Known),
             y.stage = "row" => k \in Leads,
             cache' = [cache EXCEPT ![k] = x], fetch' = [fetch EXCEPT ![k] = y]
      PROVE  ConsoleBase' /\ Known' = Known
  <2>1. cache' \in [Keys -> CacheEntry] /\ fetch' \in [Keys -> FetchEntry]
    BY <1>1, <1>5 DEF ConsoleTypes
  <2>2. ConsoleTypes'
    BY <1>1, <2>1 DEF ConsoleTypes, consoleDb
  <2>3. \A j \in Keys : Dated(j, cache'[j].data, Known) /\ Dated(j, fetch'[j].data, Known)
    BY <1>1, <1>5 DEF ConsoleTypes, ConsoleBase
  <2>4. \A j \in Keys \ Leads : fetch'[j].stage # "row"
    BY <1>1, <1>5 DEF ConsoleTypes, ConsoleBase
  <2>5. QED
    BY <1>1, <1>2, <1>3, <2>2, <2>3, <2>4, BaseFrame DEF consoleDb, ConsoleBase
<1>6. cache = [cache EXCEPT ![k] = cache[k]] /\ fetch = [fetch EXCEPT ![k] = fetch[k]]
  BY <1>1 DEF ConsoleTypes
<1>7. CASE Query(k)
  <2> DEFINE y == [stage |-> IF k \in Leads THEN "row" ELSE "read", readAt |-> writes, data |-> View(k)]
  <2>1. y \in FetchEntry /\ Dated(k, y.data, Known) /\ (y.stage = "row" => k \in Leads)
    BY <1>1, ViewIsDated DEF FetchEntry, ConsoleTypes
  <2>2. fetch' = [fetch EXCEPT ![k] = y] /\ cache' = cache
    BY <1>7 DEF Query
  <2> HIDE DEF y
  <2>3. QED
    BY <1>2, <1>4, <1>5, <1>6, <2>1, <2>2
<1>8. CASE QueryAttempts(k)
  <2>1. PICK a \in Nat, torn \in BOOLEAN :
          fetch' = [fetch EXCEPT ![k].stage = "read", ![k].data.row.attempts = a, ![k].data.torn = torn]
    <3>1. \E a, torn : fetch' = [fetch EXCEPT ![k].stage = "read", ![k].data.row.attempts = a, ![k].data.torn = torn]
                       /\ a \in {0, delivery[k].attempts} /\ torn \in BOOLEAN
      BY <1>8 DEF QueryAttempts, Deleting
    <3>2. k \in Leads
      BY <1>8 DEF QueryAttempts, ConsoleBase
    <3>3. delivery[k].attempts \in Nat
      BY <1>1, <3>2 DEF ConsoleTypes, Row
    <3>4. QED
      BY <3>1, <3>3
  <2> DEFINE y == [fetch[k] EXCEPT !.stage = "read", !.data.row.attempts = a, !.data.torn = torn]
  <2>2. fetch' = [fetch EXCEPT ![k] = y] /\ cache' = cache
    BY <1>1, <1>8, <2>1 DEF QueryAttempts, ConsoleTypes
  <2>3. y \in FetchEntry /\ y.stage = "read" /\ y.data.ids = fetch[k].data.ids /\ y.data.row.gen = fetch[k].data.row.gen
    BY <1>4 DEF FetchEntry, Data, Row
  <2>4. Dated(k, y.data, Known)
    BY <1>4, <2>3 DEF Dated
  <2> HIDE DEF y
  <2>5. QED
    BY <1>2, <1>4, <1>5, <1>6, <2>2, <2>3, <2>4
<1>9. CASE Answer(k)
  <2> DEFINE x == [Unread EXCEPT !.readAt = fetch[k].readAt, !.data = fetch[k].data]
  <2>1. x \in CacheEntry /\ x.data = fetch[k].data
    BY <1>4, KeysOfPages DEF CacheEntry
  <2>2. cache' = [cache EXCEPT ![k] = x] /\ fetch' = [fetch EXCEPT ![k] = NoFetch]
    BY <1>9 DEF Answer
  <2> HIDE DEF x
  <2>3. QED
    BY <1>1, <1>2, <1>4, <1>5, <2>1, <2>2, KeysOfPages
<1>10. CASE QueryFails(k)
  <2> DEFINE x == [cache[k] EXCEPT !.error = TRUE, !.invalid = TRUE]
  <2>1. x \in CacheEntry /\ x.data = cache[k].data
    BY <1>4 DEF CacheEntry
  <2>2. cache' = [cache EXCEPT ![k] = x] /\ fetch' = [fetch EXCEPT ![k] = NoFetch]
    BY <1>1, <1>10 DEF QueryFails, ConsoleTypes
  <2> HIDE DEF x
  <2>3. QED
    BY <1>1, <1>2, <1>4, <1>5, <2>1, <2>2, KeysOfPages
<1>11. CASE Refetch(k)
  <2>1. cache' = cache /\ fetch' = [fetch EXCEPT ![k] = Asked]
    BY <1>11 DEF Refetch
  <2>2. Asked \in FetchEntry /\ Asked.stage = "asked" /\ Dated(k, Asked.data, Known)
    BY <1>1, KeysOfPages
  <2>3. QED
    BY <1>2, <1>4, <1>5, <1>6, <2>1, <2>2
<1>12. QED
  BY <1>7, <1>8, <1>9, <1>10, <1>11

\* The steps of the console, by what they do to it.
LEMMA ConsoleSteps ==
  ASSUME ConsoleBase, ConsoleNext
  PROVE  \/ \E p \in Pages : Navigate(p)
         \/ \E k \in Keys : Query(k) \/ QueryAttempts(k) \/ Answer(k) \/ QueryFails(k) \/ Refetch(k)
         \/ \E c : Sent(c)
         \/ \E c, n : Served(c, n)
         \/ \E c \in calls : resetDemo(c) \/ Return(c)
<1>1. CASE \E p \in Pages : Navigate(p)
  BY <1>1
<1>2. CASE \E k \in Keys : Query(k) \/ QueryAttempts(k) \/ Answer(k) \/ QueryFails(k) \/ Refetch(k)
  BY <1>2
<1>3. CASE RoutingPage \/ IntegrationsPage \/ DeliveriesPage \/ LeadDetailPage \/ SettingsPage \/ IntakePage
  BY <1>3, PagesSend
<1>4. CASE Elsewhere
  BY <1>4, OthersSend
<1>5. ASSUME NEW c \in calls, Serve(c) PROVE resetDemo(c) \/ \E d, n : Served(d, n)
  BY <1>5, PlainServed, DeliveryServed DEF Serve
<1>6. CASE \E c \in calls : Serve(c) \/ Return(c)
  BY <1>5, <1>6
<1>7. QED
  BY <1>1, <1>2, <1>3, <1>4, <1>6 DEF ConsoleNext

\* The console begins with the first seed in place.
LEMMA ConsoleBegins ==
  ASSUME ConsoleInit
  PROVE  /\ ConsoleBase /\ ~ResetAt("deliveries") /\ calls = {}
         /\ \A k \in Keys : fetch[k] \in {Asked, NoFetch} /\ cache[k] = Unread
         /\ \A l \in Leads : delivery[l].attempt_count = 0 /\ delivery[l].attempts = 0
<1>1. /\ page \in Pages /\ calls = {} /\ resets = 0 /\ writes = 0 /\ events = 0 /\ integrations = 1
      /\ told = [k \in Keys |-> 0] /\ cache = [k \in Keys |-> Unread]
      /\ fetch = [k \in Keys |-> IF k \in Queries(page) THEN Asked ELSE NoFetch]
  BY ConsoleAssumption DEF ConsoleInit
<1>2. \A k \in Keys : fetch[k] \in {Asked, NoFetch} /\ cache[k] = Unread
  BY <1>1
<1>3. \A k \in Keys : fetch[k] \in FetchEntry /\ cache[k] \in CacheEntry
  BY <1>2, KeysOfPages
<1>4. rules \subseteq RuleRecord
  BY DEF ConsoleInit, RuleRecord
<1>5. delivery \in [Leads -> Row]
      /\ \A l \in Leads : /\ delivery[l].gen = 1
                          /\ delivery[l].attempt_count = 0 /\ delivery[l].attempts = 0
  BY DEF ConsoleInit, Seeded, Row
<1>6. fetch \in [Keys -> FetchEntry] /\ cache \in [Keys -> CacheEntry]
  BY <1>1, <1>3
<1>7. ConsoleTypes
  BY <1>1, <1>4, <1>5, <1>6 DEF ConsoleTypes
<1>8. (\A s : ~ResetAt(s)) /\ Known = 1 /\ OneReset
  BY <1>1 DEF ResetAt, Known, OneReset
<1>9. Tables
  BY <1>1, <1>5, <1>8 DEF Tables
<1>10. \A k \in Keys : Dated(k, cache[k].data, Known) /\ Dated(k, fetch[k].data, Known)
  BY <1>2, <1>8, KeysOfPages
<1>11. \A k \in Keys \ Leads : fetch[k].stage # "row"
  BY <1>2, KeysOfPages
<1>12. ConsoleBase
  BY <1>1, <1>7, <1>8, <1>9, <1>10, <1>11 DEF ConsoleBase
<1>13. QED
  BY <1>1, <1>2, <1>5, <1>8, <1>12

LEMMA ConsoleInvariance == ConsoleSpec => []ConsoleBase
<1>1. ConsoleInit => ConsoleBase
  BY ConsoleBegins
<1>2. ConsoleBase /\ [ConsoleNext]_consoleVars => ConsoleBase'
  <2>1. CASE ConsoleBase /\ ConsoleNext
    BY <2>1, ConsoleSteps, NavigateKeeps, QueriesKeep, SentKeeps, ServedKeeps, ResetKeeps, ReturnKeeps
  <2>2. CASE ConsoleBase /\ UNCHANGED consoleVars
    <3>1. /\ UNCHANGED <<page, cache, fetch, calls, consoleDb, told, events>>
          /\ UNCHANGED <<rules, integrations, delivery, resets, writes>>
      BY <2>2 DEF consoleVars, consoleDb
    <3>2. \A s : ResetAt(s)' <=> ResetAt(s)
      BY <3>1 DEF ResetAt
    <3>3. ConsoleTypes' /\ OneReset'
      BY <2>2, <3>1 DEF ConsoleBase, ConsoleTypes, OneReset
    <3>4. QED
      BY <2>2, <3>1, <3>2, <3>3, BaseFrame DEF ConsoleBase
  <2>3. QED
    BY <2>1, <2>2
<1>3. QED
  BY <1>1, <1>2, PTL DEF ConsoleSpec

\* No reset leaves a rule behind that was in order: the rules go before the
\* integrations, so whoever saves a rule with the old ids after that saves it
\* when they are known to be old.
THEOREM NoRuleHiddenByReset == ConsoleSpec => []HiddenRules
<1>1. ConsoleInit => RulesInv
  BY ConsoleBegins DEF ConsoleInit, RulesInv, ResetAt
<1>2. ASSUME ConsoleBase, RulesInv, ConsoleNext PROVE RulesInv'
  <2> DEFINE InOrder(r) ==
        \/ r.integration_id <= r.saved
        \/ r.integration_id = integrations /\ ~ResetAt("integrations") /\ ~ResetAt("seed")
  <2>1. \A r \in rules : InOrder(r)
    BY <1>2 DEF RulesInv
  <2>2. /\ ConsoleTypes /\ Tables /\ resets \in Nat /\ Known \in Nat /\ \A c \in calls : c.gen <= Known /\ c.gen \in Nat
        /\ integrations \in Nat
    BY <1>2, KnownIsNat DEF ConsoleBase, ConsoleTypes, CallRecord
  <2>3. ASSUME UNCHANGED <<rules, integrations>>,
               ResetAt("integrations")' <=> ResetAt("integrations"), ResetAt("seed")' <=> ResetAt("seed")
        PROVE  RulesInv'
    BY <1>2, <2>3 DEF RulesInv
  <2>4. CASE \E p \in Pages : Navigate(p)
    BY <1>2, <2>3, <2>4, NavigateKeeps DEF Navigate, consoleDb
  <2>5. CASE \E k \in Keys : Query(k) \/ QueryAttempts(k) \/ Answer(k) \/ QueryFails(k) \/ Refetch(k)
    <3>1. UNCHANGED <<rules, integrations>>
      BY <2>5 DEF Query, QueryAttempts, Answer, QueryFails, Refetch, consoleDb
    <3>2. QED
      BY <1>2, <2>3, <2>5, <3>1, QueriesKeep
  <2>6. CASE \E c : Sent(c)
    BY <1>2, <2>3, <2>6, SentKeeps DEF Sent, consoleDb
  <2>7. ASSUME NEW c, NEW n, Served(c, n) PROVE RulesInv'
    <3>1. /\ RulesMove(c) /\ UNCHANGED <<integrations, resets>> /\ c.gen <= Known /\ c.gen \in Nat
          /\ \A s : ResetAt(s)' <=> ResetAt(s)
      BY <1>2, <2>2, <2>7, ServedKeeps DEF Served
    <3>2. ASSUME NEW r \in rules', r.integration_id = c.gen, r.saved = resets
          PROVE  InOrder(r)
      <4>1. CASE ResetAt("integrations") \/ ResetAt("seed")
        BY <2>2, <3>1, <3>2, <4>1 DEF Known
      <4>2. CASE ~ResetAt("integrations") /\ ~ResetAt("seed")
        <5>1. integrations = resets + 1 /\ Known = resets + 1
          BY <2>2, <4>2 DEF Known, Tables
        <5>2. QED
          BY <2>2, <3>1, <3>2, <4>2, <5>1
      <4>3. QED
        BY <4>1, <4>2
    <3>3. \A r \in rules' : InOrder(r)
      BY <2>1, <3>1, <3>2 DEF RulesMove
    <3>4. QED
      BY <3>1, <3>3 DEF RulesInv
  <2>8. ASSUME NEW c \in calls, resetDemo(c) PROVE RulesInv'
    <3>1. ASSUME NEW n, NEW from, NEW to, Moved(c, n, from, to)
          PROVE  \A s : (ResetAt(s) <=> s = from) /\ (ResetAt(s)' <=> s = to)
      BY <1>2, <3>1, OneMoves
    <3>2. ASSUME NEW n, UNCHANGED <<rules, integrations>>,
                 Moved(c, n, "delivery_attempts", "deliveries") \/ Moved(c, n, "deliveries", "routing_rules")
          PROVE  RulesInv'
      BY <2>3, <3>1, <3>2
    <3>3. ASSUME NEW n, Moved(c, n, "integrations", "seed"), UNCHANGED rules PROVE RulesInv'
      <4>1. ResetAt("integrations")
        BY <3>1, <3>3
      <4>2. QED
        BY <2>1, <3>3, <4>1 DEF RulesInv
    <3>4. ASSUME NEW n, Moved(c, n, "seed", "done"), integrations' = resets + 1,
                 rules' = rules \cup {[id |-> resets + 1, integration_id |-> resets + 1, saved |-> resets]}
          PROVE  RulesInv'
      <4>1. ResetAt("seed") /\ ~ResetAt("seed")' /\ ~ResetAt("integrations")'
        BY <3>1, <3>4
      <4>2. QED
        BY <2>1, <3>4, <4>1 DEF RulesInv
    <3>5. ASSUME rules' = {} PROVE RulesInv'
      BY <3>5 DEF RulesInv
    <3>6. QED
      BY <1>2, <2>8, <3>2, <3>3, <3>4, <3>5, ResetMoves
  <2>9. ASSUME NEW c \in calls, Return(c) PROVE RulesInv'
    BY <1>2, <2>3, <2>9, ReturnKeeps DEF Return, consoleDb, DeleteSteps
  <2>10. QED
    BY <1>2, <2>4, <2>5, <2>6, <2>7, <2>8, <2>9, ConsoleSteps
<1>3. RulesInv /\ UNCHANGED consoleVars => RulesInv'
  BY DEF RulesInv, ResetAt, consoleVars, consoleDb
<1>4. RulesInv => HiddenRules
  BY DEF RulesInv, HiddenRules
<1>5. QED
  BY <1>1, <1>2, <1>3, <1>4, ConsoleInvariance, PTL DEF ConsoleSpec

\* The query of a page that shows a change of its own is one, it has been
\* answered before, and the success of the change invalidates it.
LEMMA ShowsItsOwn ==
  ASSUME NEW c, SentFrom(c), NEW k \in Shows(c)
  PROVE  /\ c.from # "intake-simulator" /\ k = (IF c.from = "routing" THEN "rules" ELSE c.from)
         /\ k \in Invalidated(c) /\ k \in Keys
         /\ page = c.from => k \in Queries(page)
         /\ page = c.from \/ fetch[k].stage = "idle"
<1>1. /\ k \in Queries(c.from) /\ Reads[k] \cap Writes(c.op) # {} /\ Where(c) = c.from
      /\ page = c.from \/ fetch[k].stage = "idle"
  BY DEF Shows
<1>2. \A l \in Leads : l \notin FixedPages /\ l \notin {"rules", "here", "elsewhere"}
  BY ConsoleAssumption
<1>3. /\ Leads \subseteq Keys /\ {"rules", "integrations", "deliveries", "dashboard", "settings"} \subseteq Keys
  BY KeysOfPages
<1>4. CASE c.from = "routing"
  <2>1. c.op \in {"saveRule", "toggleRule", "deleteRule"}
    BY <1>2, <1>4 DEF SentFrom, FixedPages
  <2>2. Writes(c.op) = {"routing_rules"}
    BY <2>1 DEF Writes
  <2>3. Reads["integrations"] = {"integrations"}
    BY <1>2, <1>3 DEF Reads, listIntegrations, FixedPages
  <2>4. k \in {"rules", "integrations"}
    BY <1>1, <1>4 DEF Queries
  <2>5. k = "rules"
    BY <1>1, <2>2, <2>3, <2>4
  <2>6. k \in Invalidated(c)
    BY <1>2, <1>4, <2>5 DEF Invalidated, onRoutingPage, FixedPages
  <2>7. QED
    BY <1>1, <1>3, <1>4, <2>5, <2>6
<1>5. CASE c.from \in {"integrations", "deliveries", "settings"}
  <2>1. k = c.from
    BY <1>1, <1>5 DEF Queries
  <2>2. k \in Invalidated(c)
    BY <1>2, <1>3, <1>5, <2>1 DEF Invalidated, onIntegrationsPage, onDeliveriesPage, onSettingsPage, FixedPages
  <2>3. QED
    BY <1>1, <1>3, <1>5, <2>1, <2>2
<1>6. CASE c.from \in Leads
  <2>1. k = c.from
    BY <1>1, <1>2, <1>6 DEF Queries, FixedPages
  <2>2. Invalidated(c) = onLeadDetailPage(c)
    BY <1>2, <1>6 DEF Invalidated, FixedPages
  <2>3. k \in Invalidated(c)
    BY <1>1, <2>1, <2>2 DEF onLeadDetailPage
  <2>4. QED
    BY <1>1, <1>2, <1>3, <1>6, <2>1, <2>3 DEF FixedPages
<1>7. CASE c.from = "intake-simulator"
  BY <1>1, <1>7 DEF Queries
<1>8. QED
  BY <1>4, <1>5, <1>6, <1>7 DEF SentFrom

\* What is fresh stays so while only calls move.
LEMMA FreshWithCalls ==
  ASSUME FreshInv, ConsoleTypes, UNCHANGED <<page, cache, fetch, told>>,
         writes' \in Nat, writes <= writes', \A c \in calls' : HasRead(c) /\ c.at <= writes'
  PROVE  FreshInv'
<1>1. \A k \in Keys : told[k] \in Nat /\ writes \in Nat
  BY DEF ConsoleTypes
<1>2. \A c \in calls' : HasRead(c)'
  BY DEF HasRead
<1>3. \A k \in Keys : told'[k] <= writes'
  BY <1>1 DEF FreshInv, FreshOf
<1>4. QED
  BY <1>2, <1>3 DEF FreshInv, FreshOf

LEMMA FreshTurns ==
  ASSUME FreshInv, ConsoleTypes, NEW c \in calls, NEW n, n \in CallRecord, Turns(c, n)
  PROVE  FreshInv'
<1>1. /\ calls' = (calls \ {c}) \cup {n} /\ n.from = c.from /\ n.closure = c.closure
      /\ n.at \in {c.at, writes'} /\ writes' \in {writes, writes + 1}
      /\ UNCHANGED <<page, cache, fetch, told>>
  BY DEF Turns, Same
<1>2. writes \in Nat /\ calls \subseteq CallRecord
  BY DEF ConsoleTypes
<1>3. \A d \in CallRecord : d.at \in Nat
  BY DEF CallRecord
<1>4. \A d \in calls : HasRead(d) /\ d.at <= writes
  BY DEF FreshInv
<1>5. writes' \in Nat /\ writes <= writes'
  BY <1>1, <1>2
<1>6. HasRead(n)
  BY <1>1, <1>4 DEF HasRead
<1>7. \A d \in calls' : HasRead(d) /\ d.at <= writes'
  BY <1>1, <1>2, <1>3, <1>4, <1>5, <1>6
<1>8. QED
  BY <1>1, <1>5, <1>7, FreshWithCalls

\* A request that goes on, is answered, fails or is repeated.
LEMMA FreshQueries ==
  ASSUME ConsoleBase, FreshInv, NEW k \in Keys,
         Query(k) \/ QueryAttempts(k) \/ Answer(k) \/ QueryFails(k) \/ Refetch(k)
  PROVE  FreshInv'
<1>1. /\ ConsoleTypes /\ UNCHANGED <<page, calls, told, writes>> /\ FreshOf(k)
      /\ told[k] \in Nat /\ writes \in Nat
  BY DEF ConsoleBase, ConsoleTypes, FreshInv, FreshOf, Query, QueryAttempts, Answer, QueryFails, Refetch, consoleDb
<1>2. ASSUME NEW x \in CacheEntry, NEW y \in FetchEntry,
             cache' = [cache EXCEPT ![k] = x], fetch' = [fetch EXCEPT ![k] = y],
             x.readAt = cache[k].readAt \/ x.readAt >= 0,
             y.stage \in {"row", "read"} => y.readAt >= told[k],
             x.readAt >= 0 /\ x.readAt < told[k] =>
               /\ x.invalid \/ y.stage # "idle"
               /\ k \in Queries(page) /\ ~x.error => y.stage # "idle"
      PROVE  FreshInv'
  <2>1. cache \in [Keys -> CacheEntry] /\ fetch \in [Keys -> FetchEntry]
    BY <1>1 DEF ConsoleTypes
  <2>2. \A j \in Keys : j # k => cache'[j] = cache[j] /\ fetch'[j] = fetch[j]
    BY <1>2, <2>1
  <2>3. cache'[k] = x /\ fetch'[k] = y
    BY <1>2, <2>1
  <2>4. FreshOf(k)'
    BY <1>1, <1>2, <2>3 DEF FreshOf
  <2>5. \A j \in Keys : FreshOf(j)'
    BY <1>1, <2>2, <2>4 DEF FreshOf, FreshInv
  <2>6. \A j \in Keys : cache[j].readAt >= 0 => cache'[j].readAt >= 0
    BY <1>2, <2>2, <2>3
  <2>7. \A c \in calls : HasRead(c)'
    <3>1. ASSUME NEW c \in calls PROVE HasRead(c)'
      <4>1. HasRead(c) /\ CallFits(c)
        BY DEF FreshInv, ConsoleBase
      <4>2. c.closure # "elsewhere" /\ c.from # "intake-simulator" =>
              (IF c.from = "routing" THEN "rules" ELSE c.from) \in Keys
        BY <4>1, KeysOfPages DEF CallFits, SentFrom
      <4>3. QED
        BY <2>6, <4>1, <4>2 DEF HasRead
    <3>2. QED
      BY <3>1
  <2>8. QED
    BY <1>1, <2>5, <2>7 DEF FreshInv, FreshOf
<1>3. cache[k] \in CacheEntry /\ fetch[k] \in FetchEntry /\ cache[k].readAt \in Nat \cup {-1}
      /\ fetch[k].readAt \in Nat /\ fetch[k].data \in Data /\ cache[k].data \in Data
  BY <1>1, CacheHasTypes
<1>4. CASE Query(k)
  <2> DEFINE y == [stage |-> IF k \in Leads THEN "row" ELSE "read", readAt |-> writes, data |-> View(k)]
  <2>1. y \in FetchEntry /\ y.readAt = writes /\ y.stage \in {"row", "read"}
    BY <1>1, ViewIsDated DEF FetchEntry
  <2>2. fetch' = [fetch EXCEPT ![k] = y] /\ cache' = [cache EXCEPT ![k] = cache[k]]
    BY <1>1, <1>4 DEF Query, ConsoleTypes
  <2> HIDE DEF y
  <2>3. y.readAt >= told[k] /\ y.stage # "idle"
    BY <1>1, <2>1 DEF FreshOf
  <2>4. QED
    BY <1>2, <1>3, <2>1, <2>2, <2>3
<1>5. CASE QueryAttempts(k)
  <2>1. ConsoleTypes' /\ fetch' \in [Keys -> FetchEntry] /\ fetch'[k] \in FetchEntry
    BY <1>5, QueriesKeep DEF ConsoleBase, ConsoleTypes
  <2>2. /\ fetch'[k].stage = "read" /\ fetch'[k].readAt = fetch[k].readAt /\ fetch[k].stage = "row"
        /\ fetch' = [fetch EXCEPT ![k] = fetch'[k]] /\ cache' = [cache EXCEPT ![k] = cache[k]]
    BY <1>1, <1>3, <1>5 DEF QueryAttempts, ConsoleTypes, FetchEntry
  <2>3. fetch'[k].readAt >= told[k] /\ fetch'[k].stage # "idle"
    BY <1>1, <2>2 DEF FreshOf
  <2>4. QED
    BY <1>2, <1>3, <2>1, <2>2, <2>3
<1>6. CASE Answer(k)
  <2> DEFINE x == [Unread EXCEPT !.readAt = fetch[k].readAt, !.data = fetch[k].data]
  <2>1. Unread \in CacheEntry
    BY KeysOfPages
  <2>2. x \in CacheEntry /\ x.readAt = fetch[k].readAt
    BY <1>3, <2>1 DEF CacheEntry
  <2>3. cache' = [cache EXCEPT ![k] = x] /\ fetch' = [fetch EXCEPT ![k] = NoFetch]
    BY <1>6 DEF Answer
  <2> HIDE DEF x
  <2>4. x.readAt >= told[k] /\ x.readAt \in Nat
    BY <1>1, <1>3, <1>6, <2>2 DEF FreshOf, Answer
  <2>5. NoFetch \in FetchEntry /\ NoFetch.stage = "idle" /\ x.readAt >= 0 /\ ~(x.readAt < told[k])
    BY <1>1, <2>4, KeysOfPages
  <2>6. QED
    BY <1>2, <2>2, <2>3, <2>5
<1>7. CASE QueryFails(k)
  <2> DEFINE x == [cache[k] EXCEPT !.error = TRUE, !.invalid = TRUE]
  <2>1. x \in CacheEntry /\ x.readAt = cache[k].readAt /\ x.error = TRUE /\ x.invalid = TRUE
    BY <1>3 DEF CacheEntry
  <2>2. cache' = [cache EXCEPT ![k] = x] /\ fetch' = [fetch EXCEPT ![k] = NoFetch]
    BY <1>1, <1>7 DEF QueryFails, ConsoleTypes
  <2> HIDE DEF x
  <2>3. QED
    BY <1>2, <2>1, <2>2, KeysOfPages
<1>8. CASE Refetch(k)
  <2>1. cache' = [cache EXCEPT ![k] = cache[k]] /\ fetch' = [fetch EXCEPT ![k] = Asked]
    BY <1>1, <1>8 DEF Refetch, ConsoleTypes
  <2>2. QED
    BY <1>2, <1>3, <2>1, KeysOfPages
<1>9. QED
  BY <1>4, <1>5, <1>6, <1>7, <1>8

\* A page that is opened asks for what it knows to be out of date.
LEMMA FreshNavigates ==
  ASSUME ConsoleBase, FreshInv, NEW p \in Pages, Navigate(p)
  PROVE  FreshInv'
<1>1. page' = p /\ UNCHANGED <<cache, told, writes>>
  BY DEF Navigate, consoleDb
<1>2. \A c \in calls' : HasRead(c)' /\ c.at <= writes'
  <2>1. ASSUME NEW n \in calls' PROVE HasRead(n) /\ n.at <= writes
    <3>1. PICK c \in calls : n = c \/ (n = [c EXCEPT !.closure = page] /\ c.closure = "here")
      BY NavigateKeeps
    <3>2. HasRead(c) /\ c.at <= writes /\ c \in CallRecord
      BY DEF FreshInv, ConsoleBase, ConsoleTypes
    <3>3. n.from = c.from /\ n.at = c.at /\ (c.closure = "elsewhere" => n.closure = "elsewhere")
      BY <3>1, <3>2 DEF CallRecord
    <3>4. QED
      BY <3>2, <3>3 DEF HasRead
  <2>2. QED
    BY <1>1, <2>1 DEF HasRead
<1>3. ASSUME NEW k \in Keys PROVE FreshOf(k)'
  <2>1. FreshOf(k) /\ told[k] \in Nat /\ cache[k].readAt \in Nat \cup {-1}
    BY CacheHasTypes DEF FreshInv, FreshOf, ConsoleBase, ConsoleTypes
  <2>2. PICK old \in SUBSET Queries(p) :
          fetch'[k] = IF /\ k \in Queries(p) /\ fetch[k].stage = "idle"
                         /\ cache[k].readAt < 0 \/ cache[k].invalid \/ k \in old
                      THEN Asked ELSE fetch[k]
    BY DEF Navigate
  <2>3. Asked.stage = "asked"
    BY KeysOfPages
  <2>4. fetch'[k].stage \in {"row", "read"} => fetch'[k].readAt >= told[k]
    BY <2>1, <2>2, <2>3 DEF FreshOf
  <2>5. cache[k].readAt >= 0 /\ cache[k].readAt < told[k] =>
          /\ cache[k].invalid \/ fetch'[k].stage # "idle"
          /\ k \in Queries(p) => fetch'[k].stage # "idle"
    BY <2>1, <2>2, <2>3 DEF FreshOf
  <2>6. QED
    BY <1>1, <2>1, <2>4, <2>5 DEF FreshOf
<1>4. QED
  BY <1>2, <1>3 DEF FreshInv, FreshOf

\* The page that is told of a change invalidates what shows it.
LEMMA FreshReturns ==
  ASSUME ConsoleBase, FreshInv, NEW c \in calls, Return(c)
  PROVE  FreshInv'
<1>1. /\ ConsoleTypes /\ calls' = calls \ {c} /\ UNCHANGED <<page, writes>> /\ c \in CallRecord
      /\ \A d \in calls : HasRead(d) /\ d.at <= writes /\ CallFits(d)
  BY DEF Return, consoleDb, ConsoleBase, ConsoleTypes, FreshInv
<1>2. \A k \in Keys : /\ FreshOf(k) /\ told[k] \in Nat /\ cache[k].readAt \in Nat \cup {-1}
                      /\ cache[k] \in CacheEntry
  BY <1>1, CacheHasTypes DEF FreshInv, FreshOf, ConsoleTypes
<1>3. c.at \in Nat /\ writes \in Nat
  BY <1>1 DEF CallRecord, ConsoleTypes
<1>4. CASE UNCHANGED <<cache, fetch, told>>
  BY <1>1, <1>3, <1>4, FreshWithCalls
<1>5. CASE /\ c.closure # "elsewhere" /\ invalidateQueries(Invalidated(c))
           /\ told' = [k \in Keys |-> IF k \in Shows(c) /\ c.at > told[k] THEN c.at ELSE told[k]]
  <2>1. ASSUME NEW k \in Keys
        PROVE  /\ cache'[k].readAt = cache[k].readAt /\ cache'[k].error = cache[k].error
               /\ cache[k].invalid => cache'[k].invalid
               /\ k \in Invalidated(c) /\ cache[k].readAt >= 0 => cache'[k].invalid
    <3>1. cache'[k] = IF k \in Invalidated(c) /\ cache[k].readAt >= 0
                      THEN [cache[k] EXCEPT !.invalid = TRUE] ELSE cache[k]
      BY <1>5 DEF invalidateQueries
    <3>2. QED
      BY <1>2, <3>1 DEF CacheEntry
  <2>2. ASSUME NEW k \in Keys
        PROVE  /\ fetch[k].stage # "idle" => fetch'[k].stage # "idle"
               /\ fetch'[k].stage \in {"row", "read"} => fetch'[k] = fetch[k]
               /\ k \in Invalidated(c) /\ k \in Queries(page) /\ cache[k].readAt >= 0 => fetch'[k].stage = "asked"
    <3>1. fetch'[k] = IF /\ k \in Invalidated(c) \cap Queries(page)
                         /\ fetch[k].stage = "idle" \/ cache[k].readAt >= 0
                      THEN Asked ELSE fetch[k]
      BY <1>5 DEF invalidateQueries
    <3>2. Asked.stage = "asked"
      BY KeysOfPages
    <3>3. QED
      BY <3>1, <3>2
  <2>3. ASSUME NEW k \in Keys, k \notin Shows(c) PROVE FreshOf(k)'
    <3>1. told'[k] = told[k]
      BY <1>5, <2>3
    <3>2. QED
      BY <1>1, <1>2, <2>1, <2>2, <3>1 DEF FreshOf
  <2>4. ASSUME NEW k \in Keys, k \in Shows(c) PROVE FreshOf(k)'
    <3>1. SentFrom(c)
      BY <1>1, <1>5 DEF CallFits
    <3>2. /\ c.from # "intake-simulator" /\ k = (IF c.from = "routing" THEN "rules" ELSE c.from)
          /\ k \in Invalidated(c)
          /\ page = c.from => k \in Queries(page)
          /\ page = c.from \/ fetch[k].stage = "idle"
      BY <2>4, <3>1, ShowsItsOwn
    <3>3. cache[k].readAt >= 0
      BY <1>1, <1>5, <3>2 DEF HasRead
    <3>4. cache'[k].invalid
      BY <2>1, <3>2, <3>3
    <3>5. k \in Queries(page) => fetch'[k].stage = "asked"
      BY <2>2, <3>2, <3>3
    <3>6. ~(fetch'[k].stage \in {"row", "read"})
      BY <2>2, <3>2, <3>5
    <3>7. told'[k] <= writes
      BY <1>1, <1>2, <1>3, <1>5 DEF FreshOf
    <3>8. QED
      BY <1>1, <3>4, <3>5, <3>6, <3>7 DEF FreshOf
  <2>5. \A k \in Keys : FreshOf(k)'
    BY <2>3, <2>4
  <2>6. \A d \in calls' : HasRead(d)' /\ d.at <= writes'
    <3>1. ASSUME NEW d \in calls' PROVE HasRead(d)'
      <4>1. HasRead(d) /\ CallFits(d)
        BY <1>1
      <4>2. d.closure # "elsewhere" /\ d.from # "intake-simulator" =>
              (IF d.from = "routing" THEN "rules" ELSE d.from) \in Keys
        BY <4>1, KeysOfPages DEF CallFits, SentFrom
      <4>3. QED
        BY <2>1, <4>1, <4>2 DEF HasRead
    <3>2. QED
      BY <1>1, <3>1
  <2>7. QED
    BY <2>5, <2>6 DEF FreshInv, FreshOf
<1>6. QED
  BY <1>4, <1>5 DEF Return

\* A page whose callback was told of its own change shows it, or is asking
\* for it, or says that it could not: the success finds a query that has been
\* answered, invalidates it, and drops a request that read the tables before.
THEOREM OwnPageIsCurrent == ConsoleSpec => []OwnPageShowsChange
<1>1. ConsoleInit => FreshInv
  <2>1. ASSUME ConsoleInit PROVE FreshInv
    <3>1. /\ calls = {} /\ writes = 0 /\ told = [k \in Keys |-> 0]
          /\ \A k \in Keys : fetch[k] \in {Asked, NoFetch} /\ cache[k] = Unread
      BY <2>1, ConsoleBegins DEF ConsoleInit
    <3>2. ASSUME NEW k \in Keys PROVE FreshOf(k)
      <4>1. told[k] = 0 /\ cache[k].readAt = -1 /\ fetch[k].stage \in {"idle", "asked"}
        BY <3>1, KeysOfPages
      <4>2. QED
        BY <3>1, <4>1 DEF FreshOf
    <3>3. QED
      BY <3>1, <3>2 DEF FreshInv, FreshOf
  <2>2. QED
    BY <2>1
<1>2. ASSUME ConsoleBase, FreshInv, ConsoleNext PROVE FreshInv'
  <2>1. ConsoleTypes /\ writes \in Nat /\ \A c \in calls : HasRead(c) /\ c.at <= writes
    BY <1>2 DEF ConsoleBase, ConsoleTypes, FreshInv
  <2>2. ASSUME NEW c, Sent(c) PROVE FreshInv'
    <3>1. /\ calls' = calls \cup {c} /\ HasRead(c) /\ c.at = 0
          /\ UNCHANGED <<page, cache, fetch, told, writes>>
      BY <2>2 DEF Sent, consoleDb
    <3>2. QED
      BY <1>2, <2>1, <3>1, FreshWithCalls
  <2>3. ASSUME NEW c, NEW n, Served(c, n) PROVE FreshInv'
    BY <1>2, <2>1, <2>3, FreshTurns DEF Served
  <2>4. ASSUME NEW c \in calls, resetDemo(c) PROVE FreshInv'
    <3>1. \E n : n \in CallRecord /\ Turns(c, n)
      BY <1>2, <2>4, ResetMoves DEF Moved
    <3>2. QED
      BY <1>2, <2>1, <3>1, FreshTurns
  <2>5. QED
    BY <1>2, <2>2, <2>3, <2>4, ConsoleSteps, FreshNavigates, FreshQueries, FreshReturns
<1>3. ConsoleBase /\ FreshInv /\ UNCHANGED consoleVars => FreshInv'
  BY DEF consoleVars, consoleDb, FreshInv, FreshOf, HasRead
<1>4. ConsoleBase /\ FreshInv => OwnPageShowsChange
  <2>1. ASSUME ConsoleBase, FreshInv, NEW k \in Queries(page), Loaded(k), fetch[k].stage = "idle"
        PROVE  cache[k].readAt >= told[k]
    <3>1. k \in Keys /\ ConsoleTypes
      BY <2>1, KeysOfPages DEF ConsoleBase, ConsoleTypes
    <3>2. cache[k].readAt \in Nat \cup {-1} /\ told[k] \in Nat
      BY <3>1, CacheHasTypes DEF ConsoleTypes
    <3>3. cache[k].readAt >= 0 /\ ~cache[k].error
      BY <2>1 DEF Loaded
    <3>4. QED
      BY <2>1, <3>1, <3>2, <3>3 DEF FreshInv, FreshOf
  <2>2. QED
    BY <2>1 DEF OwnPageShowsChange
<1>5. QED
  BY <1>1, <1>2, <1>3, <1>4, ConsoleInvariance, PTL DEF ConsoleSpec

\* What is known of the attempts stays so while neither the deliveries nor
\* what has been read of them moves, and calls keep what they hold.
LEMMA AttemptsFrame ==
  ASSUME AttemptsInv, ResetAt("deliveries")' <=> ResetAt("deliveries"), UNCHANGED delivery,
         \A n \in calls' : \/ n.step \notin {"attempt", "row"}
                           \/ \E c \in calls : /\ n.op = c.op /\ n.lead = c.lead /\ n.gen = c.gen
                                               /\ n.step = c.step /\ n.attempt_count = c.attempt_count,
         \A l \in Leads : /\ fetch'[l] = fetch[l] \/ fetch'[l].stage \notin {"row", "read"}
                          /\ cache'[l].readAt = cache[l].readAt /\ cache'[l].data = cache[l].data
  PROVE  AttemptsInv'
<1>1. \A n \in calls' : Backed(n)'
  <2>1. ASSUME NEW n \in calls', n.step \in {"attempt", "row"} PROVE Backed(n)'
    <3>1. PICK c \in calls : /\ n.op = c.op /\ n.lead = c.lead /\ n.gen = c.gen
                             /\ n.step = c.step /\ n.attempt_count = c.attempt_count
      BY <2>1
    <3>2. Backed(c)
      BY DEF AttemptsInv
    <3>3. QED
      BY <3>1, <3>2 DEF Backed, Found
  <2>2. ASSUME NEW n \in calls', n.step \notin {"attempt", "row"} PROVE Backed(n)'
    BY <2>2 DEF Backed
  <2>3. QED
    BY <2>1, <2>2
<1>2. ASSUME NEW l \in Leads
      PROVE  /\ (fetch[l].stage = "row" => Half(l, fetch[l].data))'
             /\ (fetch[l].stage = "read" =>
                   fetch[l].data.torn \/ fetch[l].data.row.attempt_count <= fetch[l].data.row.attempts)'
  <2>1. /\ fetch[l].stage = "row" => Half(l, fetch[l].data)
        /\ fetch[l].stage = "read" =>
             fetch[l].data.torn \/ fetch[l].data.row.attempt_count <= fetch[l].data.row.attempts
    BY DEF AttemptsInv
  <2>2. CASE fetch'[l] = fetch[l]
    BY <2>1, <2>2 DEF Half
  <2>3. CASE fetch'[l].stage \notin {"row", "read"}
    BY <2>3
  <2>4. QED
    BY <2>2, <2>3
<1>3. AttemptsListed'
  BY DEF AttemptsInv, AttemptsListed
<1>4. (~ResetAt("deliveries") => \A l \in Leads : delivery[l].attempt_count <= delivery[l].attempts)'
  BY DEF AttemptsInv
<1>5. QED
  BY <1>1, <1>2, <1>3, <1>4 DEF AttemptsInv

\* The lead page reads its delivery, and then the attempts of it.
LEMMA AttemptsQueries ==
  ASSUME ConsoleBase, AttemptsInv, NEW k \in Keys,
         Query(k) \/ QueryAttempts(k) \/ Answer(k) \/ QueryFails(k) \/ Refetch(k)
  PROVE  AttemptsInv'
<1>1. /\ ConsoleTypes /\ UNCHANGED <<calls, delivery>> /\ Tables /\ resets \in Nat
      /\ ResetAt("deliveries")' <=> ResetAt("deliveries")
  BY QueriesKeep
  DEF ConsoleBase, ConsoleTypes, Query, QueryAttempts, Answer, QueryFails, Refetch, consoleDb
<1>2. \A l \in Leads : l \in Keys /\ l \notin {"rules", "integrations", "deliveries"}
  BY KeysOfPages, ConsoleAssumption
  DEF FixedPages
<1>3. ResetAt("deliveries") \/ ResetAt("routing_rules") \/ ResetAt("integrations") \/ ResetAt("seed") => Deleting
  BY DEF ResetAt, Deleting, DeleteOrder
<1>4. /\ (~ResetAt("deliveries"))' => \A l \in Leads : delivery'[l].attempt_count <= delivery'[l].attempts
      /\ \A c \in calls' : Backed(c)'
      /\ \A l \in Leads : \A d : Half(l, d)' <=> Half(l, d)
  BY <1>1 DEF AttemptsInv, Backed, Found, Half
<1> DEFINE Fine(l) ==
      /\ fetch'[l].stage = "row" => Half(l, fetch'[l].data)
      /\ fetch'[l].stage = "read" =>
           fetch'[l].data.torn \/ fetch'[l].data.row.attempt_count <= fetch'[l].data.row.attempts
      /\ cache'[l].readAt >= 0 =>
           cache'[l].data.torn \/ cache'[l].data.row.attempt_count <= cache'[l].data.row.attempts
<1>5. SUFFICES \A l \in Leads : Fine(l)
  BY <1>4 DEF AttemptsInv, AttemptsListed
<1>6. \A l \in Leads : cache[l] \in CacheEntry /\ fetch[l] \in FetchEntry
  BY <1>1, <1>2, CacheHasTypes
<1>7. ASSUME NEW l \in Leads, l # k PROVE Fine(l)
  <2>1. fetch'[l] = fetch[l] /\ cache'[l] = cache[l]
    BY <1>1, <1>2, <1>7 DEF Query, QueryAttempts, Answer, QueryFails, Refetch, ConsoleTypes
  <2>2. QED
    BY <2>1 DEF AttemptsInv, AttemptsListed
<1>8. ASSUME k \in Leads PROVE Fine(k)
  <2>1. /\ cache[k].readAt >= 0 =>
             cache[k].data.torn \/ cache[k].data.row.attempt_count <= cache[k].data.row.attempts
        /\ fetch[k].stage = "row" => Half(k, fetch[k].data)
        /\ fetch[k].stage = "read" =>
             fetch[k].data.torn \/ fetch[k].data.row.attempt_count <= fetch[k].data.row.attempts
    BY <1>8 DEF AttemptsInv, AttemptsListed
  <2>2. cache \in [Keys -> CacheEntry] /\ fetch \in [Keys -> FetchEntry]
    BY <1>1 DEF ConsoleTypes
  <2>3. CASE Query(k)
    <3>1. fetch'[k].stage = "row" /\ fetch'[k].data = View(k) /\ UNCHANGED cache
      BY <1>8, <2>2, <2>3 DEF Query
    <3>2. View(k) = [ids |-> {}, row |-> delivery[k], torn |-> Deleting]
      BY <1>2, <1>8 DEF View, Nothing
    <3>3. Half(k, View(k))
      <4>1. CASE Deleting
        BY <3>2, <4>1 DEF Half
      <4>2. CASE ~Deleting
        <5>1. delivery[k].gen = resets + 1
          BY <1>1, <1>3, <1>8, <4>2 DEF Tables
        <5>2. delivery[k].attempt_count <= delivery[k].attempts
          BY <1>3, <1>8, <4>2 DEF AttemptsInv
        <5>3. QED
          BY <1>1, <3>2, <5>1, <5>2 DEF Half
      <4>3. QED
        BY <4>1, <4>2
    <3>4. QED
      BY <2>1, <3>1, <3>3
  <2>4. CASE QueryAttempts(k)
    <3>1. fetch[k].stage = "row" /\ Half(k, fetch[k].data) /\ UNCHANGED cache
      BY <2>1, <2>4 DEF QueryAttempts
    <3> DEFINE same == fetch[k].data.row.gen = delivery[k].gen
    <3>2. /\ fetch[k] \in FetchEntry /\ fetch[k].data \in Data /\ fetch[k].data.row \in Row
          /\ delivery[k] \in Row
      BY <1>1, <1>2, <1>8, CacheHasTypes DEF ConsoleTypes
    <3>3. PICK a, torn :
            /\ fetch' = [fetch EXCEPT ![k].stage = "read", ![k].data.row.attempts = a, ![k].data.torn = torn]
            /\ same => a = delivery[k].attempts
            /\ torn \in BOOLEAN /\ (fetch[k].data.torn \/ ~same \/ Deleting => torn)
      BY <2>4 DEF QueryAttempts, Deleting
    <3> DEFINE y == [fetch[k] EXCEPT !.stage = "read", !.data.row.attempts = a, !.data.torn = torn]
    <3>4. fetch'[k] = y
      BY <1>2, <1>8, <2>2, <3>3
    <3>5. y.stage = "read" /\ y.data.row.attempts = a /\ (y.data.torn <=> torn)
          /\ y.data.row.attempt_count = fetch[k].data.row.attempt_count
      BY <3>2, <3>3 DEF FetchEntry, Data, Row
    <3> HIDE DEF y
    <3>6. fetch'[k].data.torn \/ fetch'[k].data.row.attempt_count <= fetch'[k].data.row.attempts
      BY <1>3, <3>1, <3>3, <3>4, <3>5 DEF Half
    <3>7. QED
      BY <2>1, <3>1, <3>4, <3>5, <3>6
  <2>5. CASE Answer(k)
    <3>1. fetch[k].stage = "read" /\ cache'[k].data = fetch[k].data /\ fetch'[k] = NoFetch
      BY <2>2, <2>5 DEF Answer, CacheEntry, Unread
    <3>2. QED
      BY <2>1, <3>1, KeysOfPages
  <2>6. CASE QueryFails(k)
    <3>1. cache'[k].data = cache[k].data /\ cache'[k].readAt = cache[k].readAt /\ fetch'[k] = NoFetch
      BY <2>2, <2>6 DEF QueryFails, CacheEntry
    <3>2. QED
      BY <2>1, <3>1, KeysOfPages
  <2>7. CASE Refetch(k)
    <3>1. UNCHANGED cache /\ fetch'[k] = Asked
      BY <2>2, <2>7 DEF Refetch
    <3>2. QED
      BY <2>1, <3>1, KeysOfPages
  <2>8. QED
    BY <2>3, <2>4, <2>5, <2>6, <2>7
<1>9. QED
  BY <1>7, <1>8

\* The statements of a delivery: the attempt comes before the row that counts it.
LEMMA AttemptsServed ==
  ASSUME ConsoleBase, AttemptsInv, NEW c, NEW n, Served(c, n)
  PROVE  AttemptsInv'
<1>1. /\ ConsoleTypes /\ c \in calls /\ c \in CallRecord /\ CallFits(c) /\ n \in CallRecord
      /\ n.op = c.op /\ n.lead = c.lead /\ n.gen = c.gen /\ calls' = (calls \ {c}) \cup {n}
      /\ UNCHANGED <<cache, fetch>> /\ DeliveryMoves(c, n)
      /\ ResetAt("deliveries")' <=> ResetAt("deliveries")
  BY ServedKeeps DEF Served, Turns, Same, ConsoleBase, ConsoleTypes
<1>2. \A d \in calls : d \in CallRecord /\ Backed(d)
  BY <1>1 DEF AttemptsInv, ConsoleTypes
<1>3. CASE UNCHANGED delivery /\ n.step \notin {"attempt", "row"}
  BY <1>1, <1>3, AttemptsFrame
<1>4. CASE ~Found(c) /\ UNCHANGED delivery
  <2>1. Backed(n)'
    BY <1>1, <1>4 DEF Backed, Found
  <2>2. \A d \in calls : Backed(d)'
    BY <1>1, <1>2, <1>4 DEF Backed, Found
  <2>3. \A d \in calls' : Backed(d)'
    BY <1>1, <2>1, <2>2
  <2>4. \A l \in Leads : (fetch[l].stage = "row" => Half(l, fetch[l].data))'
    BY <1>1, <1>4 DEF AttemptsInv, Half
  <2>5. QED
    BY <1>1, <1>4, <2>3, <2>4 DEF AttemptsInv, AttemptsListed
<1>5. ASSUME c.op \in DeliveryOps, Found(c), NEW row \in Row,
             delivery' = [delivery EXCEPT ![c.lead] = row], row.gen = c.gen,
             \/ /\ row.attempt_count = delivery[c.lead].attempt_count
                /\ row.attempts = delivery[c.lead].attempts
                /\ n.step # "row"
                /\ n.step = "attempt" => n.attempt_count = row.attempt_count
             \/ /\ c.step = "attempt" /\ n.step = "row" /\ n.attempt_count = c.attempt_count
                /\ row.attempt_count = delivery[c.lead].attempt_count
                /\ row.attempts = delivery[c.lead].attempts + 1
             \/ /\ c.step = "row" /\ n.step = "done"
                /\ row.attempt_count = c.attempt_count + 1
                /\ row.attempts = delivery[c.lead].attempts
      PROVE  AttemptsInv'
  <2> DEFINE old == delivery[c.lead]
  <2>1. /\ c.lead \in Leads /\ old \in Row /\ old.gen = c.gen /\ delivery \in [Leads -> Row]
        /\ c.attempt_count \in Nat /\ n.attempt_count \in Nat
    BY <1>1, <1>5 DEF CallFits, Found, ConsoleTypes, CallRecord
  <2>2. delivery'[c.lead] = row /\ \A l \in Leads : l # c.lead => delivery'[l] = delivery[l]
    BY <1>5, <2>1
  <2>3. /\ old.attempts \in Nat /\ old.attempt_count \in Nat /\ row.attempts \in Nat /\ row.attempt_count \in Nat
        /\ old.attempts <= row.attempts
    BY <1>5, <2>1 DEF Row
  <2>4. ~ResetAt("deliveries") => old.attempt_count <= old.attempts
    BY <2>1 DEF AttemptsInv
  <2>5. Backed(c)
    BY <1>1, <1>2
  <2>6. ~ResetAt("deliveries") =>
          /\ row.attempt_count <= row.attempts
          /\ n.step = "attempt" => n.attempt_count <= row.attempts
          /\ n.step = "row" => n.attempt_count + 1 <= row.attempts
    BY <1>5, <2>1, <2>3, <2>4, <2>5 DEF Backed
  <2>7. \A l \in Leads : /\ delivery'[l].gen = delivery[l].gen
                         /\ delivery[l].attempts \in Nat /\ delivery'[l].attempts \in Nat
                         /\ delivery[l].attempts <= delivery'[l].attempts
    <3>1. \A l \in Leads : delivery[l].attempts \in Nat
      BY <2>1 DEF Row
    <3>2. QED
      BY <1>5, <2>1, <2>2, <2>3, <3>1
  <2>8. Backed(n)'
    BY <1>1, <2>2, <2>6 DEF Backed
  <2>9. ASSUME NEW d \in calls PROVE Backed(d)'
    <3>1. Backed(d) /\ d.attempt_count \in Nat /\ d.lead \in Leads \cup {None} /\ CallFits(d)
      BY <1>2 DEF CallRecord, ConsoleBase
    <3>2. CASE d.op \in DeliveryOps
      <4>1. d.lead \in Leads
        BY <3>1, <3>2 DEF CallFits
      <4>2. Found(d)' <=> Found(d)
        BY <2>7, <4>1 DEF Found
      <4>3. delivery[d.lead].attempts \in Nat /\ delivery'[d.lead].attempts \in Nat
            /\ delivery[d.lead].attempts <= delivery'[d.lead].attempts
        BY <2>7, <4>1
      <4>4. QED
        BY <1>1, <3>1, <4>2, <4>3 DEF Backed
    <3>3. CASE d.op \notin DeliveryOps
      BY <3>3 DEF Backed
    <3>4. QED
      BY <3>2, <3>3
  <2>10. \A d \in calls' : Backed(d)'
    BY <1>1, <2>8, <2>9
  <2>11. ASSUME NEW l \in Leads PROVE (fetch[l].stage = "row" => Half(l, fetch[l].data))'
    <3>1. fetch[l].stage = "row" => Half(l, fetch[l].data)
      BY DEF AttemptsInv
    <3>2. fetch[l].data.row.attempt_count \in Nat
      BY <1>1, KeysOfPages, CacheHasTypes DEF Row
    <3>3. QED
      BY <1>1, <2>7, <3>1, <3>2 DEF Half
  <2>12. ~ResetAt("deliveries") => \A l \in Leads : delivery'[l].attempt_count <= delivery'[l].attempts
    BY <2>2, <2>6 DEF AttemptsInv
  <2>13. QED
    BY <1>1, <2>10, <2>11, <2>12 DEF AttemptsInv, AttemptsListed
<1>6. QED
  BY <1>1, <1>3, <1>4, <1>5 DEF DeliveryMoves

\* A reset deletes the attempts before the deliveries that count them.  Until
\* those are gone nothing is promised, and what was read of them is torn.
LEMMA AttemptsReset ==
  ASSUME ConsoleBase, AttemptsInv, NEW c \in calls, resetDemo(c)
  PROVE  AttemptsInv'
<1>1. ASSUME NEW n, NEW from, NEW to, Moved(c, n, from, to)
      PROVE  /\ \A s : (ResetAt(s) <=> s = from) /\ (ResetAt(s)' <=> s = to)
             /\ UNCHANGED <<cache, fetch>> /\ calls' = (calls \ {c}) \cup {n}
             /\ n.op = "resetDemo" /\ n.step = to
  BY <1>1, OneMoves DEF Moved, Turns, Same
<1>2. /\ ConsoleTypes /\ \A d \in calls : Backed(d) /\ CallFits(d) /\ d.gen <= Known /\ d \in CallRecord
      /\ \A l \in Leads : fetch[l].stage = "row" => Half(l, fetch[l].data)
  BY DEF AttemptsInv, ConsoleBase, ConsoleTypes
<1>3. ASSUME NEW n, NEW from, NEW to, Moved(c, n, from, to),
             to = "deliveries" \/ \A l \in Leads : delivery'[l].attempt_count <= delivery'[l].attempts,
             \A d \in calls : d.op \in DeliveryOps => Backed(d)',
             \A l \in Leads : (fetch[l].stage = "row" => Half(l, fetch[l].data))'
      PROVE  AttemptsInv'
  <2>1. \A d \in calls' : Backed(d)'
    <3>1. Backed(n)'
      BY <1>1, <1>3 DEF Backed, DeliveryOps
    <3>2. \A d \in calls : d.op \notin DeliveryOps => Backed(d)'
      BY DEF Backed
    <3>3. QED
      BY <1>1, <1>3, <3>1, <3>2
  <2>2. (~ResetAt("deliveries"))' => \A l \in Leads : delivery'[l].attempt_count <= delivery'[l].attempts
    BY <1>1, <1>3
  <2>3. /\ AttemptsListed'
        /\ \A l \in Leads : (fetch[l].stage = "read" =>
             fetch[l].data.torn \/ fetch[l].data.row.attempt_count <= fetch[l].data.row.attempts)'
    BY <1>1, <1>3 DEF AttemptsInv, AttemptsListed
  <2>4. QED
    BY <1>3, <2>1, <2>2, <2>3 DEF AttemptsInv
<1>4. ASSUME NEW n, Moved(c, n, "delivery_attempts", "deliveries") PROVE AttemptsInv'
  <2>1. ResetAt("deliveries")' /\ ~ResetAt("deliveries") /\ UNCHANGED <<cache, fetch>>
    BY <1>1, <1>4
  <2>2. \A d \in calls : Backed(d)'
    BY <2>1 DEF Backed
  <2>3. \A l \in Leads : (fetch[l].stage = "row" => Half(l, fetch[l].data))'
    BY <1>2, <2>1 DEF Half
  <2>4. QED
    BY <1>3, <1>4, <2>2, <2>3
<1>5. ASSUME NEW n, Moved(c, n, "deliveries", "routing_rules"), delivery' = [l \in Leads |-> Gone]
      PROVE  AttemptsInv'
  <2>1. \A l \in Leads : /\ delivery'[l].gen = 0
                         /\ delivery'[l].attempt_count = 0 /\ delivery'[l].attempts = 0
    BY <1>5 DEF Gone
  <2>2. \A d \in calls : d.op \in DeliveryOps => Backed(d)'
    <3>1. \A d \in calls : d.op \in DeliveryOps => d.lead \in Leads /\ d.gen # 0
      BY <1>2 DEF CallFits
    <3>2. QED
      BY <2>1, <3>1 DEF Backed, Found
  <2>3. \A l \in Leads : (fetch[l].stage = "row" => Half(l, fetch[l].data))'
    BY <1>1, <1>2, <1>5, <2>1 DEF Half
  <2>4. QED
    BY <1>3, <1>5, <2>1, <2>2, <2>3
<1>6. ASSUME NEW n, UNCHANGED delivery,
             Moved(c, n, "routing_rules", "integrations") \/ Moved(c, n, "integrations", "seed")
      PROVE  AttemptsInv'
  <2>1. /\ ~ResetAt("deliveries") /\ ~ResetAt("deliveries")' /\ UNCHANGED <<cache, fetch>>
        /\ calls' = (calls \ {c}) \cup {n} /\ n.step \notin {"attempt", "row"}
    BY <1>1, <1>6
  <2>2. QED
    BY <1>6, <2>1, AttemptsFrame
<1>7. ASSUME NEW n, Moved(c, n, "seed", "done"), delivery' = Seeded(resets + 1) PROVE AttemptsInv'
  <2>1. ResetAt("seed") /\ Known = resets /\ resets \in Nat
    BY <1>1, <1>2, <1>7 DEF Known, ConsoleTypes
  <2>2. \A l \in Leads : /\ delivery'[l].gen = resets + 1
                         /\ delivery'[l].attempt_count = 0 /\ delivery'[l].attempts = 0
    BY <1>7 DEF Seeded
  <2>3. \A d \in calls : d.op \in DeliveryOps => Backed(d)'
    <3>1. \A d \in calls : d.op \in DeliveryOps => d.lead \in Leads /\ d.gen \in Nat /\ d.gen <= resets
      BY <1>2, <2>1 DEF CallFits, CallRecord
    <3>2. QED
      BY <2>1, <2>2, <3>1 DEF Backed, Found
  <2>4. ASSUME NEW l \in Leads PROVE (fetch[l].stage = "row" => Half(l, fetch[l].data))'
    <3>1. fetch[l].data.row.gen \in Nat /\ fetch[l].data.row.gen <= resets
      BY <1>2, <2>1, KeysOfPages, CacheHasTypes DEF ConsoleBase, Dated
    <3>2. fetch' = fetch
      BY <1>1, <1>7
    <3>3. QED
      BY <1>2, <2>1, <2>2, <3>1, <3>2 DEF Half
  <2>5. QED
    BY <1>3, <1>7, <2>2, <2>3, <2>4
<1>8. QED
  BY <1>4, <1>5, <1>6, <1>7, ResetMoves

\* The lead page counts no attempt it does not list: the attempt is written
\* before the count that has it, and the page reads them the other way round.
THEOREM LeadPageListsAttempts == ConsoleSpec => []AttemptsListed
<1>1. ConsoleInit => AttemptsInv
  <2>1. ASSUME ConsoleInit PROVE AttemptsInv
    <3>1. /\ calls = {}
          /\ \A k \in Keys : fetch[k] \in {Asked, NoFetch} /\ cache[k] = Unread
          /\ \A l \in Leads : delivery[l].attempt_count = 0 /\ delivery[l].attempts = 0
      BY <2>1, ConsoleBegins
    <3>2. \A l \in Leads : fetch[l].stage \in {"asked", "idle"} /\ cache[l].readAt = -1
      BY <3>1, KeysOfPages
    <3>3. QED
      BY <3>1, <3>2 DEF AttemptsInv, AttemptsListed
  <2>2. QED
    BY <2>1
<1>2. ASSUME ConsoleBase, AttemptsInv, ConsoleNext PROVE AttemptsInv'
  <2>1. Asked.stage = "asked" /\ Leads \subseteq Keys /\ calls \subseteq CallRecord
        /\ \A c \in calls : CallFits(c)
    BY <1>2, KeysOfPages DEF ConsoleBase, ConsoleTypes
  <2>2. ASSUME NEW p \in Pages, Navigate(p) PROVE AttemptsInv'
    <3>1. /\ UNCHANGED <<cache, delivery>> /\ (ResetAt("deliveries")' <=> ResetAt("deliveries"))
          /\ \A k \in Keys : fetch'[k] \in {fetch[k], Asked}
          /\ \A n \in calls' : \E c \in calls : n = c \/ n = [c EXCEPT !.closure = page]
      BY <1>2, <2>2, NavigateKeeps DEF Navigate, consoleDb
    <3>2. ASSUME NEW n \in calls'
          PROVE  \E c \in calls : /\ n.op = c.op /\ n.lead = c.lead /\ n.gen = c.gen
                                  /\ n.step = c.step /\ n.attempt_count = c.attempt_count
      BY <2>1, <3>1 DEF CallRecord
    <3>3. QED
      BY <1>2, <2>1, <3>1, <3>2, AttemptsFrame
  <2>3. ASSUME NEW c, Sent(c) PROVE AttemptsInv'
    <3>1. /\ UNCHANGED <<cache, fetch, delivery>> /\ calls' = calls \cup {c}
          /\ c.step \notin {"attempt", "row"} /\ (ResetAt("deliveries")' <=> ResetAt("deliveries"))
      BY <1>2, <2>3, SentKeeps DEF Sent, consoleDb
    <3>2. QED
      BY <1>2, <3>1, AttemptsFrame
  <2>4. ASSUME NEW c \in calls, Return(c) PROVE AttemptsInv'
    <3>1. /\ UNCHANGED delivery /\ calls' = calls \ {c} /\ (ResetAt("deliveries")' <=> ResetAt("deliveries"))
          /\ \A k \in Keys : fetch'[k] \in {fetch[k], Asked}
      BY <1>2, <2>4, ReturnKeeps DEF Return, consoleDb, DeleteSteps
    <3>2. ASSUME NEW k \in Keys PROVE cache'[k].readAt = cache[k].readAt /\ cache'[k].data = cache[k].data
      <4>1. cache[k] \in CacheEntry
        BY <1>2, CacheHasTypes DEF ConsoleBase
      <4>2. CASE UNCHANGED cache
        BY <4>2
      <4>3. CASE invalidateQueries(Invalidated(c))
        <5>1. cache'[k] \in {cache[k], [cache[k] EXCEPT !.invalid = TRUE]}
          BY <4>3 DEF invalidateQueries
        <5>2. QED
          BY <4>1, <5>1 DEF CacheEntry
      <4>4. QED
        BY <2>4, <4>2, <4>3 DEF Return
    <3>3. QED
      BY <1>2, <2>1, <3>1, <3>2, AttemptsFrame
  <2>5. QED
    BY <1>2, <2>2, <2>3, <2>4, ConsoleSteps, AttemptsQueries, AttemptsServed, AttemptsReset
<1>3. AttemptsInv /\ UNCHANGED consoleVars => AttemptsInv'
  <2>1. UNCHANGED consoleVars => (ResetAt("deliveries")' <=> ResetAt("deliveries"))
    BY DEF ResetAt, consoleVars
  <2>2. QED
    BY <2>1, AttemptsFrame DEF consoleVars, consoleDb
<1>4. AttemptsInv => AttemptsListed
  BY DEF AttemptsInv
<1>5. QED
  BY <1>1, <1>2, <1>3, <1>4, ConsoleInvariance, PTL DEF ConsoleSpec
-----------------------------------------------------------------------------
(***************************************************************************)
(* The database bootstrap, for any instances, calls, migration files and   *)
(* failures: the schema is sound, a call of getSql gets its database, and  *)
(* the connection of the auth driver has one holder at a time.             *)
(***************************************************************************)

(***************************************************************************)
(* The inductive invariant of the migration passes.  What a pass has still *)
(* to do and what is applied cover what its instance was built with; what  *)
(* other passes apply meanwhile only adds to it.                           *)
(***************************************************************************)
PassTypes ==
  /\ disk \subseteq Files
  /\ seen \in [Instances -> SUBSET Files]
  /\ sql \in [Instances -> {"none", "opening", "chained", "applying", "ready"}]
  /\ todo \in [Instances -> SUBSET Files]
  /\ runs \in [Files -> Nat]

\* A file has been committed once when it is recorded, and never otherwise.
Recorded == \A f \in Files : runs[f] = IF f \in applied THEN 1 ELSE 0

\* In the preview nothing has been done for an instance that is not loaded.
Unloaded == dbSource = "pglite" => \A m \in Instances \ loaded : sql[m] = "none"

Covered ==
  \A m \in Instances :
    /\ sql[m] = "applying" => seen[m] \subseteq applied \cup todo[m]
    /\ sql[m] = "ready" => seen[m] \subseteq applied

PassInv == PassTypes /\ Recorded /\ Unloaded /\ Covered
-----------------------------------------------------------------------------
\* The database starts empty, with no instance loaded.
LEMMA PassInit == BootInit => PassInv
  BY DEF BootInit, PassInv, PassTypes, Recorded, Unloaded, Covered

\* Starting an instance is a matter of its own promise.
LEMMA StartKeeps ==
  ASSUME PassInv, NEW m \in Instances, Start(m)
  PROVE  /\ sql' \in [Instances -> {"none", "opening", "chained", "applying", "ready"}]
         /\ \A n \in Instances : sql'[n] = sql[n] \/ (n = m /\ sql'[n] = "opening")
  BY DEF PassInv, PassTypes, Start

\* A module that is loaded has the files of the moment; it was not at work before.
LEMMA LoadKeeps ==
  ASSUME PassInv, NEW m \in Instances, Load(m)
  PROVE  PassInv'
<1>1. /\ sql' \in [Instances -> {"none", "opening", "chained", "applying", "ready"}]
      /\ \A n \in Instances : sql'[n] = sql[n] \/ (n = m /\ sql'[n] = "opening")
  BY StartKeeps DEF Load, PassInv, PassTypes
<1>2. /\ seen' = [seen EXCEPT ![m] = disk] /\ loaded' = loaded \cup {m}
      /\ m \notin loaded /\ dbSource = "pglite"
      /\ UNCHANGED <<dbSource, disk, todo, runs, applied>>
  BY DEF Load
<1>3. sql[m] = "none"
  BY <1>2 DEF PassInv, Unloaded
<1>4. PassTypes' /\ Recorded'
  BY <1>1, <1>2 DEF PassInv, PassTypes, Recorded
<1>5. Unloaded'
  BY <1>1, <1>2 DEF PassInv, Unloaded
<1>6. Covered'
  BY <1>1, <1>2, <1>3 DEF PassInv, Covered, PassTypes
<1>7. QED
  BY <1>4, <1>5, <1>6 DEF PassInv

\* A pass covers what its instance was built with.
LEMMA ReadKeeps ==
  ASSUME PassInv, NEW m \in Instances, Read(m)
  PROVE  PassInv'
<1>1. /\ \/ MyTurn(m) /\ UNCHANGED seen
         \/ dbSource = "neon" /\ seen' = [seen EXCEPT ![m] = disk]
      /\ sql' = [sql EXCEPT ![m] = "applying"]
      /\ todo' = [todo EXCEPT ![m] = seen'[m] \ applied]
      /\ UNCHANGED <<dbSource, disk, loaded, applied, runs>>
  BY DEF Read, pendingMigrations
<1>2. seen' \in [Instances -> SUBSET Files] /\ \A n \in Instances \ {m} : seen'[n] = seen[n]
  BY <1>1 DEF PassInv, PassTypes
<1>3. PassTypes' /\ Recorded'
  BY <1>1, <1>2 DEF PassInv, PassTypes, Recorded
<1>4. Unloaded'
  BY <1>1 DEF PassInv, Unloaded, PassTypes, MyTurn
<1>5. Covered'
  BY <1>1, <1>2 DEF PassInv, Covered, PassTypes
<1>6. QED
  BY <1>3, <1>4, <1>5 DEF PassInv

\* A file is committed only when it is not recorded, and recorded with it.
LEMMA ApplyKeeps ==
  ASSUME PassInv, NEW m \in Instances, Apply(m)
  PROVE  PassInv'
<1> DEFINE f == first(todo[m])
<1>1. UNCHANGED <<dbSource, disk, seen, loaded>> /\ sql[m] = "applying"
  BY DEF Apply
<1>2. CASE /\ isNew(f) /\ applied' = applied \cup {f}
           /\ runs' = [runs EXCEPT ![f] = @ + 1]
           /\ todo' = [todo EXCEPT ![m] = @ \ {f}]
           /\ UNCHANGED sql
  <2>1. f \notin applied
    BY <1>2 DEF isNew
  <2> HIDE DEF f
  <2>2. PassTypes' /\ Recorded'
    <3>1. /\ \A g \in Files : runs[g] \in Nat /\ runs'[g] = IF g = f THEN runs[g] + 1 ELSE runs[g]
          /\ runs' = [g \in Files |-> IF g = f THEN runs[g] + 1 ELSE runs[g]]
      BY <1>2 DEF PassInv, PassTypes
    <3>2. Recorded'
      BY <1>2, <2>1, <3>1 DEF PassInv, Recorded
    <3>3. runs' \in [Files -> Nat]
      <4>1. \A g \in Files : (IF g = f THEN runs[g] + 1 ELSE runs[g]) \in Nat
        BY <3>1
      <4>2. QED
        BY <3>1, <4>1
    <3>4. todo' \in [Instances -> SUBSET Files]
      BY <1>2 DEF PassInv, PassTypes
    <3>5. QED
      BY <1>1, <1>2, <3>2, <3>3, <3>4 DEF PassInv, PassTypes
  <2>3. Unloaded'
    BY <1>1, <1>2 DEF PassInv, Unloaded
  <2>4. Covered'
    BY <1>1, <1>2 DEF PassInv, PassTypes, Covered
  <2>5. QED
    BY <2>2, <2>3, <2>4 DEF PassInv
<1>3. CASE Reject({m}) /\ UNCHANGED <<applied, runs>>
  <2>1. PassTypes' /\ Recorded'
    BY <1>1, <1>3 DEF PassInv, PassTypes, Recorded, Reject, Cleared
  <2>2. Unloaded'
    BY <1>1, <1>3 DEF PassInv, Unloaded, Reject, Cleared
  <2>3. Covered'
    BY <1>1, <1>3 DEF PassInv, PassTypes, Covered, Reject, Cleared
  <2>4. QED
    BY <2>1, <2>2, <2>3 DEF PassInv
<1>4. QED
  BY <1>2, <1>3 DEF Apply

\* Every step of the database and its callers keeps the invariant.
LEMMA PassStep ==
  ASSUME PassInv, [BootNext]_bootVars
  PROVE  PassInv'
<1> USE DEF PassInv
<1>1. ASSUME NEW f \in Late, Edit(f) PROVE PassInv'
  BY <1>1, BootstrapAssumption DEF Edit, PassTypes, Recorded, Unloaded, Covered
<1>2. ASSUME NEW m \in Instances, NEW c \in Callers, getSql(c, m) PROVE PassInv'
  <2>1. /\ sql' \in [Instances -> {"none", "opening", "chained", "applying", "ready"}]
        /\ \A n \in Instances : sql'[n] = sql[n] \/ (n = m /\ sql'[n] = "opening")
    BY <1>2, StartKeeps DEF getSql
  <2>2. m \in loaded /\ UNCHANGED <<dbSource, disk, seen, loaded, todo, applied, runs>>
    BY <1>2 DEF getSql
  <2>3. QED
    BY <2>1, <2>2 DEF PassTypes, Recorded, Unloaded, Covered
<1>3. ASSUME Open PROVE PassInv'
  <2>1. UNCHANGED <<dbSource, disk, seen, loaded, applied, runs>>
    BY <1>3 DEF Open
  <2>2. UNCHANGED <<sql, todo>> \/ Reject(Opening)
    BY <1>3 DEF Open
  <2>3. CASE UNCHANGED <<sql, todo>>
    BY <2>1, <2>3 DEF PassTypes, Recorded, Unloaded, Covered
  <2>4. CASE Reject(Opening)
    BY <2>1, <2>4 DEF PassTypes, Recorded, Unloaded, Covered, Reject, Cleared, Opening
  <2>5. QED
    BY <2>2, <2>3, <2>4
<1>4. ASSUME NEW m \in Instances, Enchain(m) PROVE PassInv'
  BY <1>4 DEF Enchain, PassTypes, Recorded, Unloaded, Covered
<1>5. ASSUME NEW m \in Instances, Ready(m) PROVE PassInv'
  BY <1>5 DEF Ready, PassTypes, Recorded, Unloaded, Covered
<1>6. ASSUME UNCHANGED <<dbSource, disk, seen, loaded, sql, todo, applied, runs>> PROVE PassInv'
  BY <1>6 DEF PassTypes, Recorded, Unloaded, Covered
<1>7. ASSUME NEW a \in AuthOps, AskConnection(a) \/ acquireConnection(a) \/ releaseConnection(a)
      PROVE PassInv'
  BY <1>6, <1>7 DEF AskConnection, acquireConnection, releaseConnection, passVars
<1>8. ASSUME NEW c \in Callers, CallAgain(c) PROVE PassInv'
  BY <1>6, <1>8 DEF CallAgain
<1>9. CASE UNCHANGED bootVars
  BY <1>6, <1>9 DEF bootVars, passVars
<1> HIDE DEF PassInv
<1>10. QED
  BY <1>1, <1>2, <1>3, <1>4, <1>5, <1>7, <1>8, <1>9, LoadKeeps, ReadKeeps, ApplyKeeps
     DEF BootNext, BootProgress

\* However many instances, calls or builds migrate at once, and whatever
\* fails, no file is committed twice, and a database is handed out only with
\* the schema its caller's code was built for.
THEOREM SchemaIsSound == BootSpec => []SchemaSound
<1>1. PassInv => SchemaSound
  BY DEF PassInv, PassTypes, Recorded, Covered, SchemaSound
<1>2. QED
  BY <1>1, PassInit, PassStep, PTL DEF BootSpec
-----------------------------------------------------------------------------
(***************************************************************************)
(* Calls of getSql in the preview.  The chain holds the passes that have   *)
(* not settled, each once, and only the first of them is at work; so what  *)
(* it has read of _migrations stays true until it applies a file, and no   *)
(* call fails because another pass was quicker.  A call waits only for a   *)
(* pass that is under way.                                                 *)
(***************************************************************************)
Chained ==
  /\ chain \in Seq(Instances) /\ pglite \in {"none", "opening", "open"}
  /\ \A i, j \in 1..Len(chain) : chain[i] = chain[j] => i = j
  /\ \A i \in 1..Len(chain) : sql[chain[i]] \in {"chained", "applying"}
  /\ \A m \in Instances :
       /\ sql[m] = "chained" => \E i \in 1..Len(chain) : chain[i] = m
       /\ sql[m] = "applying" => chain # <<>> /\ Head(chain) = m /\ todo[m] \cap applied = {}
       /\ sql[m] = "opening" => pglite \in {"opening", "open"}

Called ==
  /\ dbFaults \in Nat
  /\ call \in [Callers -> [on : Instances \cup {0}, result : {"none", "ok", "failed"},
                           faultsBefore : Nat]]
  /\ \A c \in Callers :
       /\ call[c].faultsBefore <= dbFaults
       /\ call[c].result = "failed" => dbFaults > call[c].faultsBefore
       /\ Waiting(c) => sql[call[c].on] \in {"opening", "chained", "applying"}

ServeInv == dbSource = "pglite" => Chained /\ Called

\* A finite set of numbers that is not empty has a first: a smallest set
\* without one would still lack it without one of its members.
LEMMA FirstExists ==
  ASSUME NEW S \in SUBSET Nat, IsFiniteSet(S), S # {}
  PROVE  \E f \in S : \A g \in S : f <= g
<1> DEFINE Without == {T \in FiniteSubsetsOf(S) : T # {} /\ \A f \in T : \E g \in T : ~(f <= g)}
<1>1. SUFFICES ASSUME Without # {} PROVE FALSE
  BY DEF FiniteSubsetsOf
<1>2. IsWellFoundedOn(StrictSubsetOrdering(S), FiniteSubsetsOf(S))
  BY FS_StrictSubsetOrderingWellFounded
<1>3. PICK T \in Without : \A U \in Without : ~(<<U, T>> \in StrictSubsetOrdering(S))
  BY <1>1, <1>2, WFMin
<1>4. PICK x \in T : TRUE
  OBVIOUS
<1> DEFINE U == T \ {x}
<1>5. T \subseteq S /\ IsFiniteSet(T) /\ IsFiniteSet(U)
  BY FS_Subset DEF FiniteSubsetsOf
<1>6. <<U, T>> \in StrictSubsetOrdering(S)
  BY <1>4, <1>5 DEF StrictSubsetOrdering
<1>7. U = {} \/ \E f \in U : \A g \in U : f <= g
  BY <1>3, <1>5, <1>6 DEF FiniteSubsetsOf
<1>8. \E f \in T : \A g \in T : f <= g
  BY <1>4, <1>5, <1>7
<1>9. QED
  BY <1>8

\* The first file of a list that is not empty is one of it.
LEMMA FirstOfFiles ==
  ASSUME NEW S \in SUBSET Files, S # {}
  PROVE  first(S) \in S
<1>1. S \in SUBSET Nat /\ IsFiniteSet(S)
  BY BootstrapAssumption, FS_Subset
<1>2. QED
  BY <1>1, FirstExists DEF first

\* Whoever is first on the chain and has settled leaves it to the others.
LEMMA SettledChain ==
  ASSUME PassInv, Chained, NEW m \in Instances, sql[m] = "applying"
  PROVE  /\ Settled(m) \in Seq(Instances) /\ Len(Settled(m)) = Len(chain) - 1
         /\ \A i \in 1..Len(Settled(m)) : i + 1 \in 1..Len(chain) /\ Settled(m)[i] = chain[i + 1]
         /\ \A i \in 1..Len(Settled(m)) : Settled(m)[i] # m
         /\ chain # <<>> /\ chain[1] = m
<1>1. chain # <<>> /\ Head(chain) = m /\ chain \in Seq(Instances)
  BY DEF Chained
<1>2. Settled(m) = Tail(chain)
  BY <1>1 DEF Settled
<1>3. /\ Settled(m) \in Seq(Instances) /\ Len(Settled(m)) = Len(chain) - 1
      /\ \A i \in 1..Len(Settled(m)) : i + 1 \in 1..Len(chain) /\ Settled(m)[i] = chain[i + 1]
      /\ 1 \in 1..Len(chain) /\ chain[1] = m
  BY <1>1, <1>2
<1>4. ASSUME NEW i \in 1..Len(Settled(m)) PROVE Settled(m)[i] # m
  <2>1. i + 1 # 1 /\ i + 1 \in 1..Len(chain)
    BY <1>3
  <2>2. QED
    BY <1>3, <2>1 DEF Chained
<1>5. QED
  BY <1>1, <1>3, <1>4

\* When a pass settles, those behind it move up.
LEMMA SettleKeeps ==
  ASSUME PassInv, Chained, NEW m \in Instances, sql[m] = "applying",
         chain' = Settled(m), sql'[m] \in {"none", "ready"},
         \A n \in Instances \ {m} : sql'[n] = sql[n],
         UNCHANGED pglite
  PROVE  Chained'
<1>1. \A n \in Instances : sql[n] = "applying" => n = m
  BY DEF Chained
<1>2. /\ chain' \in Seq(Instances) /\ Len(chain') = Len(chain) - 1
      /\ \A i \in 1..Len(chain') : i + 1 \in 1..Len(chain) /\ chain'[i] = chain[i + 1]
      /\ \A i \in 1..Len(chain') : chain'[i] # m
      /\ chain # <<>> /\ chain[1] = m
  BY SettledChain
<1>3. \A i, j \in 1..Len(chain') : chain'[i] = chain'[j] => i = j
  BY <1>2 DEF Chained
<1>4. \A i \in 1..Len(chain') : sql'[chain'[i]] \in {"chained", "applying"}
  BY <1>2 DEF Chained
<1>5. ASSUME NEW n \in Instances, sql'[n] = "chained"
      PROVE  \E i \in 1..Len(chain') : chain'[i] = n
  <2>1. n # m /\ sql[n] = "chained"
    BY <1>5
  <2>2. PICK j \in 1..Len(chain) : chain[j] = n
    BY <2>1 DEF Chained
  <2>3. j # 1 /\ Len(chain) \in Nat
    BY <1>2, <2>1, <2>2 DEF Chained
  <2>4. j - 1 \in 1..Len(chain') /\ (j - 1) + 1 = j
    BY <1>2, <2>2, <2>3
  <2>5. QED
    BY <1>2, <2>2, <2>4
<1>6. \A n \in Instances : sql'[n] # "applying"
  BY <1>1
<1>7. \A n \in Instances : sql'[n] = "opening" => pglite' \in {"opening", "open"}
  BY DEF Chained
<1>8. QED
  BY <1>2, <1>3, <1>4, <1>5, <1>6, <1>7 DEF Chained

\* A step that neither settles a pass nor lets one begin.
LEMMA ChainQuiet ==
  ASSUME Chained, UNCHANGED <<chain, todo, applied>>,
         \A n \in Instances : \/ sql'[n] = sql[n]
                              \/ sql[n] \in {"none", "opening"} /\ sql'[n] \in {"none", "opening"},
         \A n \in Instances : sql'[n] = "opening" => pglite' \in {"opening", "open"},
         pglite' \in {"none", "opening", "open"}
  PROVE  Chained'
<1>1. ASSUME NEW i \in 1..Len(chain) PROVE sql'[chain[i]] = sql[chain[i]]
  <2>1. chain[i] \in Instances
    BY DEF Chained
  <2>2. QED
    BY <2>1 DEF Chained
<1>2. QED
  BY <1>1 DEF Chained

\* Calls do not notice that what they wait for gets further.
LEMMA CallsQuiet ==
  ASSUME Called, UNCHANGED <<call, dbFaults>>,
         \A n \in Instances : sql[n] \in {"opening", "chained", "applying"} =>
                              sql'[n] \in {"opening", "chained", "applying"}
  PROVE  Called'
  BY DEF Called, Waiting

\* When promises reject, something has failed since any call for them was made.
LEMMA CallsRejected ==
  ASSUME PassInv, Called, NEW ms \in SUBSET Instances, Reject(ms), dbFaults' = dbFaults + 1
  PROVE  Called'
<1>1. /\ dbFaults \in Nat /\ dbFaults' \in Nat
      /\ \A c \in Callers : call[c].faultsBefore \in Nat /\ call[c].faultsBefore <= dbFaults
  BY DEF Called
<1>2. ASSUME NEW c \in Callers
      PROVE  call'[c] = IF Waiting(c) /\ call[c].on \in ms
                        THEN [call[c] EXCEPT !.result = "failed"] ELSE call[c]
  BY DEF Reject
<1>3. ASSUME NEW c \in Callers
      PROVE  /\ call'[c] \in [on : Instances \cup {0}, result : {"none", "ok", "failed"},
                              faultsBefore : Nat]
             /\ call'[c].faultsBefore = call[c].faultsBefore /\ call'[c].on = call[c].on
             /\ call'[c].result = "none" =>
                  /\ call[c].result = "none"
                  /\ call[c].on # 0 => call[c].on \notin ms
  BY <1>2 DEF Called, Waiting
<1>4. call' \in [Callers -> [on : Instances \cup {0}, result : {"none", "ok", "failed"},
                             faultsBefore : Nat]]
  <2>1. call' = [c \in Callers |-> call'[c]]
    BY DEF Reject
  <2>2. QED
    BY <1>3, <2>1
<1>5. ASSUME NEW c \in Callers
      PROVE  call'[c].faultsBefore <= dbFaults' /\ dbFaults' > call'[c].faultsBefore
  BY <1>1, <1>3
<1>6. ASSUME NEW c \in Callers, Waiting(c)'
      PROVE  sql'[call'[c].on] \in {"opening", "chained", "applying"}
  <2>1. call[c].on \notin ms /\ call[c].on \in Instances /\ Waiting(c) /\ call'[c].on = call[c].on
    BY <1>3, <1>6 DEF Called, Waiting
  <2>2. sql'[call[c].on] = sql[call[c].on]
    BY <2>1 DEF Reject, Cleared
  <2>3. QED
    BY <2>1, <2>2 DEF Called
<1>7. QED
  BY <1>1, <1>4, <1>5, <1>6 DEF Called

\* The module, or a request, starts an instance whose promise has no result yet.
LEMMA StartServes ==
  ASSUME PassInv, Chained, NEW m \in Instances, Start(m)
  PROVE  /\ \A n \in Instances : \/ sql'[n] = sql[n]
                                 \/ n = m /\ sql[n] = "none" /\ sql'[n] = "opening"
         /\ \A n \in Instances : sql'[n] = "opening" => pglite' \in {"opening", "open"}
         /\ sql'[m] # "none" /\ pglite' \in {"none", "opening", "open"}
  BY DEF PassInv, PassTypes, Start, Chained

\* A file is applied by the first of the chain; or it fails, and the pass with it.
LEMMA ApplyServes ==
  ASSUME PassInv, Chained, Called, NEW m \in Instances, Apply(m)
  PROVE  Chained' /\ Called'
<1> DEFINE f == first(todo[m])
<1>1. sql[m] = "applying" /\ todo[m] # {} /\ UNCHANGED <<dbSource, pglite>>
  BY DEF Apply
<1>2. f \in todo[m] /\ f \notin applied
  <2>1. f \in todo[m]
    BY <1>1, FirstOfFiles DEF PassInv, PassTypes
  <2>2. QED
    BY <1>1, <2>1 DEF Chained
<1>3. CASE /\ applied' = applied \cup {f} /\ todo' = [todo EXCEPT ![m] = @ \ {f}]
           /\ UNCHANGED <<sql, chain, call, dbFaults>>
  <2> HIDE DEF f
  <2>1. \A n \in Instances : sql[n] = "applying" => n = m
    BY <1>1 DEF Chained
  <2>2. todo'[m] \cap applied' = {}
    BY <1>1, <1>3 DEF Chained, PassInv, PassTypes
  <2>3. Chained'
    BY <1>1, <1>3, <2>1, <2>2 DEF Chained
  <2>4. QED
    BY <1>3, <2>3, CallsQuiet
<1>4. CASE Reject({m}) /\ dbFaults' = dbFaults + 1 /\ chain' = Settled(m)
  <2>1. sql'[m] = "none" /\ \A n \in Instances \ {m} : sql'[n] = sql[n]
    BY <1>4 DEF Reject, Cleared
  <2>2. QED
    BY <1>1, <1>4, <2>1, SettleKeeps, CallsRejected
<1>5. QED
  <2>1. isNew(f)
    BY <1>2 DEF isNew
  <2>2. QED
    BY <1>3, <1>4, <2>1 DEF Apply

\* Every step keeps the chain and the calls sound.
LEMMA ServeStep ==
  ASSUME PassInv, ServeInv, [BootNext]_bootVars
  PROVE  ServeInv'
<1>1. dbSource' = dbSource
  BY DEF BootNext, BootProgress, bootVars, passVars, Edit, Load, getSql, Open, Enchain, Read, Apply,
         Ready, CallAgain, AskConnection, acquireConnection, releaseConnection
<1>2. SUFFICES ASSUME dbSource = "pglite", Chained, Called PROVE Chained' /\ Called'
  BY <1>1 DEF ServeInv
<1>3. ASSUME UNCHANGED <<pglite, sql, todo, chain, applied, call, dbFaults>> PROVE Chained' /\ Called'
  BY <1>2, <1>3 DEF Chained, Called, Waiting
<1>4. ASSUME NEW m \in Instances, Load(m) PROVE Chained' /\ Called'
  <2>1. UNCHANGED <<todo, chain, applied, call, dbFaults>>
    BY <1>4 DEF Load
  <2>2. CASE UNCHANGED <<sql, pglite>>
    BY <1>3, <2>1, <2>2
  <2>3. CASE Start(m)
    <3>1. /\ \A n \in Instances : \/ sql'[n] = sql[n]
                                  \/ n = m /\ sql[n] = "none" /\ sql'[n] = "opening"
          /\ \A n \in Instances : sql'[n] = "opening" => pglite' \in {"opening", "open"}
          /\ pglite' \in {"none", "opening", "open"}
      BY <1>2, <2>3, StartServes
    <3>2. Chained'
      BY <1>2, <2>1, <3>1, ChainQuiet
    <3>3. Called'
      BY <1>2, <2>1, <3>1, CallsQuiet
    <3>4. QED
      BY <3>2, <3>3
  <2>4. QED
    BY <1>4, <2>2, <2>3 DEF Load
<1>5. ASSUME NEW c \in Callers, NEW m \in Instances, getSql(c, m) PROVE Chained' /\ Called'
  <2>1. Start(m) /\ UNCHANGED <<todo, chain, applied, dbFaults>>
    BY <1>5 DEF getSql
  <2>2. /\ \A n \in Instances : \/ sql'[n] = sql[n]
                                \/ n = m /\ sql[n] = "none" /\ sql'[n] = "opening"
        /\ \A n \in Instances : sql'[n] = "opening" => pglite' \in {"opening", "open"}
        /\ pglite' \in {"none", "opening", "open"} /\ sql'[m] # "none"
    BY <1>2, <2>1, StartServes
  <2>3. Chained'
    BY <1>2, <2>1, <2>2, ChainQuiet
  <2> DEFINE new == [on |-> m, faultsBefore |-> dbFaults,
                     result |-> IF sql[m] = "ready" THEN "ok" ELSE "none"]
  <2>4. call' = [call EXCEPT ![c] = new]
    BY <1>5 DEF getSql
  <2>5. new \in [on : Instances \cup {0}, result : {"none", "ok", "failed"}, faultsBefore : Nat]
        /\ new.result # "failed" /\ new.faultsBefore = dbFaults /\ new.on = m
        /\ (new.result = "none" => sql[m] # "ready")
    BY <1>2 DEF Called
  <2>6. sql'[m] \in {"none", "opening", "chained", "applying", "ready"}
    BY <2>2 DEF PassInv, PassTypes
  <2> HIDE DEF new
  <2>7. ASSUME NEW d \in Callers
        PROVE  /\ call'[d].faultsBefore <= dbFaults'
               /\ call'[d].result = "failed" => dbFaults' > call'[d].faultsBefore
               /\ Waiting(d)' => sql'[call'[d].on] \in {"opening", "chained", "applying"}
    <3>1. CASE d = c
      <4>1. call'[d] = new
        BY <1>2, <2>4, <3>1 DEF Called
      <4>2. new.result = "none" => sql'[m] \in {"opening", "chained", "applying"}
        BY <2>2, <2>5, <2>6
      <4>3. QED
        BY <1>2, <2>1, <2>5, <4>1, <4>2 DEF Called, Waiting
    <3>2. CASE d # c
      <4>1. call'[d] = call[d] /\ dbFaults' = dbFaults
        BY <1>2, <2>1, <2>4, <3>2 DEF Called
      <4>2. Waiting(d)' => Waiting(d) /\ call[d].on \in Instances
        BY <1>2, <4>1 DEF Called, Waiting
      <4>3. QED
        BY <1>2, <2>2, <4>1, <4>2 DEF Called
    <3>3. QED
      BY <3>1, <3>2
  <2>8. QED
    BY <1>2, <2>1, <2>3, <2>4, <2>5, <2>7 DEF Called
<1>6. ASSUME Open PROVE Chained' /\ Called'
  <2>1. UNCHANGED <<chain, applied>> /\ pglite = "opening"
    BY <1>6 DEF Open
  <2>2. CASE pglite' = "open" /\ UNCHANGED <<sql, todo, call, dbFaults>>
    BY <1>2, <2>1, <2>2, CallsQuiet DEF Chained
  <2>3. CASE dbFaults' = dbFaults + 1 /\ pglite' = "none" /\ Reject(Opening)
    <3>1. Opening \in SUBSET Instances
      BY DEF Opening
    <3>2. \A n \in Instances : /\ sql[n] # "opening" => sql'[n] = sql[n] /\ todo'[n] = todo[n]
                               /\ sql[n] = "opening" => sql'[n] = "none"
      BY <2>3 DEF Reject, Cleared, Opening
    <3>3. Chained'
      BY <1>2, <2>1, <2>3, <3>2 DEF Chained
    <3>4. QED
      BY <1>2, <2>3, <3>1, <3>3, CallsRejected
  <2>4. QED
    BY <1>6, <2>2, <2>3 DEF Open
<1>7. ASSUME NEW m \in Instances, Enchain(m) PROVE Chained' /\ Called'
  <2>1. /\ sql[m] = "opening" /\ sql' = [sql EXCEPT ![m] = "chained"]
        /\ chain' = Append(chain, m) /\ UNCHANGED <<pglite, todo, applied, call, dbFaults>>
    BY <1>7 DEF Enchain
  <2>2. /\ chain' \in Seq(Instances) /\ Len(chain') = Len(chain) + 1 /\ Len(chain) \in Nat
        /\ \A i \in 1..Len(chain') : chain'[i] = IF i = Len(chain') THEN m ELSE chain[i]
        /\ \A i \in 1..Len(chain) : chain[i] # m
    BY <1>2, <2>1 DEF Chained
  <2>3. sql'[m] = "chained" /\ \A n \in Instances \ {m} : sql'[n] = sql[n]
    BY <2>1 DEF PassInv, PassTypes
  <2>4. \A i, j \in 1..Len(chain') : chain'[i] = chain'[j] => i = j
    BY <1>2, <2>2 DEF Chained
  <2>5. ASSUME NEW i \in 1..Len(chain') PROVE sql'[chain'[i]] \in {"chained", "applying"}
    <3>1. CASE i = Len(chain')
      BY <2>2, <2>3, <3>1
    <3>2. CASE i # Len(chain')
      <4>1. i \in 1..Len(chain) /\ chain'[i] = chain[i] /\ chain[i] \in Instances \ {m}
        BY <1>2, <2>2, <3>2 DEF Chained
      <4>2. QED
        BY <1>2, <2>3, <4>1 DEF Chained
    <3>3. QED
      BY <3>1, <3>2
  <2>6. ASSUME NEW n \in Instances, sql'[n] = "chained"
        PROVE  \E i \in 1..Len(chain') : chain'[i] = n
    <3>1. CASE n = m
      BY <2>2, <3>1
    <3>2. CASE n # m
      <4>1. PICK i \in 1..Len(chain) : chain[i] = n
        BY <1>2, <2>3, <2>6, <3>2 DEF Chained
      <4>2. i \in 1..Len(chain') /\ i # Len(chain')
        BY <2>2
      <4>3. QED
        BY <2>2, <4>1, <4>2
    <3>3. QED
      BY <3>1, <3>2
  <2>7. ASSUME NEW n \in Instances, sql'[n] = "applying"
        PROVE  chain' # <<>> /\ Head(chain') = n /\ todo'[n] \cap applied' = {}
    <3>1. chain # <<>> /\ Head(chain) = n /\ todo[n] \cap applied = {} /\ chain \in Seq(Instances)
      BY <1>2, <2>3, <2>7 DEF Chained
    <3>2. QED
      BY <2>1, <3>1
  <2>8. Chained'
    BY <1>2, <2>1, <2>2, <2>3, <2>4, <2>5, <2>6, <2>7 DEF Chained
  <2>9. QED
    BY <1>2, <2>1, <2>3, <2>8, CallsQuiet
<1>8. ASSUME NEW m \in Instances, Read(m) PROVE Chained' /\ Called'
  <2>1. /\ sql[m] = "chained" /\ Head(chain) = m /\ sql' = [sql EXCEPT ![m] = "applying"]
        /\ todo' = [todo EXCEPT ![m] = seen[m] \ applied]
        /\ UNCHANGED <<pglite, chain, applied, call, dbFaults>>
    BY <1>2, <1>8 DEF Read, MyTurn, pendingMigrations
  <2>2. chain # <<>> /\ chain[1] = m
    BY <1>2, <2>1 DEF Chained
  <2>3. \A n \in Instances : sql[n] # "applying" \/ n = m
    BY <1>2, <2>1 DEF Chained
  <2>4. sql'[m] = "applying" /\ \A n \in Instances \ {m} : sql'[n] = sql[n]
    BY <2>1 DEF PassInv, PassTypes
  <2>5. todo'[m] \cap applied' = {}
    BY <2>1 DEF PassInv, PassTypes
  <2>6. \A i \in 1..Len(chain) : sql'[chain[i]] \in {"chained", "applying"}
    BY <1>2, <2>4 DEF Chained
  <2>7. Chained'
    BY <1>2, <2>1, <2>2, <2>3, <2>4, <2>5, <2>6 DEF Chained
  <2>8. QED
    BY <1>2, <2>1, <2>4, <2>7, CallsQuiet
<1>9. ASSUME NEW m \in Instances, Ready(m) PROVE Chained' /\ Called'
  <2>1. /\ sql[m] = "applying" /\ sql' = [sql EXCEPT ![m] = "ready"] /\ chain' = Settled(m)
        /\ UNCHANGED <<pglite, dbFaults>>
        /\ call' = [c \in Callers |-> IF Waiting(c) /\ call[c].on = m
                                      THEN [call[c] EXCEPT !.result = "ok"] ELSE call[c]]
    BY <1>9 DEF Ready
  <2>2. sql'[m] = "ready" /\ \A n \in Instances \ {m} : sql'[n] = sql[n]
    BY <2>1 DEF PassInv, PassTypes
  <2>3. Chained'
    BY <1>2, <2>1, <2>2, SettleKeeps
  <2>4. ASSUME NEW c \in Callers
        PROVE  /\ call'[c] \in [on : Instances \cup {0}, result : {"none", "ok", "failed"},
                                faultsBefore : Nat]
               /\ call'[c].faultsBefore = call[c].faultsBefore /\ call'[c].on = call[c].on
               /\ call'[c].result = "failed" => call[c].result = "failed"
               /\ Waiting(c)' => Waiting(c) /\ call[c].on \in Instances \ {m}
    BY <1>2, <2>1 DEF Called, Waiting
  <2>5. Called'
    <3>1. call' = [c \in Callers |-> call'[c]]
      BY <2>1
    <3>2. call' \in [Callers -> [on : Instances \cup {0}, result : {"none", "ok", "failed"},
                                 faultsBefore : Nat]]
      BY <2>4, <3>1
    <3>3. QED
      <4>1. \A n \in Instances \ {m} : sql[n] \in {"opening", "chained", "applying"} =>
                                      sql'[n] \in {"opening", "chained", "applying"}
        BY <2>2
      <4>2. \A c \in Callers : Waiting(c)' => sql'[call'[c].on] \in {"opening", "chained", "applying"}
        BY <1>2, <2>4, <4>1 DEF Called
      <4>3. \A c \in Callers : /\ call'[c].faultsBefore <= dbFaults'
                              /\ call'[c].result = "failed" => dbFaults' > call'[c].faultsBefore
        BY <1>2, <2>1, <2>4 DEF Called
      <4>4. QED
        BY <1>2, <2>1, <3>2, <4>2, <4>3 DEF Called
  <2>6. QED
    BY <2>3, <2>5
<1>10. ASSUME NEW c \in Callers, CallAgain(c) PROVE Chained' /\ Called'
  <2>1. call' = [call EXCEPT ![c] = Idle] /\ UNCHANGED <<pglite, sql, todo, chain, applied, dbFaults>>
    BY <1>10 DEF CallAgain
  <2>2. Chained'
    BY <1>2, <2>1 DEF Chained
  <2>3. Called'
    BY <1>2, <2>1 DEF Called, Waiting, Idle
  <2>4. QED
    BY <2>2, <2>3
<1>11. ASSUME NEW f \in Late, Edit(f) PROVE Chained' /\ Called'
  BY <1>3, <1>11 DEF Edit
<1>12. ASSUME NEW a \in AuthOps, AskConnection(a) \/ acquireConnection(a) \/ releaseConnection(a)
       PROVE  Chained' /\ Called'
  BY <1>3, <1>12 DEF AskConnection, acquireConnection, releaseConnection, passVars
<1>13. CASE UNCHANGED bootVars
  BY <1>3, <1>13 DEF bootVars, passVars
<1>14. ASSUME NEW m \in Instances, Apply(m) PROVE Chained' /\ Called'
  BY <1>2, <1>14, ApplyServes
<1>15. QED
  BY <1>4, <1>5, <1>6, <1>7, <1>8, <1>9, <1>10, <1>11, <1>12, <1>13, <1>14
     DEF BootNext, BootProgress

\* In the preview, whatever instances are loaded, whatever migrates at once and
\* whatever fails: a call of getSql fails only if the database has failed since
\* it was made, and as long as it waits, what it waits for has a next step.
THEOREM CallsGetTheirDatabase == BootSpec => []CallsSucceed
<1>1. BootInit => ServeInv
  BY DEF BootInit, ServeInv, Chained, Called, Waiting, Idle
<1>2. PassInv /\ ServeInv => CallsSucceed
  <2> SUFFICES ASSUME PassInv, dbSource = "pglite", Chained, Called, NEW c \in Callers, Waiting(c)
               PROVE  \/ sql[Ahead(c)] = "opening" /\ pglite \in {"opening", "open"}
                      \/ MyTurn(Ahead(c))
                      \/ sql[Ahead(c)] = "applying"
    BY DEF ServeInv, CallsSucceed, Called
  <2>1. call[c].on \in Instances /\ sql[call[c].on] \in {"opening", "chained", "applying"}
    BY DEF Called, Waiting
  <2>2. CASE sql[call[c].on] # "chained"
    BY <2>1, <2>2 DEF Ahead, Chained
  <2>3. CASE sql[call[c].on] = "chained"
    <3>1. PICK i \in 1..Len(chain) : chain[i] = call[c].on
      BY <2>1, <2>3 DEF Chained
    <3>2. 1 \in 1..Len(chain) /\ Head(chain) = chain[1]
      BY <3>1 DEF Chained
    <3>3. sql[Head(chain)] \in {"chained", "applying"}
      BY <3>2 DEF Chained
    <3>4. QED
      BY <2>3, <3>3 DEF Ahead, MyTurn
  <2>4. QED
    BY <2>2, <2>3
<1>3. QED
  BY <1>1, <1>2, PassInit, PassStep, ServeStep, PTL DEF BootSpec
-----------------------------------------------------------------------------
(***************************************************************************)
(* The driver.  Who waits in the queue waits once, and does not hold.      *)
(***************************************************************************)
DriverInv ==
  /\ auth \in [AuthOps -> {"idle", "asking", "queued", "holds"}]
  /\ connection \in {"none", "made"}
  /\ queue \in Seq(AuthOps)
  /\ OneHolder
  /\ \A i \in 1..Len(queue) : auth[queue[i]] = "queued"
  /\ \A i, j \in 1..Len(queue) : queue[i] = queue[j] => i = j

\* A new holder either finds the connection free or is put at the end.
LEMMA AcquireKeeps ==
  ASSUME DriverInv, NEW a \in AuthOps, acquireConnection(a)
  PROVE  DriverInv'
<1>1. auth[a] = "asking" /\ \A i \in 1..Len(queue) : queue[i] # a
  BY DEF acquireConnection, DriverInv
<1>2. CASE connection # "none"
  <2>1. /\ queue' = Append(queue, a) /\ auth' = [auth EXCEPT ![a] = "queued"]
        /\ UNCHANGED connection
    BY <1>2 DEF acquireConnection, Taken
  <2>2. /\ queue' \in Seq(AuthOps) /\ Len(queue') = Len(queue) + 1
        /\ \A i \in 1..Len(queue') : queue'[i] = IF i = Len(queue') THEN a ELSE queue[i]
    BY <2>1 DEF DriverInv
  <2>3. OneHolder'
    BY <1>1, <2>1 DEF DriverInv, OneHolder
  <2>4. QED
    BY <1>1, <2>1, <2>2, <2>3 DEF DriverInv
<1>3. CASE connection = "none"
  <2>1. auth' = [auth EXCEPT ![a] = "holds"] /\ connection' = "made" /\ queue' = queue
    BY <1>3 DEF acquireConnection, Taken
  <2>2. \A b \in AuthOps : auth[b] # "holds"
    BY <1>3 DEF DriverInv, OneHolder
  <2>3. OneHolder'
    BY <2>1, <2>2 DEF DriverInv, OneHolder
  <2>4. QED
    BY <1>1, <2>1, <2>3 DEF DriverInv
<1>4. QED
  BY <1>2, <1>3

\* A holder that leaves hands the connection to one that waits.
LEMMA ReleaseKeeps ==
  ASSUME DriverInv, NEW a \in AuthOps, releaseConnection(a)
  PROVE  DriverInv'
<1>1. auth[a] = "holds" /\ \A i \in 1..Len(queue) : queue[i] # a
  BY DEF releaseConnection, DriverInv
<1>2. \A b \in AuthOps : auth[b] = "holds" => b = a
  BY <1>1 DEF DriverInv, OneHolder
<1>3. connection = "made"
  BY <1>1 DEF DriverInv, OneHolder
<1>4. CASE queue = <<>>
  <2>1. connection' = "none" /\ auth' = [auth EXCEPT ![a] = "idle"] /\ queue' = queue
    BY <1>4 DEF releaseConnection
  <2>2. OneHolder'
    BY <1>2, <2>1 DEF DriverInv, OneHolder
  <2>3. QED
    BY <1>4, <2>1, <2>2 DEF DriverInv
<1>5. CASE queue # <<>>
  <2> DEFINE h == Head(queue)
  <2>1. /\ auth' = [auth EXCEPT ![a] = "idle", ![h] = "holds"]
        /\ queue' = Tail(queue) /\ UNCHANGED connection
    BY <1>5 DEF releaseConnection
  <2>2. h \in AuthOps /\ h = queue[1] /\ Len(queue) >= 1
    BY <1>5 DEF DriverInv
  <2>3. /\ queue' \in Seq(AuthOps) /\ Len(queue') = Len(queue) - 1
        /\ \A i \in 1..Len(queue') : queue'[i] = queue[i + 1]
    BY <1>5, <2>1 DEF DriverInv
  <2>4. h # a
    BY <1>1, <2>2
  <2> HIDE DEF h
  <2>5. OneHolder'
    BY <1>2, <1>3, <2>1, <2>2, <2>4 DEF DriverInv, OneHolder
  <2>6. \A i \in 1..Len(queue') : auth'[queue'[i]] = "queued"
    <3> TAKE i \in 1..Len(queue')
    <3>1. i + 1 \in 1..Len(queue) /\ 1 \in 1..Len(queue) /\ i + 1 # 1 /\ queue'[i] = queue[i + 1]
      <4>1. Len(queue) \in Nat /\ Len(queue') = Len(queue) - 1 /\ i \in Nat
        BY <2>3 DEF DriverInv
      <4>2. i <= Len(queue')
        BY <4>1
      <4>3. QED
        BY <2>3, <4>1, <4>2
    <3>2. queue[i + 1] # h /\ queue[i + 1] # a /\ auth[queue[i + 1]] = "queued"
      BY <1>1, <2>2, <3>1 DEF DriverInv
    <3>3. QED
      BY <2>1, <3>1, <3>2 DEF DriverInv
  <2>7. \A i, j \in 1..Len(queue') : queue'[i] = queue'[j] => i = j
    BY <2>2, <2>3 DEF DriverInv
  <2>8. QED
    BY <2>1, <2>2, <2>3, <2>5, <2>6, <2>7 DEF DriverInv
<1>6. QED
  BY <1>4, <1>5

\* Operations of the auth library have the connection one at a time, and it
\* exists exactly while one has it: acquireConnection and releaseConnection
\* lose and duplicate nothing, in any order of any number of operations.
THEOREM ConnectionExclusive == BootSpec => []OneHolder
<1>1. BootInit => DriverInv
  BY DEF BootInit, DriverInv, OneHolder
<1>2. ASSUME DriverInv, [BootNext]_bootVars PROVE DriverInv'
  <2>1. CASE UNCHANGED driverVars
    BY <1>2, <2>1 DEF driverVars, DriverInv, OneHolder
  <2>2. ASSUME NEW a \in AuthOps, AskConnection(a) PROVE DriverInv'
    <3>1. auth[a] = "idle" /\ auth' = [auth EXCEPT ![a] = "asking"] /\ UNCHANGED <<connection, queue>>
      BY <2>2 DEF AskConnection
    <3>2. OneHolder'
      BY <1>2, <3>1 DEF DriverInv, OneHolder
    <3>3. QED
      BY <1>2, <3>1, <3>2 DEF DriverInv
  <2>3. \/ UNCHANGED driverVars
        \/ \E a \in AuthOps : AskConnection(a) \/ acquireConnection(a) \/ releaseConnection(a)
    BY <1>2 DEF BootNext, BootProgress, bootVars, Edit, Load, getSql, Open, Enchain, Read, Apply,
                Ready, CallAgain
  <2>4. QED
    BY <1>2, <2>1, <2>2, <2>3, AcquireKeeps, ReleaseKeeps
<1>3. DriverInv => OneHolder
  BY DEF DriverInv
<1>4. QED
  BY <1>1, <1>2, <1>3, PTL DEF BootSpec
=============================================================================
