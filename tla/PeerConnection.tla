--------------------------- MODULE PeerConnection ---------------------------
(***************************************************************************)
(* One pair of a peer-to-peer room (lib/multiplayer/p2p.ts): both browsers *)
(* keep a slot with an RTCPeerConnection for the other, exchange offers,   *)
(* answers and candidates through a polled relay, and rebuild a pair that  *)
(* stalls.  Pairs of a room share nothing but the poll loop, so one pair   *)
(* stands for a room.  The relay and the RTCPeerConnection are external:   *)
(* they do what the code and its comments rely on.                         *)
(*                                                                         *)
(* An RTCPeerConnection is named by the number of its creation at its end  *)
(* (a new DTLS identity).  A handler is cut at each await at which another *)
(* event can find what the handler has left.  Time is left out: the stall  *)
(* timer of the watchdog runs out when nothing is on its way any more, and *)
(* earlier only as a fault (a suspended tab, a hanging request).           *)
(***************************************************************************)
EXTENDS Integers, Sequences, FiniteSets

CONSTANTS
  Polls,      \* for each peer, its polls that may overlap
  Faults,     \* which of the faults below may happen
  MaxFaults   \* bound on how many of them do

ASSUME PeerAssumption == \A p \in {1, 2} : IsFiniteSet(Polls[p]) /\ MaxFaults \in Nat

VARIABLES
  slot,     \* this.peers: what each peer holds for the other
  created,  \* RTCPeerConnections each peer has created
  outbox,   \* this.signalQueues: signals still to be posted
  relay,    \* signals the relay holds for each peer
  cursor,   \* this.cursor
  poll,     \* each poll in flight and the step of its handler
  timer,    \* this.pollTimer is set
  closed,   \* this.closed
  roster,   \* the peers the relay lists
  faults

roomVars == <<slot, created, outbox, relay, cursor, poll, timer, closed, roster, faults>>

MAX_RECOVERY_ATTEMPTS == 3

Peers == {1, 2}
Other(p) == 3 - p
\* selfId > id dials; selfId < from is polite.
Initiator(p) == p > Other(p)
Polite(p) == p < Other(p)

Signal(kind, type, pc) == [kind |-> kind, type |-> type, pc |-> pc]

NoSlot == [pc |-> 0]
\* connectTo.  Creating the channels makes a negotiation needed.
NewSlot(n, initiator) ==
  [pc |-> n, live |-> "new", signaling |-> "stable", remote |-> 0, agreed |-> 0,
   candidates |-> {}, pending |-> {}, needed |-> initiator, making |-> "no",
   recovery |-> 0, terminal |-> FALSE, recreated |-> FALSE]

NoPoll == [at |-> 0, upto |-> 0, step |-> "idle", known |-> FALSE,
           pc |-> 0, recovery |-> 0, spent |-> FALSE]

Has(p) == slot[p] # NoSlot
Joined(p) == p \in roster \/ closed[p]
Connected(p) == Has(p) /\ slot[p].live = "connected"
\* The RTCPeerConnection a handler took from the map is still in it.
Current(p, k) == Has(p) /\ slot[p].pc = poll[p][k].pc
Busy(p, k) == poll[p][k].step # "idle"

\* External: both ends hold credentials and a candidate of each other.
CanConnect ==
  \A p \in Peers :
    Has(p) /\ Has(Other(p)) /\ slot[p].agreed = slot[Other(p)].pc
           /\ slot[p].agreed \in slot[p].candidates

\* Nothing is on its way between the two.
Quiet ==
  /\ ~CanConnect
  /\ \A p \in Peers :
       /\ outbox[p] = <<>> /\ cursor[p] = Len(relay[p])
       /\ \A k \in Polls[p] : ~Busy(p, k)
       /\ timer[p] => (Has(p) <=> Other(p) \in roster)
       /\ Has(p) => /\ slot[p].making = "no"
                    /\ ~(slot[p].needed /\ slot[p].signaling = "stable")

Fault(kind) ==
  kind \in Faults /\ Cardinality(faults) < MaxFaults /\ faults' = faults \cup {kind}
NoFault == UNCHANGED faults

Step(p, k, step) == poll' = [poll EXCEPT ![p][k].step = step]
-----------------------------------------------------------------------------
RoomInit ==
  /\ slot = [p \in Peers |-> NoSlot]
  /\ created = [p \in Peers |-> 0]
  /\ outbox = [p \in Peers |-> <<>>]
  /\ relay = [p \in Peers |-> <<>>]
  /\ cursor = [p \in Peers |-> 0]
  /\ poll = [p \in Peers |-> [k \in Polls[p] |-> NoPoll]]
  /\ timer = [p \in Peers |-> FALSE]
  /\ closed = [p \in Peers |-> FALSE]
  /\ roster = {}
  /\ faults = {}

\* connectTo
Connect(p, initiator) ==
  /\ slot' = [slot EXCEPT ![p] = NewSlot(created[p] + 1, initiator)]
  /\ created' = [created EXCEPT ![p] = @ + 1]

\* Mutant: a pair that is still connecting is kept.
ReconcileConnected(p, listed) ==
  CASE listed /\ ~Has(p) -> Connect(p, Initiator(p))
    [] ~listed /\ Connected(p) -> slot' = [slot EXCEPT ![p] = NoSlot] /\ UNCHANGED created
    [] OTHER -> UNCHANGED <<slot, created>>

\* reconcileRoster
Reconcile(p, listed) ==
  CASE listed /\ ~Has(p) -> Connect(p, Initiator(p))
    [] ~listed /\ Has(p) -> slot' = [slot EXCEPT ![p] = NoSlot] /\ UNCHANGED created
    [] OTHER -> UNCHANGED <<slot, created>>

\* The first poll registers the peer; the loop starts even if it fails.
Join(p) ==
  /\ ~Joined(p)
  /\ roster' = roster \cup {p}
  /\ timer' = [timer EXCEPT ![p] = TRUE]
  /\ Reconcile(p, Other(p) \in roster)
  /\ UNCHANGED <<outbox, relay, cursor, poll, closed, faults>>

\* pollOnce up to its first signal.  A poll that brings nothing changes nothing
\* and sets the timer again.
Poll(p, k) ==
  LET listed == Other(p) \in roster
      news == cursor[p] < Len(relay[p]) IN
  /\ timer[p] /\ ~closed[p] /\ ~Busy(p, k)
  /\ news \/ listed # Has(p)
  /\ Reconcile(p, listed)
  /\ timer' = [timer EXCEPT ![p] = ~news]
  /\ poll' = IF news THEN [poll EXCEPT ![p][k] = [NoPoll EXCEPT
                             !.at = cursor[p], !.upto = Len(relay[p]),
                             !.step = "next", !.known = listed]]
                     ELSE poll
  /\ UNCHANGED <<outbox, relay, cursor, closed, roster, faults>>

\* pollOnce has seen its last signal and poll sets the timer again.  Signal
\* numbers are only compared, so they start again when all have been read.
EndPoll(p, k) ==
  LET read == cursor[p] = Len(relay[p]) /\ \A j \in Polls[p] \ {k} : ~Busy(p, j) IN
  /\ poll[p][k].step = "next"
  /\ closed[p] \/ poll[p][k].at = poll[p][k].upto
  /\ poll' = [poll EXCEPT ![p][k] = NoPoll]
  /\ timer' = [timer EXCEPT ![p] = ~closed[p]]
  /\ relay' = [relay EXCEPT ![p] = IF read THEN <<>> ELSE @]
  /\ cursor' = [cursor EXCEPT ![p] = IF read THEN 0 ELSE @]
  /\ UNCHANGED <<slot, created, outbox, closed, roster, faults>>

\* onSignal up to its first await, for a peer that has a slot s.  An offer that
\* collides is ignored by the impolite peer; a candidate without a remote
\* description waits for one; any other goes to the RTCPeerConnection, which
\* only takes those of the remote end it knows.
Handle(p, k, sig, s) ==
  LET collision == s.making # "no" \/ s.signaling # "stable"
      here == [poll[p][k] EXCEPT !.at = @ + 1] IN
  IF sig.kind = "ice"
  THEN /\ poll' = [poll EXCEPT ![p][k] = here]
       /\ slot' = [slot EXCEPT ![p] = [s EXCEPT
                    !.pending = IF s.remote = 0 THEN @ \cup {sig.pc} ELSE @,
                    !.candidates = IF s.remote = sig.pc THEN @ \cup {sig.pc} ELSE @]]
  ELSE /\ slot' = [slot EXCEPT ![p] = s]
       /\ poll' = [poll EXCEPT ![p][k] =
            IF sig.kind = "offer" /\ collision /\ ~Polite(p) THEN here
            ELSE [here EXCEPT !.step = "setRemote", !.pc = s.pc, !.recovery = s.recovery,
                              !.spent = s.recreated]]

\* The loop of pollOnce: the cursor moves before the signal is handled.  A sender
\* without a slot gets one if the roster of this poll lists it.
Take(p, k) ==
  LET n == poll[p][k].at + 1
      fresh == NewSlot(created[p] + 1, FALSE) IN
  /\ poll[p][k].step = "next" /\ ~closed[p] /\ poll[p][k].at < poll[p][k].upto
  /\ cursor' = [cursor EXCEPT ![p] = IF n > @ THEN n ELSE @]
  /\ IF Has(p)
     THEN Handle(p, k, relay[p][n], slot[p]) /\ UNCHANGED created
     ELSE IF poll[p][k].known
     THEN Handle(p, k, relay[p][n], fresh) /\ created' = [created EXCEPT ![p] = @ + 1]
     ELSE poll' = [poll EXCEPT ![p][k].at = n] /\ UNCHANGED <<slot, created>>
  /\ UNCHANGED <<outbox, relay, timer, closed, roster, faults>>

\* setRemoteDescription and flushPendingCandidates.  A waiting setLocalDescription
\* of the same RTCPeerConnection comes first.
SetRemote(p, k) ==
  LET sig == relay[p][poll[p][k].at]
      s == slot[p] IN
  /\ poll[p][k].step = "setRemote" /\ ~closed[p] /\ Current(p, k) /\ s.making # "creating"
  /\ sig.type = "answer" => s.signaling = "have-local-offer"
  /\ slot' = [slot EXCEPT ![p] = [s EXCEPT
       !.signaling = IF sig.type = "offer" THEN "have-remote-offer" ELSE "stable",
       !.remote = sig.pc, !.agreed = sig.pc,
       !.candidates = (IF s.remote = sig.pc THEN @ ELSE {}) \cup (s.pending \cap {sig.pc}),
       !.pending = {}]]
  /\ Step(p, k, IF sig.kind = "offer" THEN "setLocal" ELSE "next")
  /\ UNCHANGED <<created, outbox, relay, cursor, timer, closed, roster, faults>>

\* setRemoteDescription throws: an answer nobody waits for, a description of a
\* new identity, or a connection that was closed meanwhile.
Rejects(p, k) ==
  LET sig == relay[p][poll[p][k].at] IN
  IF closed[p] \/ ~Current(p, k) THEN TRUE
  ELSE /\ slot[p].making # "creating"
       /\ \/ sig.type = "answer" /\ slot[p].signaling # "have-local-offer"
          \/ slot[p].remote \notin {0, sig.pc} \* it may, not that it must

\* Mutant: a refused answer is taken for a refused offer.
RebuildsAlways(p, k) == ~poll[p][k].spent /\ ~closed[p]

\* The pair is rebuilt once to take an offer; connectTo refuses a closed room.
Rebuilds(p, k) ==
  relay[p][poll[p][k].at].kind = "offer" /\ ~poll[p][k].spent /\ ~closed[p]

\* The slot the handler holds may have left the map: then it is its successor
\* that is dropped, without being closed.
RejectRemote(p, k) ==
  LET attempts == IF Has(p) THEN slot[p].recovery ELSE poll[p][k].recovery IN
  /\ poll[p][k].step = "setRemote" /\ Rejects(p, k)
  /\ IF ~Rebuilds(p, k)
     THEN Step(p, k, "next") /\ UNCHANGED <<slot, created>>
     ELSE /\ slot' = [slot EXCEPT ![p] = [NewSlot(created[p] + 1, FALSE) EXCEPT
                        !.recovery = attempts, !.recreated = TRUE]]
          /\ created' = [created EXCEPT ![p] = @ + 1]
          /\ poll' = [poll EXCEPT ![p][k].pc = created[p] + 1, ![p][k].spent = TRUE]
  /\ UNCHANGED <<outbox, relay, cursor, timer, closed, roster, faults>>

\* setLocalDescription creates an answer if an offer waits for one, and else an
\* offer; the code sends either as the answer.  Candidates follow.
SetLocal(p, k) ==
  LET s == slot[p]
      answers == s.signaling = "have-remote-offer" IN
  /\ poll[p][k].step = "setLocal"
  /\ IF closed[p] \/ ~Current(p, k)
     THEN Step(p, k, "next") /\ UNCHANGED <<slot, outbox>>
     ELSE /\ s.making # "creating"
          /\ slot' = [slot EXCEPT ![p].signaling =
                        IF answers THEN "stable" ELSE "have-local-offer"]
          /\ outbox' = [outbox EXCEPT ![p] = @ \o
                          <<Signal("answer", IF answers THEN "answer" ELSE "offer", s.pc),
                            Signal("ice", "ice", s.pc)>>]
          /\ Step(p, k, "post")
  /\ UNCHANGED <<created, relay, cursor, timer, closed, roster, faults>>

\* The handler waits until its answer has been posted or given up.
Posted(p, k) ==
  /\ poll[p][k].step = "post"
  /\ ~\E i \in DOMAIN outbox[p] : outbox[p][i].kind = "answer"
  /\ Step(p, k, "next")
  /\ UNCHANGED <<slot, created, outbox, relay, cursor, timer, closed, roster, faults>>
-----------------------------------------------------------------------------
\* onnegotiationneeded: the event waits for a stable state and an empty chain.
NegotiationNeeded(p) ==
  /\ Has(p) /\ slot[p].needed /\ slot[p].making = "no" /\ slot[p].signaling = "stable"
  /\ ~\E k \in Polls[p] : Current(p, k) /\ poll[p][k].step \in {"setRemote", "setLocal"}
  /\ slot' = [slot EXCEPT ![p].needed = FALSE, ![p].making = "creating"]
  /\ UNCHANGED <<created, outbox, relay, cursor, poll, timer, closed, roster, faults>>

CreateOffer(p) ==
  /\ Has(p) /\ slot[p].making = "creating"
  /\ slot' = [slot EXCEPT ![p].making = "posting", ![p].signaling = "have-local-offer"]
  /\ outbox' = [outbox EXCEPT ![p] = @ \o <<Signal("offer", "offer", slot[p].pc),
                                            Signal("ice", "ice", slot[p].pc)>>]
  /\ UNCHANGED <<created, relay, cursor, poll, timer, closed, roster, faults>>

\* The offer of pc has left the queue: makingOffer is reset.
Made(p, sig) ==
  IF Has(p) /\ sig.kind = "offer" /\ sig.pc = slot[p].pc
  THEN [slot EXCEPT ![p].making = "no"] ELSE slot

\* postSignal: one signal of a peer at a time.  As faults, it is given up after
\* the last retry, or stored although the answer was lost, and posted again.
\* Nobody reads what is stored for a closed room.
PostSignal(p) ==
  LET sig == Head(outbox[p])
      stored == IF closed[Other(p)] THEN relay
                ELSE [relay EXCEPT ![Other(p)] = Append(@, sig)] IN
  /\ outbox[p] # <<>> /\ ~closed[p]
  /\ \/ NoFault /\ relay' = stored /\ outbox' = [outbox EXCEPT ![p] = Tail(@)] /\ slot' = Made(p, sig)
     \/ Fault("lost") /\ UNCHANGED relay /\ outbox' = [outbox EXCEPT ![p] = Tail(@)] /\ slot' = Made(p, sig)
     \/ Fault("twice") /\ relay' = stored /\ UNCHANGED <<slot, outbox>>
  /\ UNCHANGED <<created, cursor, poll, timer, closed, roster>>

\* onconnectionstatechange: connected.
Connects(p) ==
  /\ CanConnect /\ slot[p].live # "connected"
  /\ slot' = [slot EXCEPT ![p].live = "connected", ![p].recovery = 0, ![p].terminal = FALSE]
  /\ UNCHANGED <<created, outbox, relay, cursor, poll, timer, closed, roster, faults>>

\* onconnectionstatechange: failed.  restartIce makes a negotiation needed.
Failed(p) == [slot EXCEPT ![p].live = "failed", ![p].agreed = 0, ![p].candidates = {},
                          ![p].needed = TRUE]

\* The path breaks, or the RTCPeerConnection dies without an event.
Breaks(p) ==
  /\ Connected(p)
  /\ \/ Fault("breaks") /\ slot' = Failed(p) /\ timer' = [timer EXCEPT ![p] = TRUE]
     \/ Fault("dies") /\ slot' = [slot EXCEPT ![p].live = "failed", ![p].agreed = 0] /\ UNCHANGED timer
  /\ UNCHANGED <<created, outbox, relay, cursor, poll, closed, roster>>

\* The other end is not there any more, or never was the right one.  It takes
\* the RTCPeerConnection longer to notice than a signal needs.
Loses(p) ==
  /\ Quiet /\ Has(p) /\ slot[p].live # "failed" /\ slot[p].agreed # 0
  /\ ~(Has(Other(p)) /\ slot[Other(p)].pc = slot[p].agreed /\ slot[Other(p)].live # "failed")
  /\ slot' = Failed(p)
  /\ timer' = [timer EXCEPT ![p] = TRUE]
  /\ UNCHANGED <<created, outbox, relay, cursor, poll, closed, roster, faults>>

\* Mutant: the new slot waits for an offer.
WaitsAgain(p, s) == [NewSlot(created[p] + 1, FALSE) EXCEPT !.recovery = s.recovery + 1]
Redialled(p, s) == [NewSlot(created[p] + 1, TRUE) EXCEPT !.recovery = s.recovery + 1]

GivesUp(s) == s.recovery >= MAX_RECOVERY_ATTEMPTS

\* watchdog: a stalled pair is rebuilt by the dialer and counted by the other.
Watchdog(p) ==
  LET s == slot[p] IN
  /\ Has(p) /\ ~closed[p] /\ ~s.terminal /\ s.live # "connected"
  /\ \/ Quiet /\ NoFault
     \/ ~Quiet /\ Fault("early")
  /\ IF GivesUp(s)
     THEN slot' = [slot EXCEPT ![p].terminal = TRUE] /\ UNCHANGED <<created, timer>>
     ELSE IF Initiator(p)
     THEN /\ slot' = [slot EXCEPT ![p] = Redialled(p, s)]
          /\ created' = [created EXCEPT ![p] = @ + 1]
          /\ timer' = [timer EXCEPT ![p] = TRUE]
     ELSE slot' = [slot EXCEPT ![p].recovery = @ + 1] /\ UNCHANGED <<created, timer>>
  /\ UNCHANGED <<outbox, relay, cursor, poll, closed, roster>>

\* close: handlers in flight go on and find the room closed.
Close(p) ==
  /\ p \in roster /\ ~closed[p] /\ Fault("close")
  /\ closed' = [closed EXCEPT ![p] = TRUE]
  /\ slot' = [slot EXCEPT ![p] = NoSlot]
  /\ timer' = [timer EXCEPT ![p] = FALSE]
  /\ outbox' = [outbox EXCEPT ![p] = <<>>]
  /\ UNCHANGED <<created, relay, cursor, poll, roster>>

\* The relay drops a peer that said it leaves, or fell silent.
Leaves(p) ==
  /\ closed[p] /\ p \in roster
  /\ roster' = roster \ {p}
  /\ UNCHANGED <<slot, created, outbox, relay, cursor, poll, timer, closed, faults>>

Handler(p, k) ==
  Take(p, k) \/ SetRemote(p, k) \/ RejectRemote(p, k) \/ SetLocal(p, k) \/ Posted(p, k)
    \/ EndPoll(p, k)
\* What a peer does once it has joined, faults and leaving aside.
Runs(p) ==
  \/ NegotiationNeeded(p) \/ CreateOffer(p) \/ PostSignal(p)
  \/ Connects(p) \/ Loses(p) \/ Watchdog(p) \/ Leaves(p)
  \/ \E k \in Polls[p] : Poll(p, k) \/ Handler(p, k)

RoomNext == \E p \in Peers : Join(p) \/ Runs(p) \/ Breaks(p) \/ Close(p)

\* A browser runs what is due: timers, events and awaited calls are never
\* starved for ever.  Nobody has to join or to leave.
RoomFairness == \A p \in Peers : WF_roomVars(Runs(p))
-----------------------------------------------------------------------------
\* A pair that is connected is not torn down by what still arrives: signals
\* stored twice, late answers, offers of a restart that has become needless.
HealthyKept ==
  [][\A p \in Peers :
       /\ CanConnect /\ \A q \in Peers : Connected(q)
       /\ faults' = faults /\ "early" \notin faults
       => slot'[p].pc = slot[p].pc]_roomVars

\* Two peers in a room get connected again and again, although a signal is lost
\* or stored twice, the path breaks or an RTCPeerConnection dies in silence.  A
\* stall timer that runs out too early is excepted: it can use up the one time
\* the receiver rebuilds its end, and then no later offer is taken.
PairConnects ==
  roster = Peers ~> \/ \E p \in Peers : closed[p]
                    \/ "early" \in faults
                    \/ \A p \in Peers : Connected(p)

\* Leaving the roster is the teardown: the other end drops the pair, although it
\* may be in the middle of a handler or of a rebuild.
LeaverDropped == \A p \in Peers : closed[p] ~> closed[Other(p)] \/ ~Has(Other(p))
=============================================================================
