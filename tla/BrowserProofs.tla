---------------------------- MODULE BrowserProofs ----------------------------
(***************************************************************************)
(* Theorems about what runs in browsers and against them.                  *)
(* First, the sessions of the showcase (GateSession), for any number of    *)
(* requests and sessions, any viewers at the gate and any upsets: whoever  *)
(* a request is served as, and what the marker and the sign-out leave      *)
(* behind.  Then the two peers of a multiplayer room (PeerConnection), for *)
(* any number of polls: a pair that is connected stays connected.          *)
(***************************************************************************)
EXTENDS GateSession, PeerConnection, FiniteSetTheorems, TLAPS

Users == Viewers \cup {Member}
InTheHook == {"sent", "accounts", "delete", "create", "resolve"}

\* A request in the hook, and its answer, that sets these cookies.
Working(s) == [at : InTheHook, gate : Viewers \cup {Nobody}, kid : Nat, token : Nat, data : Nat,
               marker : BOOLEAN, sets : {s}, holds : Nat, refused : BOOLEAN, alone : BOOLEAN,
               ended : BOOLEAN]
Answer(s) == [at : {"answered"}, gate : Viewers \cup {Nobody}, refused : BOOLEAN, alone : BOOLEAN,
              ended : BOOLEAN, sets : {s}, user : Users \cup {Nobody}]

\* Cookies name sessions that were made.
CookiesOk(s) ==
  /\ "token" \in DOMAIN s => s["token"] \in 0..Len(sessions)
  /\ "data" \in DOMAIN s => s["data"] \in 0..Len(sessions)
  /\ "marker" \in DOMAIN s => s["marker"] \in BOOLEAN

\* The secret of the process is the one the auth module works with.
ServerOk ==
  /\ sessions \in Seq([user : Users, secret : Nat])
  /\ gate \in Viewers \cup {Nobody} /\ kid \in Nat
  /\ secret \in Nat \ {0} /\ signing = secret /\ minted \in Nat
  /\ ended \in BOOLEAN /\ upsets \in Nat

\* A browser that has been signed out holds no session.
JarOk ==
  /\ {"token", "data", "marker"} \subseteq DOMAIN jar
  /\ CookiesOk(jar)
  /\ ended => jar["token"] = 0

\* A request that nothing disturbed is on its own.
AloneOk ==
  \A r \in Requests :
    req[r] # NoRequest /\ req[r].alone =>
      ask = NoAsk /\ \A s \in Requests : req[s] # NoRequest => s = r

Marked(s) == "marker" \in DOMAIN s /\ s["marker"]
\* These cookies leave a browser without the marker.
Unmarked(s) == IF "marker" \in DOMAIN s THEN ~s["marker"] ELSE ~jar["marker"]

Found(r) == getSessionFromCtx(req[r])

HookTypes(r) ==
  /\ req[r] \in Working(req[r].sets)
  /\ CookiesOk(req[r].sets)
  /\ req[r].token \in 0..Len(sessions) /\ req[r].data \in 0..Len(sessions)
  /\ req[r].ended /\ req[r].gate = Nobody => req[r].token = 0
  /\ req[r].at \in {"accounts", "delete", "create"} => req[r].gate # Nobody

\* The session found is still the one, or it is gone.
HookFound(r) ==
  /\ req[r].at = "accounts" =>
       /\ req[r].holds \in 1..Len(sessions) /\ Found(r) \in {0, req[r].holds}
       /\ req[r].alone => Found(r) = req[r].holds
  /\ req[r].at = "resolve" /\ req[r].gate # Nobody /\ ~req[r].refused =>
       /\ Found(r) # 0 => sessions[Found(r)].user = UserOf[req[r].gate]
       /\ Found(r) = 0 => ~req[r].alone

HookMarks(r) ==
  /\ req[r].at = "resolve" /\ req[r].gate # Nobody /\ ~req[r].refused => Marked(req[r].sets)
  /\ req[r].at = "sent" /\ req[r].gate = Nobody /\ req[r].alone => (req[r].marker <=> jar["marker"])
  /\ req[r].at = "resolve" /\ req[r].gate = Nobody /\ req[r].alone => Unmarked(req[r].sets)

AnswerOk(r) ==
  /\ req[r] \in Answer(req[r].sets)
  /\ CookiesOk(req[r].sets)
  /\ req[r].ended /\ req[r].gate = Nobody => req[r].user = Nobody
  /\ req[r].gate # Nobody /\ ~req[r].refused =>
       /\ req[r].user = UserOf[req[r].gate] \/ (req[r].user = Nobody /\ ~req[r].alone)
       /\ Marked(req[r].sets)
  /\ req[r].gate = Nobody /\ req[r].alone => Unmarked(req[r].sets)

Hooked(r) == HookTypes(r) /\ HookFound(r) /\ HookMarks(r)
RequestOk(r) == req[r] = NoRequest \/ Hooked(r) \/ AnswerOk(r)

GateInv ==
  /\ ServerOk /\ JarOk /\ AloneOk
  /\ req = [r \in Requests |-> req[r]]
  /\ \A r \in Requests : RequestOk(r)
-----------------------------------------------------------------------------
\* What a step may do to the sessions while requests are on their way.
Grown ==
  /\ signing' = signing
  /\ sessions' = sessions \/ \E x : sessions' = Append(sessions, x)
  /\ \A t \in live' : t \in live \/ t = Len(sessions) + 1

\* What was made stays as it was made.
LEMMA SessionsKept ==
  ASSUME ServerOk, ServerOk', Grown
  PROVE  /\ Len(sessions) \in Nat /\ Len(sessions)' \in Nat /\ Len(sessions) <= Len(sessions)'
         /\ \A t \in 1..Len(sessions) : sessions'[t] = sessions[t]
<1>1. sessions \in Seq([user : Users, secret : Nat]) /\ sessions' \in Seq([user : Users, secret : Nat])
  BY DEF ServerOk
<1>2. CASE sessions' = sessions
  BY <1>1, <1>2
<1>3. CASE \E x : sessions' = Append(sessions, x)
  <2>1. PICK x : sessions' = Append(sessions, x)
    BY <1>3
  <2>2. Len(sessions) \in Nat /\ Len(sessions') = Len(sessions) + 1
    BY <1>1, <2>1
  <2>3. \A t \in 1..Len(sessions) : sessions'[t] = sessions[t]
    BY <1>1, <2>1
  <2>4. QED
    BY <2>2, <2>3
<1>4. QED
  BY <1>2, <1>3 DEF Grown

\* Cookies that name sessions go on doing so.
LEMMA CookiesKept ==
  ASSUME ServerOk, ServerOk', Grown, NEW s, CookiesOk(s)
  PROVE  CookiesOk(s)'
<1>1. Len(sessions) \in Nat /\ Len(sessions)' \in Nat /\ Len(sessions) <= Len(sessions)'
  BY SessionsKept
<1>2. QED
  BY <1>1 DEF CookiesOk

\* The session that cookies stand for is one of those they name.
LEMMA FoundNamed ==
  ASSUME ServerOk, NEW q, q.token \in 0..Len(sessions), q.data \in 0..Len(sessions)
  PROVE  /\ getSessionFromCtx(q) \in {0, q.token, q.data}
         /\ getSessionFromCtx(q) \in 0..Len(sessions)
         /\ q.token = 0 => getSessionFromCtx(q) = 0
         /\ getSessionFromCtx(q) # 0 => Signed(q.token)
<1>1. Len(sessions) \in Nat
  BY DEF ServerOk
<1>2. QED
  BY <1>1 DEF getSessionFromCtx, Signed

\* The session found for a request may go, but it is never another one; and it
\* stays if nothing is taken away.
LEMMA FoundKept ==
  ASSUME ServerOk, ServerOk', Grown, NEW r \in Requests, HookTypes(r),
         req'[r].token = req[r].token, req'[r].data = req[r].data
  PROVE  /\ Found(r)' \in {0, Found(r)} /\ Found(r) \in 0..Len(sessions)
         /\ live \subseteq live' => Found(r)' = Found(r)
<1>1. /\ Len(sessions) \in Nat
      /\ \A t \in 1..Len(sessions) : sessions'[t] = sessions[t]
  BY SessionsKept
<1>2. /\ req[r].token \in 0..Len(sessions) /\ req[r].data \in 0..Len(sessions)
      /\ signing' = signing
      /\ \A t \in live' : t \in live \/ t = Len(sessions) + 1
  BY DEF HookTypes, Grown
<1>3. QED
  BY <1>1, <1>2 DEF Found, getSessionFromCtx, Signed

\* A request stays what it is, or learns that it is not alone.
Bystander(r) ==
  \/ req'[r] = req[r]
  \/ req[r] # NoRequest /\ req'[r] = [req[r] EXCEPT !.alone = FALSE]

\* What is left of a request that is disturbed.
LEMMA BystanderFacts ==
  ASSUME NEW r \in Requests, RequestOk(r), Bystander(r), req[r] # NoRequest
  PROVE  /\ req'[r] # NoRequest
         /\ req[r] \in Working(req[r].sets) => req'[r] \in Working(req[r].sets)
         /\ req[r] \in Answer(req[r].sets) => /\ req'[r] \in Answer(req[r].sets)
                                              /\ req'[r].user = req[r].user
         /\ req[r] \in Working(req[r].sets) =>
              /\ req'[r].token = req[r].token /\ req'[r].data = req[r].data
              /\ req'[r].holds = req[r].holds /\ req'[r].marker = req[r].marker
         /\ req'[r].at = req[r].at /\ req'[r].gate = req[r].gate /\ req'[r].sets = req[r].sets
         /\ req'[r].refused = req[r].refused /\ req'[r].ended = req[r].ended
         /\ req'[r].alone => req[r].alone
<1>1. req[r] \in Working(req[r].sets) \/ req[r] \in Answer(req[r].sets)
  BY DEF RequestOk, Hooked, HookTypes, AnswerOk
<1>2. CASE req'[r] = req[r]
  BY <1>2
<1>3. CASE req'[r] = [req[r] EXCEPT !.alone = FALSE]
  <2>1. CASE req[r] \in Working(req[r].sets)
    <3>1. [req[r] EXCEPT !.alone = FALSE] \in Working(req[r].sets)
      BY <2>1 DEF Working
    <3>2. QED
      BY <1>3, <2>1, <3>1 DEF Working, Answer, NoRequest, InTheHook
  <2>2. CASE req[r] \in Answer(req[r].sets)
    <3>1. [req[r] EXCEPT !.alone = FALSE] \in Answer(req[r].sets)
      BY <2>2 DEF Answer
    <3>2. QED
      BY <1>3, <2>2, <3>1 DEF Working, Answer, NoRequest, InTheHook
  <2>3. QED
    BY <1>1, <2>1, <2>2
<1>4. QED
  BY <1>2, <1>3 DEF Bystander

\* A step that is not its own leaves a request as it should be.
LEMMA Bystands ==
  ASSUME ServerOk, ServerOk', Grown, NEW r \in Requests, RequestOk(r), Bystander(r),
         req'[r] # NoRequest /\ req'[r].alone => /\ live \subseteq live'
                                                 /\ jar'["marker"] <=> jar["marker"]
  PROVE  RequestOk(r)'
<1>1. CASE req[r] = NoRequest
  BY <1>1 DEF Bystander, RequestOk
<1>2. CASE req[r] # NoRequest /\ Hooked(r)
  <2>1. /\ HookTypes(r) /\ HookFound(r) /\ HookMarks(r) /\ req[r] \in Working(req[r].sets)
    BY <1>2 DEF Hooked, HookTypes
  <2>2. /\ req'[r] # NoRequest /\ req'[r] \in Working(req[r].sets)
        /\ req'[r].token = req[r].token /\ req'[r].data = req[r].data
        /\ req'[r].holds = req[r].holds /\ req'[r].marker = req[r].marker
        /\ req'[r].at = req[r].at /\ req'[r].gate = req[r].gate /\ req'[r].sets = req[r].sets
        /\ req'[r].refused = req[r].refused /\ req'[r].ended = req[r].ended
        /\ req'[r].alone => req[r].alone
    BY <1>2, <2>1, BystanderFacts
  <2>3. PICK s : s = req[r].sets
    OBVIOUS
  <2>4. CookiesOk(s)'
    BY <2>1, <2>3, CookiesKept DEF HookTypes
  <2>5. /\ Len(sessions) \in Nat /\ Len(sessions)' \in Nat /\ Len(sessions) <= Len(sessions)'
        /\ \A t \in 1..Len(sessions) : sessions'[t] = sessions[t]
    BY SessionsKept
  <2>6. HookTypes(r)'
    <3>1. /\ req'[r].token \in 0..Len(sessions)' /\ req'[r].data \in 0..Len(sessions)'
      BY <2>1, <2>2, <2>5 DEF HookTypes
    <3>2. CookiesOk(req[r].sets)'
      BY <2>2, <2>3, <2>4 DEF CookiesOk
    <3>3. /\ req'[r].ended /\ req'[r].gate = Nobody => req'[r].token = 0
          /\ req'[r].at \in {"accounts", "delete", "create"} => req'[r].gate # Nobody
      BY <2>1, <2>2 DEF HookTypes
    <3>4. req'[r] \in Working(req'[r].sets)
      BY <2>2
    <3>5. QED
      BY <3>1, <3>2, <3>3, <3>4 DEF HookTypes
  <2>7. /\ Found(r)' \in {0, Found(r)} /\ Found(r) \in 0..Len(sessions)
        /\ live \subseteq live' => Found(r)' = Found(r)
    BY <2>1, <2>2, FoundKept
  <2>8. HookFound(r)'
    <3>1. ASSUME req'[r].at = "accounts"
          PROVE  /\ req'[r].holds \in 1..Len(sessions)' /\ Found(r)' \in {0, req'[r].holds}
                 /\ req'[r].alone => Found(r)' = req'[r].holds
      BY <2>1, <2>2, <2>5, <2>7, <3>1 DEF HookFound
    <3>2. ASSUME req'[r].at = "resolve", req'[r].gate # Nobody, ~req'[r].refused
          PROVE  /\ Found(r)' # 0 => sessions'[Found(r)'].user = UserOf[req'[r].gate]
                 /\ Found(r)' = 0 => ~req'[r].alone
      <4>1. /\ Found(r) # 0 => sessions[Found(r)].user = UserOf[req[r].gate]
            /\ Found(r) = 0 => ~req[r].alone
        BY <2>1, <2>2, <3>2 DEF HookFound
      <4>2. QED
        BY <2>2, <2>5, <2>7, <4>1
    <3>3. QED
      BY <3>1, <3>2 DEF HookFound
  <2>9. HookMarks(r)'
    BY <2>1, <2>2 DEF HookMarks, Marked, Unmarked
  <2>10. QED
    BY <2>6, <2>8, <2>9 DEF RequestOk, Hooked
<1>3. CASE req[r] # NoRequest /\ AnswerOk(r)
  <2>1. /\ AnswerOk(r) /\ req[r] \in Answer(req[r].sets)
    BY <1>3 DEF AnswerOk
  <2>2. /\ req'[r] # NoRequest /\ req'[r] \in Answer(req[r].sets) /\ req'[r].user = req[r].user
        /\ req'[r].gate = req[r].gate /\ req'[r].sets = req[r].sets
        /\ req'[r].refused = req[r].refused /\ req'[r].ended = req[r].ended
        /\ req'[r].alone => req[r].alone
    BY <1>3, <2>1, BystanderFacts
  <2>3. PICK s : s = req[r].sets
    OBVIOUS
  <2>4. CookiesOk(s)'
    BY <2>1, <2>3, CookiesKept DEF AnswerOk
  <2>5. CookiesOk(req[r].sets)'
    BY <2>2, <2>3, <2>4 DEF CookiesOk
  <2>6. /\ req'[r].ended /\ req'[r].gate = Nobody => req'[r].user = Nobody
        /\ req'[r].gate # Nobody /\ ~req'[r].refused =>
             /\ req'[r].user = UserOf[req'[r].gate] \/ (req'[r].user = Nobody /\ ~req'[r].alone)
             /\ Marked(req'[r].sets)
    BY <2>1, <2>2 DEF AnswerOk
  <2>7. req'[r].gate = Nobody /\ req'[r].alone => Unmarked(req[r].sets)'
    BY <2>1, <2>2 DEF AnswerOk, Unmarked
  <2>8. QED
    BY <2>2, <2>5, <2>6, <2>7 DEF RequestOk, AnswerOk
<1>4. QED
  BY <1>1, <1>2, <1>3 DEF RequestOk
-----------------------------------------------------------------------------
\* The jar stays as it is while sessions are made.
LEMMA JarKept ==
  ASSUME ServerOk, ServerOk', Grown, JarOk, jar' = jar, ended' => ended
  PROVE  JarOk'
<1>1. PICK s : s = jar
  OBVIOUS
<1>2. CookiesOk(s)'
  BY <1>1, CookiesKept DEF JarOk
<1>3. CookiesOk(jar)'
  BY <1>1, <1>2 DEF CookiesOk
<1>4. QED
  BY <1>3 DEF JarOk

\* A step of one request is no step of another.
LEMMA OwnStep ==
  ASSUME GateInv, ServerOk', JarOk', Grown, NEW r \in Requests, req[r] # NoRequest,
         \E x : req' = [req EXCEPT ![r] = x],
         RequestOk(r)', req'[r] # NoRequest /\ req'[r].alone => req[r].alone, ask' = ask
  PROVE  GateInv'
<1>1. /\ req' = [s \in Requests |-> req'[s]]
      /\ \A s \in Requests : s # r => req'[s] = req[s]
  <2>1. PICK x : req' = [req EXCEPT ![r] = x]
    OBVIOUS
  <2>2. req = [s \in Requests |-> req[s]]
    BY DEF GateInv
  <2>3. QED
    BY <2>1, <2>2
<1>2. \A s \in Requests : s # r /\ req[s] # NoRequest => ~req[s].alone
  BY DEF GateInv, AloneOk
<1>3. ASSUME NEW s \in Requests PROVE RequestOk(s)'
  <2>1. CASE s = r
    BY <2>1
  <2>2. CASE s # r
    <3>1. RequestOk(s) /\ Bystander(s) /\ ~(req'[s] # NoRequest /\ req'[s].alone)
      BY <1>1, <1>2, <2>2 DEF GateInv, Bystander
    <3>2. QED
      BY <3>1, Bystands DEF GateInv
  <2>3. QED
    BY <2>1, <2>2
<1>4. AloneOk'
  <2> SUFFICES ASSUME NEW s \in Requests, req'[s] # NoRequest, req'[s].alone
               PROVE  ask' = NoAsk /\ \A t \in Requests : req'[t] # NoRequest => t = s
    BY DEF AloneOk
  <2>1. s = r
    BY <1>1, <1>2
  <2>2. ask = NoAsk /\ \A t \in Requests : req[t] # NoRequest => t = r
    BY <2>1 DEF GateInv, AloneOk
  <2>3. QED
    BY <1>1, <2>1, <2>2
<1>5. QED
  BY <1>1, <1>3, <1>4 DEF GateInv

\* What disturbs the requests leaves none alone.
LEMMA DisturbedFacts ==
  ASSUME GateInv, NEW r \in Requests
  PROVE  /\ Disturbed[r] = IF req[r] = NoRequest THEN req[r] ELSE [req[r] EXCEPT !.alone = FALSE]
         /\ Disturbed[r] # NoRequest => ~Disturbed[r].alone
<1>1. Disturbed[r] = IF req[r] = NoRequest THEN req[r] ELSE [req[r] EXCEPT !.alone = FALSE]
  BY DEF Disturbed, Active
<1>2. CASE req[r] = NoRequest
  BY <1>1, <1>2
<1>3. CASE req[r] \in Working(req[r].sets)
  <2>1. [req[r] EXCEPT !.alone = FALSE] \in Working(req[r].sets)
    BY <1>3 DEF Working
  <2>2. QED
    BY <1>1, <1>3, <2>1 DEF Working
<1>4. CASE req[r] \in Answer(req[r].sets)
  <2>1. [req[r] EXCEPT !.alone = FALSE] \in Answer(req[r].sets)
    BY <1>4 DEF Answer
  <2>2. QED
    BY <1>1, <1>4, <2>1 DEF Answer
<1>5. QED
  BY <1>1, <1>2, <1>3, <1>4 DEF GateInv, RequestOk, Hooked, HookTypes, AnswerOk

\* A step that changes what the requests under way see, but none of them.
LEMMA DisturbingStep ==
  ASSUME GateInv, ServerOk', JarOk', Grown, req' = Disturbed
  PROVE  GateInv'
<1>1. /\ req' = [s \in Requests |-> req'[s]]
      /\ \A s \in Requests : Bystander(s) /\ (req'[s] # NoRequest => ~req'[s].alone)
  <2>1. req' = [s \in Requests |-> req'[s]]
    BY DEF Disturbed
  <2>2. QED
    BY <2>1, DisturbedFacts DEF Bystander
<1>2. \A s \in Requests : RequestOk(s)'
  BY <1>1, Bystands DEF GateInv
<1>3. AloneOk'
  BY <1>1 DEF AloneOk
<1>4. QED
  BY <1>1, <1>2, <1>3 DEF GateInv

\* Steps that leave the server and the browser alone.
LEMMA NothingMade ==
  ASSUME ServerOk, UNCHANGED <<gateVars, sessions, secretVars, ended>>, live' \subseteq live,
         upsets' \in Nat
  PROVE  ServerOk' /\ Grown
BY DEF ServerOk, Grown, gateVars, secretVars
-----------------------------------------------------------------------------
(***************************************************************************)
(* The steps of a request.                                                 *)
(***************************************************************************)

\* A request is sent with what is in the jar.
LEMMA AskKeeps ==
  ASSUME GateInv, NEW r \in Requests, Ask(r)
  PROVE  GateInv'
<1> DEFINE new == [at |-> "sent", gate |-> gate, kid |-> IF gate = Nobody THEN 0 ELSE kid,
                   token |-> jar.token, data |-> jar.data, marker |-> gate = Nobody /\ jar.marker,
                   sets |-> NoCookies, holds |-> 0, refused |-> FALSE,
                   alone |-> Active = {} /\ ask = NoAsk, ended |-> ended]
<1>1. /\ req[r] = NoRequest /\ req' = [Disturbed EXCEPT ![r] = new]
      /\ UNCHANGED <<gateVars, sessions, live, secretVars, upsets, ended, ask, jar>>
  BY DEF Ask, serverVars, pageVars
<1>2. /\ gate \in Viewers \cup {Nobody} /\ kid \in Nat /\ ended \in BOOLEAN
      /\ jar.token \in 0..Len(sessions) /\ jar.data \in 0..Len(sessions)
      /\ jar["marker"] \in BOOLEAN /\ (ended => jar.token = 0) /\ Len(sessions) \in Nat
  BY DEF GateInv, ServerOk, JarOk, CookiesOk
<1>3. new \in Working(NoCookies)
  BY <1>2 DEF Working, InTheHook
<1>4. /\ new.at = "sent" /\ new.gate = gate /\ new.token = jar.token /\ new.data = jar.data
      /\ new.sets = NoCookies /\ (new.ended <=> ended)
      /\ new.alone <=> (Active = {} /\ ask = NoAsk)
      /\ new.gate = Nobody => (new.marker <=> jar["marker"])
  <2>1. (new.ended <=> ended) /\ (new.alone <=> (Active = {} /\ ask = NoAsk))
    BY <1>2
  <2>2. new.gate = Nobody => (new.marker <=> jar["marker"])
    BY <1>2
  <2>3. QED
    BY <2>1, <2>2
<1> HIDE DEF new
<1>5. /\ req' = [s \in Requests |-> req'[s]] /\ req'[r] = new
      /\ \A s \in Requests : s # r => req'[s] = Disturbed[s]
  BY <1>1 DEF Disturbed
<1>6. ServerOk' /\ Grown
  BY <1>1, NothingMade DEF GateInv, ServerOk
<1>7. JarOk'
  BY <1>1, <1>6, JarKept DEF GateInv
<1>8. new # NoRequest
  BY <1>4 DEF NoRequest
<1>9. AloneOk'
  <2> SUFFICES ASSUME NEW s \in Requests, req'[s] # NoRequest, req'[s].alone
               PROVE  ask' = NoAsk /\ \A t \in Requests : req'[t] # NoRequest => t = s
    BY DEF AloneOk
  <2>1. s = r
    BY <1>5, DisturbedFacts
  <2>2. Active = {} /\ ask = NoAsk
    BY <1>4, <1>5, <2>1
  <2>3. \A t \in Requests : req[t] = NoRequest
    BY <2>2 DEF Active
  <2>4. QED
    BY <1>1, <1>5, <2>1, <2>2, <2>3, DisturbedFacts
<1>10. ASSUME NEW s \in Requests PROVE RequestOk(s)'
  <2>1. CASE s # r
    <3>1. Bystander(s) /\ ~(req'[s] # NoRequest /\ req'[s].alone)
      BY <1>5, <2>1, DisturbedFacts DEF Bystander
    <3>2. QED
      BY <1>6, <3>1, Bystands DEF GateInv
  <2>2. CASE s = r
    <3>1. HookTypes(r)'
      BY <1>1, <1>2, <1>3, <1>4, <1>5 DEF HookTypes, CookiesOk, NoCookies
    <3>2. HookFound(r)'
      BY <1>4, <1>5 DEF HookFound
    <3>3. HookMarks(r)'
      BY <1>1, <1>4, <1>5 DEF HookMarks
    <3>4. QED
      BY <2>2, <3>1, <3>2, <3>3 DEF RequestOk, Hooked
  <2>3. QED
    BY <2>1, <2>2
<1>11. QED
  BY <1>5, <1>6, <1>7, <1>9, <1>10 DEF GateInv

\* The cookie that clears the marker, and the one that sets it.
LEMMA ClearingCookie ==
  /\ DOMAIN [marker |-> FALSE] = {"marker"} /\ DOMAIN [marker |-> FALSE] \subseteq {"marker"}
  /\ "marker" \in DOMAIN [marker |-> FALSE] /\ ~([marker |-> FALSE]["marker"])
  /\ CookiesOk([marker |-> FALSE])
<1>1. DOMAIN [marker |-> FALSE] = {"marker"}
  OBVIOUS
<1>2. [marker |-> FALSE] \in [marker : BOOLEAN] /\ ~([marker |-> FALSE]["marker"])
  OBVIOUS
<1>3. [marker |-> FALSE]["marker"] \in BOOLEAN
  BY <1>2
<1>4. QED
  BY <1>1, <1>2, <1>3 DEF CookiesOk

\* The answer that sets only the marker is an answer.
LEMMA MarkingCookie == Marked([marker |-> TRUE]) /\ CookiesOk([marker |-> TRUE])
<1>1. DOMAIN [marker |-> TRUE] = {"marker"}
  OBVIOUS
<1>2. [marker |-> TRUE] \in [marker : BOOLEAN] /\ [marker |-> TRUE]["marker"]
  OBVIOUS
<1>3. [marker |-> TRUE]["marker"] \in BOOLEAN
  BY <1>2
<1>4. QED
  BY <1>1, <1>2, <1>3 DEF CookiesOk, Marked

\* Nobody is at the gate: the marker is cleared, if the request has one.
LEMMA ClearKeeps ==
  ASSUME GateInv, NEW r \in Requests, clearGateMarkerIfPresent(r)
  PROVE  GateInv'
<1> DEFINE set == IF req[r].marker THEN [marker |-> FALSE] ELSE NoCookies
           new == [req[r] EXCEPT !.at = "resolve", !.marker = FALSE, !.kid = 0, !.sets = set]
<1>1. /\ req[r].at = "sent" /\ req[r].gate = Nobody /\ req' = [req EXCEPT ![r] = new]
      /\ UNCHANGED <<gateVars, sessions, live, secretVars, upsets, ended, ask, jar>>
  BY DEF clearGateMarkerIfPresent, serverVars, pageVars
<1>2. req[r] # NoRequest /\ HookTypes(r) /\ HookMarks(r) /\ req[r] \in Working(req[r].sets)
  BY <1>1 DEF GateInv, RequestOk, AnswerOk, Answer, Hooked, NoRequest, HookTypes
<1>3. /\ new \in Working(set) /\ new.at = "resolve" /\ new.gate = Nobody
      /\ new.token = req[r].token /\ new.data = req[r].data /\ new.sets = set
      /\ new.ended = req[r].ended /\ new.alone = req[r].alone
  BY <1>1, <1>2 DEF Working, InTheHook
<1>4. /\ DOMAIN set \subseteq {"marker"} /\ CookiesOk(set)
      /\ req[r].marker => "marker" \in DOMAIN set /\ ~set["marker"]
      /\ ~req[r].marker => "marker" \notin DOMAIN set
  <2>1. CASE req[r].marker
    <3>1. set = [marker |-> FALSE]
      BY <2>1, Zenon
    <3>2. QED
      BY <2>1, <3>1, ClearingCookie, Zenon
  <2>2. CASE ~req[r].marker
    <3>1. set = <<>> /\ DOMAIN set = {}
      BY <2>2 DEF NoCookies
    <3>2. QED
      BY <2>2, <3>1 DEF CookiesOk
  <2>3. QED
    BY <2>1, <2>2
<1>5. jar["marker"] \in BOOLEAN /\ req[r].marker \in BOOLEAN
  BY <1>2 DEF GateInv, JarOk, CookiesOk, Working
<1> HIDE DEF set, new
<1>6. ServerOk' /\ Grown
  BY <1>1, NothingMade DEF GateInv, ServerOk
<1>7. JarOk'
  BY <1>1, <1>6, JarKept DEF GateInv
<1>8. req'[r] = new
  BY <1>1 DEF GateInv
<1>9. RequestOk(r)'
  <2>1. HookTypes(r)'
    BY <1>1, <1>2, <1>3, <1>4, <1>8 DEF HookTypes, CookiesOk
  <2>2. HookFound(r)'
    BY <1>3, <1>8 DEF HookFound
  <2>3. req[r].alone => (req[r].marker <=> jar["marker"])
    BY <1>1, <1>2 DEF HookMarks
  <2>4. req[r].alone => Unmarked(set)
    BY <1>4, <2>3 DEF Unmarked
  <2>5. HookMarks(r)'
    BY <1>1, <1>3, <1>8, <2>4 DEF HookMarks, Unmarked
  <2>6. QED
    BY <2>1, <2>2, <2>5 DEF RequestOk, Hooked
<1>10. QED
  BY <1>1, <1>2, <1>3, <1>6, <1>7, <1>8, <1>9, OwnStep

\* The hook gives up: what the request finds is not what the gate says.
LEMMA PassKeeps ==
  ASSUME GateInv, ServerOk', JarOk', Grown, ask' = ask, NEW r \in Requests,
         HookTypes(r), req[r] # NoRequest, req[r].gate # Nobody, NEW refused \in BOOLEAN,
         refused, Passes(r, refused)
  PROVE  GateInv'
<1> DEFINE new == [req[r] EXCEPT !.at = "resolve", !.refused = refused,
                                 !.holds = 0, !.kid = 0, !.marker = FALSE]
<1>1. req' = [req EXCEPT ![r] = new]
  BY DEF Passes
<1>2. req[r] \in Working(req[r].sets)
  BY DEF HookTypes
<1>3. new \in Working(req[r].sets)
  BY <1>2 DEF Working, InTheHook
<1>4. /\ new.at = "resolve" /\ new.gate = req[r].gate /\ new.refused
      /\ new.token = req[r].token /\ new.data = req[r].data /\ new.sets = req[r].sets
      /\ new.ended = req[r].ended /\ new.alone = req[r].alone
  BY <1>2, <1>3 DEF Working
<1> HIDE DEF new
<1>5. req'[r] = new
  BY <1>1 DEF GateInv
<1>6. PICK s : s = req[r].sets
  OBVIOUS
<1>7. CookiesOk(s)'
  BY <1>6, CookiesKept DEF HookTypes, GateInv
<1>8. HookTypes(r)'
  <2>1. req'[r].token \in 0..Len(sessions)' /\ req'[r].data \in 0..Len(sessions)'
    BY <1>4, <1>5, SessionsKept DEF HookTypes, GateInv
  <2>2. CookiesOk(req[r].sets)'
    BY <1>4, <1>5, <1>6, <1>7 DEF CookiesOk
  <2>3. QED
    BY <1>3, <1>4, <1>5, <2>1, <2>2 DEF HookTypes
<1>9. HookFound(r)' /\ HookMarks(r)'
  BY <1>4, <1>5 DEF HookFound, HookMarks
<1>10. RequestOk(r)'
  BY <1>8, <1>9 DEF RequestOk, Hooked
<1>11. QED
  BY <1>1, <1>4, <1>5, <1>10, OwnStep

\* A request goes on to an intermediate step of the hook, or to make a session.
LEMMA OwnHook ==
  ASSUME GateInv, ServerOk', JarOk', Grown, ask' = ask, NEW r \in Requests, req[r] # NoRequest,
         HookTypes(r), NEW x, req' = [req EXCEPT ![r] = x], x \in Working(req[r].sets),
         x.at \in {"delete", "create"}, x.gate = req[r].gate, req[r].gate # Nobody,
         x.token = req[r].token, x.data = req[r].data, x.sets = req[r].sets,
         x.ended = req[r].ended, x.alone = req[r].alone
  PROVE  GateInv'
<1>1. req'[r] = x
  BY DEF GateInv
<1>2. PICK s : s = req[r].sets
  OBVIOUS
<1>3. CookiesOk(s)'
  BY <1>2, CookiesKept DEF HookTypes, GateInv
<1>4. HookTypes(r)'
  <2>1. req'[r].token \in 0..Len(sessions)' /\ req'[r].data \in 0..Len(sessions)'
    BY <1>1, SessionsKept DEF HookTypes, GateInv
  <2>2. CookiesOk(req[r].sets)'
    BY <1>1, <1>2, <1>3 DEF CookiesOk
  <2>3. QED
    BY <1>1, <2>1, <2>2 DEF HookTypes
<1>5. HookFound(r)' /\ HookMarks(r)'
  BY <1>1 DEF HookFound, HookMarks
<1>6. RequestOk(r)'
  BY <1>4, <1>5 DEF RequestOk, Hooked
<1>7. QED
  BY <1>1, <1>6, OwnStep

\* The token of the gate is verified: the session of its cookies is held, or one is made.
LEMMA VerifyKeeps ==
  ASSUME GateInv, NEW r \in Requests, gateIdentityFromHeaders(r)
  PROVE  GateInv'
<1> DEFINE k == req[r].kid
           t == getSessionFromCtx(req[r])
           new == [req[r] EXCEPT !.at = IF t = 0 THEN "create" ELSE "accounts",
                                 !.holds = t, !.kid = 0, !.marker = FALSE]
<1>1. /\ req[r].at = "sent" /\ req[r].gate # Nobody
      /\ UNCHANGED <<gateVars, sessions, live, secretVars, ended, ask, jar>>
      /\ \/ jwks = k /\ jwks' = jwks
         \/ jwks' = kid
         \/ upsets' = upsets + 1
      /\ IF jwks' # k THEN Passes(r, k # kid \/ upsets' # upsets) ELSE req' = [req EXCEPT ![r] = new]
      /\ upsets' = upsets \/ upsets' = upsets + 1
  BY DEF gateIdentityFromHeaders, pageVars, Missing, Upset
<1>2. req[r] # NoRequest /\ HookTypes(r) /\ req[r] \in Working(req[r].sets)
  BY <1>1 DEF GateInv, RequestOk, AnswerOk, Answer, Hooked, NoRequest, HookTypes
<1>3. ServerOk' /\ Grown
  <2>1. upsets' \in Nat
    BY <1>1 DEF GateInv, ServerOk
  <2>2. QED
    BY <1>1, <2>1, NothingMade DEF GateInv
<1>4. JarOk'
  BY <1>1, <1>3, JarKept DEF GateInv
<1>5. CASE jwks' # k
  <2>1. k # kid \/ upsets' # upsets
    BY <1>1, <1>5 DEF GateInv, ServerOk
  <2>2. Passes(r, TRUE)
    BY <1>1, <1>5, <2>1, Zenon
  <2>3. QED
    BY <1>1, <1>2, <1>3, <1>4, <2>2, PassKeeps
<1>6. CASE jwks' = k
  <2>1. req' = [req EXCEPT ![r] = new]
    BY <1>1, <1>6
  <2>2. /\ t \in {0, req[r].token, req[r].data} /\ t \in 0..Len(sessions) /\ Len(sessions) \in Nat
        /\ t = Found(r)
    BY <1>2, FoundNamed DEF GateInv, HookTypes, ServerOk, Found
  <2>3. new \in Working(req[r].sets)
    <3>1. t \in Nat
      BY <2>2
    <3> HIDE DEF t
    <3>2. QED
      BY <1>2, <3>1 DEF Working, InTheHook
  <2>4. /\ new.at = IF t = 0 THEN "create" ELSE "accounts"
        /\ new.holds = t /\ new.gate = req[r].gate
        /\ new.token = req[r].token /\ new.data = req[r].data /\ new.sets = req[r].sets
        /\ new.ended = req[r].ended /\ new.alone = req[r].alone
    BY <1>2 DEF Working
  <2> HIDE DEF new, t
  <2>5. req'[r] = new
    BY <2>1 DEF GateInv
  <2>6. HookTypes(r)'
    <3>1. CookiesOk(req[r].sets)'
      BY <1>1, <1>2, <2>4, <2>5 DEF HookTypes, CookiesOk
    <3>2. QED
      BY <1>1, <1>2, <2>3, <2>4, <2>5, <3>1 DEF HookTypes
  <2>7. Found(r)' = Found(r)
    BY <1>1, <1>2, <1>3, <2>4, <2>5, FoundKept DEF GateInv
  <2>8. HookFound(r)'
    <3>1. CASE t = 0
      BY <2>4, <2>5, <3>1 DEF HookFound
    <3>2. CASE t # 0
      <4>1. t \in 1..Len(sessions)
        BY <2>2, <3>2
      <4>2. QED
        BY <1>1, <2>2, <2>4, <2>5, <2>7, <3>2, <4>1 DEF HookFound
    <3>3. QED
      BY <3>1, <3>2
  <2>9. HookMarks(r)'
    BY <2>4, <2>5 DEF HookMarks
  <2>10. RequestOk(r)'
    BY <2>6, <2>8, <2>9 DEF RequestOk, Hooked
  <2>11. QED
    BY <1>1, <1>2, <1>3, <1>4, <2>1, <2>4, <2>5, <2>10, OwnStep
<1>7. QED
  BY <1>5, <1>6

\* The session held is the viewer's, or it is somebody else's.
LEMMA AccountsKeep ==
  ASSUME GateInv, NEW r \in Requests, findAccounts(r)
  PROVE  GateInv'
<1> DEFINE mine == sessionBoundToGateIdentity(sessions[req[r].holds].user, req[r].gate)
           found == [req[r] EXCEPT !.at = "resolve", !.holds = 0, !.sets = [marker |-> TRUE]]
           other == [req[r] EXCEPT !.at = "delete"]
<1>1. /\ req[r].at = "accounts"
      /\ UNCHANGED <<gateVars, sessions, live, secretVars, ended, ask, jar>>
      /\ upsets' = upsets \/ upsets' = upsets + 1
      /\ \/ Passes(r, TRUE)
         \/ mine /\ req' = [req EXCEPT ![r] = found]
         \/ ~mine /\ req' = [req EXCEPT ![r] = other]
  BY DEF findAccounts, pageVars, Upset, Goes
<1>2. /\ req[r] # NoRequest /\ HookTypes(r) /\ HookFound(r) /\ req[r] \in Working(req[r].sets)
      /\ req[r].gate # Nobody
  BY <1>1 DEF GateInv, RequestOk, AnswerOk, Answer, Hooked, NoRequest, HookTypes
<1>3. ServerOk' /\ Grown
  <2>1. upsets' \in Nat
    BY <1>1 DEF GateInv, ServerOk
  <2>2. QED
    BY <1>1, <2>1, NothingMade DEF GateInv
<1>4. JarOk'
  BY <1>1, <1>3, JarKept DEF GateInv
<1>5. CASE Passes(r, TRUE)
  BY <1>1, <1>2, <1>3, <1>4, <1>5, PassKeeps
<1>6. CASE mine /\ req' = [req EXCEPT ![r] = found]
  <2>1. sessions[req[r].holds].user = UserOf[req[r].gate]
    BY <1>6 DEF sessionBoundToGateIdentity
  <2>2. found \in Working([marker |-> TRUE])
    BY <1>2 DEF Working, InTheHook
  <2>3. /\ found.at = "resolve" /\ found.gate = req[r].gate
        /\ found.token = req[r].token /\ found.data = req[r].data /\ found.sets = [marker |-> TRUE]
        /\ found.ended = req[r].ended /\ found.alone = req[r].alone /\ found.refused = req[r].refused
    BY <1>2, <2>2 DEF Working
  <2>4. req' = [req EXCEPT ![r] = found]
    BY <1>6
  <2> HIDE DEF found
  <2>5. req'[r] = found
    BY <2>4 DEF GateInv
  <2>6. HookTypes(r)'
    <3>1. PICK s : s = [marker |-> TRUE] /\ Marked(s) /\ CookiesOk(s)
      BY MarkingCookie
    <3>2. CookiesOk(s)'
      BY <1>3, <3>1, CookiesKept DEF GateInv
    <3>3. req'[r].sets = s /\ req'[r] \in Working(s)
      BY <2>2, <2>3, <2>5, <3>1
    <3>4. CookiesOk(req[r].sets)'
      BY <3>2, <3>3 DEF CookiesOk
    <3>5. QED
      BY <1>1, <1>2, <2>3, <2>5, <3>3, <3>4 DEF HookTypes
  <2>7. Found(r)' = Found(r)
    BY <1>1, <1>2, <1>3, <2>3, <2>5, FoundKept DEF GateInv
  <2>8. /\ req[r].holds \in 1..Len(sessions) /\ Found(r) \in {0, req[r].holds}
        /\ req[r].alone => Found(r) = req[r].holds
    BY <1>1, <1>2 DEF HookFound
  <2>9. Found(r) # 0 => sessions[Found(r)].user = UserOf[req[r].gate]
    BY <2>1, <2>8
  <2>10. Found(r) = 0 => ~req[r].alone
    <3>1. req[r].holds # 0
      BY <2>8 DEF GateInv, ServerOk
    <3>2. QED
      BY <2>8, <3>1
  <2>11. HookFound(r)'
    BY <1>1, <2>3, <2>5, <2>7, <2>9, <2>10 DEF HookFound
  <2>12. HookMarks(r)'
    <3>1. Marked(req'[r].sets)
      BY <2>3, <2>5, MarkingCookie
    <3>2. req'[r].at = "resolve" /\ req'[r].gate # Nobody
      BY <1>2, <2>3, <2>5
    <3>3. QED
      BY <3>1, <3>2 DEF HookMarks, Marked
  <2>13. RequestOk(r)'
    BY <2>6, <2>11, <2>12 DEF RequestOk, Hooked
  <2>14. QED
    BY <1>1, <1>2, <1>3, <1>4, <2>3, <2>4, <2>5, <2>13, OwnStep
<1>7. CASE req' = [req EXCEPT ![r] = other]
  <2>1. /\ other.at = "delete" /\ other \in Working(req[r].sets) /\ other.gate = req[r].gate
        /\ other.token = req[r].token /\ other.data = req[r].data /\ other.sets = req[r].sets
        /\ other.ended = req[r].ended /\ other.alone = req[r].alone
    BY <1>2 DEF Working, InTheHook
  <2>2. req' = [req EXCEPT ![r] = other]
    BY <1>7
  <2> HIDE DEF other
  <2>3. QED
    BY <1>1, <1>2, <1>3, <1>4, <2>1, <2>2, OwnHook
<1>8. QED
  BY <1>1, <1>5, <1>6, <1>7

\* Somebody else's session is deleted, or that fails.
LEMMA DeleteKeeps ==
  ASSUME GateInv, NEW r \in Requests, DeleteOther(r)
  PROVE  GateInv'
<1> DEFINE new == [req[r] EXCEPT !.at = "create"]
<1>1. /\ req[r].at = "delete" /\ req' = [req EXCEPT ![r] = new]
      /\ UNCHANGED <<gateVars, sessions, secretVars, ended, ask, jar>>
      /\ live' \subseteq live /\ (upsets' = upsets \/ upsets' = upsets + 1)
  BY DEF DeleteOther, pageVars, Upset, Goes
<1>2. /\ req[r] # NoRequest /\ HookTypes(r) /\ req[r] \in Working(req[r].sets)
      /\ req[r].gate # Nobody
  BY <1>1 DEF GateInv, RequestOk, AnswerOk, Answer, Hooked, NoRequest, HookTypes
<1>3. ServerOk' /\ Grown
  <2>1. upsets' \in Nat
    BY <1>1 DEF GateInv, ServerOk
  <2>2. QED
    BY <1>1, <2>1, NothingMade DEF GateInv
<1>4. JarOk'
  BY <1>1, <1>3, JarKept DEF GateInv
<1>5. /\ new.at = "create" /\ new \in Working(req[r].sets) /\ new.gate = req[r].gate
      /\ new.token = req[r].token /\ new.data = req[r].data /\ new.sets = req[r].sets
      /\ new.ended = req[r].ended /\ new.alone = req[r].alone
  BY <1>2 DEF Working, InTheHook
<1> HIDE DEF new
<1>6. QED
  BY <1>1, <1>2, <1>3, <1>4, <1>5, OwnHook

\* The cookies of a session that has just been made.
LEMMA EmittedCookies ==
  ASSUME NEW t \in Nat, Len(sessions)' \in Nat, t <= Len(sessions)'
  PROVE  CookiesOk(emitted(t))' /\ Marked(emitted(t))
<1>1. DOMAIN emitted(t) = {"token", "data", "marker"}
  BY DEF emitted
<1>2. emitted(t) \in [token : Nat, data : Nat, marker : BOOLEAN]
  BY DEF emitted
<1>3. emitted(t).token = t /\ emitted(t).data = 0 /\ emitted(t).marker
  BY DEF emitted
<1>4. emitted(t)["token"] = t /\ emitted(t)["data"] = 0 /\ emitted(t)["marker"]
      /\ emitted(t)["marker"] \in BOOLEAN
  BY <1>2, <1>3
<1>5. emitted(t)["token"] \in 0..Len(sessions)' /\ emitted(t)["data"] \in 0..Len(sessions)'
  BY <1>4
<1>6. CookiesOk(emitted(t))'
  BY <1>4, <1>5, Zenon DEF CookiesOk
<1>7. Marked(emitted(t))
  BY <1>1, <1>4, Zenon DEF Marked
<1>8. QED
  BY <1>6, <1>7

\* A session is made for the viewer, and is the one the request stands for.
LEMMA MaterializeKeeps ==
  ASSUME GateInv, NEW r \in Requests, Materialize(r)
  PROVE  GateInv'
<1> DEFINE t == Len(sessions) + 1
           row == [user |-> UserOf[req[r].gate], secret |-> signing]
           new(n) == [req[r] EXCEPT !.at = "resolve", !.holds = 0, !.token = n,
                                    !.data = removeRequestCookie(req[r]), !.sets = emitted(n)]
<1>1. /\ req[r].at = "create"
      /\ UNCHANGED <<gateVars, secretVars, ended, ask, jar>>
      /\ \/ Passes(r, TRUE) /\ UNCHANGED <<sessions, live>> /\ upsets' = upsets + 1
         \/ /\ sessions' = Append(sessions, row) /\ live' = live \cup {Len(sessions) + 1}
            /\ req' = [req EXCEPT ![r] = new(Len(sessions'))] /\ upsets' = upsets
  BY DEF Materialize, pageVars, Upset, NewSession
<1>2. /\ req[r] # NoRequest /\ HookTypes(r) /\ req[r] \in Working(req[r].sets)
      /\ req[r].gate # Nobody /\ req[r].gate \in Viewers
  <2>1. HookTypes(r) /\ req[r] # NoRequest
    BY <1>1 DEF GateInv, RequestOk, AnswerOk, Answer, Hooked, NoRequest
  <2>2. QED
    BY <1>1, <2>1 DEF HookTypes, Working
<1>3. CASE Passes(r, TRUE) /\ UNCHANGED <<sessions, live>> /\ upsets' = upsets + 1
  <2>1. ServerOk' /\ Grown
    <3>1. upsets' \in Nat
      BY <1>3 DEF GateInv, ServerOk
    <3>2. QED
      BY <1>1, <1>3, <3>1, NothingMade DEF GateInv
  <2>2. JarOk'
    BY <1>1, <2>1, JarKept DEF GateInv
  <2>3. QED
    BY <1>1, <1>2, <1>3, <2>1, <2>2, PassKeeps
<1>4. CASE /\ sessions' = Append(sessions, row) /\ live' = live \cup {Len(sessions) + 1}
           /\ req' = [req EXCEPT ![r] = new(Len(sessions'))] /\ upsets' = upsets
  <2>1. row \in [user : Users, secret : Nat] /\ row.user = UserOf[req[r].gate] /\ row.secret = signing
    BY <1>2, GateAssumption DEF Users, GateInv, ServerOk
  <2> HIDE DEF row
  <2>2. /\ sessions' \in Seq([user : Users, secret : Nat]) /\ Len(sessions') = t
        /\ t \in Nat /\ t \in 1..Len(sessions)' /\ sessions'[t] = row
    <3>1. sessions \in Seq([user : Users, secret : Nat])
      BY DEF GateInv, ServerOk
    <3>2. QED
      BY <1>4, <2>1, <3>1
  <2>3. Grown
    BY <1>1, <1>4 DEF Grown, secretVars
  <2>4. ServerOk'
    BY <1>1, <1>4, <2>2 DEF GateInv, ServerOk, gateVars, secretVars
  <2>5. JarOk'
    BY <1>1, <2>3, <2>4, JarKept DEF GateInv
  <2>fresh. PICK n \in Nat : n = t
    BY <2>2
  <2> HIDE DEF t
  <2>6. /\ new(n) \in Working(emitted(n)) /\ new(n).at = "resolve" /\ new(n).gate = req[r].gate
        /\ new(n).token = n /\ new(n).data = 0 /\ new(n).sets = emitted(n)
        /\ new(n).ended = req[r].ended /\ new(n).alone = req[r].alone
    <3>1. removeRequestCookie(req[r]) = 0
      BY DEF removeRequestCookie
    <3>2. n \in Nat /\ req[r] \in Working(req[r].sets)
      BY <1>2, <2>fresh
    <3>3. new(n) = [req[r] EXCEPT !.at = "resolve", !.holds = 0, !.token = n, !.data = 0,
                                  !.sets = emitted(n)]
      BY <3>1
    <3> HIDE DEF new
    <3>4. PICK e : e = emitted(n)
      OBVIOUS
    <3>5. PICK q : q = req[r]
      OBVIOUS
    <3>6. [q EXCEPT !.at = "resolve", !.holds = 0, !.token = n, !.data = 0, !.sets = e] \in Working(e)
      BY <3>2, <3>5 DEF Working, InTheHook
    <3>7. new(n) \in Working(emitted(n))
      BY <3>3, <3>4, <3>5, <3>6
    <3>8. QED
      BY <3>2, <3>3, <3>7 DEF Working
  <2>7. req' = [req EXCEPT ![r] = new(n)]
    BY <1>4, <2>fresh, <2>2
  <2> HIDE DEF new
  <2>8. req'[r] = new(n)
    BY <2>7 DEF GateInv
  <2>9. CookiesOk(emitted(n))' /\ Marked(emitted(n))
    BY <2>fresh, <2>2, EmittedCookies
  <2>10. HookTypes(r)'
    <3>1. req'[r] \in Working(req'[r].sets)
      BY <2>6, <2>8
    <3>2. CookiesOk(req[r].sets)'
      BY <2>6, <2>8, <2>9 DEF CookiesOk
    <3>3. req'[r].token \in 0..Len(sessions)' /\ req'[r].data \in 0..Len(sessions)'
      BY <2>fresh, <2>2, <2>6, <2>8
    <3>4. req'[r].gate # Nobody
      BY <1>2, <2>6, <2>8
    <3>5. QED
      BY <3>1, <3>2, <3>3, <3>4 DEF HookTypes
  <2>11. Found(r)' = t
    <3>1. req'[r].token = t /\ req'[r].data = 0 /\ t \in live' /\ t # 0
      BY <1>4, <2>fresh, <2>2, <2>6, <2>8 DEF t
    <3>2. sessions'[t].secret = signing'
      BY <1>1, <2>1, <2>2 DEF secretVars
    <3>3. QED
      BY <3>1, <3>2 DEF Found, getSessionFromCtx, Signed
  <2>12. HookFound(r)'
    <3>1. sessions'[t].user = UserOf[req'[r].gate] /\ t # 0 /\ req'[r].at = "resolve"
      BY <2>fresh, <2>1, <2>2, <2>6, <2>8
    <3>2. QED
      BY <2>11, <3>1 DEF HookFound
  <2>13. HookMarks(r)'
    <3>1. Marked(req'[r].sets) /\ req'[r].at = "resolve" /\ req'[r].gate # Nobody
      BY <1>2, <2>6, <2>8, <2>9
    <3>2. QED
      BY <3>1 DEF HookMarks, Marked
  <2>14. RequestOk(r)'
    BY <2>10, <2>12, <2>13 DEF RequestOk, Hooked
  <2>15. QED
    BY <1>1, <1>2, <2>3, <2>4, <2>5, <2>6, <2>7, <2>8, <2>14, OwnStep
<1>5. QED
  BY <1>1, <1>3, <1>4

\* What is in the place of the cookies of the same name.
LEMMA OverridingFacts ==
  ASSUME NEW a, NEW b, NEW n
  PROVE  /\ n \in DOMAIN overriding(a, b) <=> n \in DOMAIN a \/ n \in DOMAIN b
         /\ n \in DOMAIN a => overriding(a, b)[n] = a[n]
         /\ n \notin DOMAIN a /\ n \in DOMAIN b => overriding(a, b)[n] = b[n]
BY DEF overriding

\* What a jar holds after an answer has set and removed cookies.
LEMMA OverridingCookies ==
  ASSUME NEW a, NEW b, CookiesOk(a), CookiesOk(b)
  PROVE  CookiesOk(overriding(a, b))
<1> DEFINE c == overriding(a, b)
<1>1. ASSUME NEW n, n \in DOMAIN c
      PROVE  \/ n \in DOMAIN a /\ c[n] = a[n]
             \/ n \in DOMAIN b /\ c[n] = b[n]
  BY <1>1, OverridingFacts
<1> HIDE DEF c
<1>2. "token" \in DOMAIN c => c["token"] \in 0..Len(sessions)
  BY <1>1 DEF CookiesOk
<1>3. "data" \in DOMAIN c => c["data"] \in 0..Len(sessions)
  BY <1>1 DEF CookiesOk
<1>4. "marker" \in DOMAIN c => c["marker"] \in BOOLEAN
  BY <1>1 DEF CookiesOk
<1>5. QED
  BY <1>2, <1>3, <1>4 DEF CookiesOk, c

\* The marker is that of the answer, if it says something of it.
LEMMA OverridingMarker ==
  ASSUME NEW a, NEW b
  PROVE  /\ "marker" \notin DOMAIN a => /\ Marked(b) => Marked(overriding(a, b))
                                        /\ Unmarked(b) => Unmarked(overriding(a, b))
         /\ Marked(a) => Marked(overriding(a, b))
<1>1. CASE "marker" \in DOMAIN a
  <2>1. "marker" \in DOMAIN overriding(a, b) /\ overriding(a, b)["marker"] = a["marker"]
    BY <1>1, OverridingFacts
  <2>2. QED
    BY <1>1, <2>1 DEF Marked
<1>2. CASE "marker" \notin DOMAIN a /\ "marker" \in DOMAIN b
  <2>1. "marker" \in DOMAIN overriding(a, b) /\ overriding(a, b)["marker"] = b["marker"]
    BY <1>2, OverridingFacts
  <2>2. QED
    BY <1>2, <2>1 DEF Marked, Unmarked
<1>3. CASE "marker" \notin DOMAIN a /\ "marker" \notin DOMAIN b
  <2>1. "marker" \notin DOMAIN overriding(a, b)
    BY <1>3, OverridingFacts
  <2>2. QED
    BY <1>3, <2>1 DEF Marked, Unmarked
<1>4. QED
  BY <1>1, <1>2, <1>3

\* The answer names who the session belongs to, and caches the session or clears it.
LEMMA ResolveKeeps ==
  ASSUME GateInv, NEW r \in Requests, Resolve(r)
  PROVE  GateInv'
<1> DEFINE q == req[r]
           t == getSessionFromCtx(q)
           cookies == CASE t # 0 /\ t # q.data -> [data |-> t]
                        [] t = 0 /\ Signed(q.token) -> [token |-> 0, data |-> 0]
                        [] OTHER -> NoCookies
           who == IF t = 0 THEN Nobody ELSE sessions[t].user
           new == [at |-> "answered", gate |-> q.gate, refused |-> q.refused, alone |-> q.alone,
                   ended |-> q.ended, sets |-> overriding(cookies, q.sets), user |-> who]
<1>1. /\ q.at = "resolve" /\ req' = [req EXCEPT ![r] = new]
      /\ UNCHANGED <<gateVars, sessions, live, secretVars, upsets, ended, ask, jar>>
  BY DEF Resolve, serverVars, pageVars
<1>2. /\ req[r] # NoRequest /\ HookTypes(r) /\ HookFound(r) /\ HookMarks(r)
      /\ q \in Working(q.sets)
  BY <1>1 DEF GateInv, RequestOk, AnswerOk, Answer, Hooked, NoRequest, HookTypes
<1>3. /\ t \in 0..Len(sessions) /\ Len(sessions) \in Nat /\ t = Found(r)
      /\ q.token = 0 => t = 0
  BY <1>2, FoundNamed DEF GateInv, HookTypes, ServerOk, Found
<1>4. CookiesOk(cookies) /\ "marker" \notin DOMAIN cookies
  <2>1. CASE t # 0 /\ t # q.data
    <3>1. cookies = [data |-> t]
      BY <2>1
    <3> HIDE DEF t, cookies
    <3>2. DOMAIN cookies = {"data"} /\ cookies["data"] = t
      BY <3>1
    <3>3. QED
      BY <1>3, <3>2 DEF CookiesOk
  <2>2. CASE t = 0 /\ Signed(q.token)
    <3>1. cookies = [token |-> 0, data |-> 0]
      BY <2>2
    <3> HIDE DEF t, cookies
    <3>2. DOMAIN cookies = {"token", "data"} /\ cookies["data"] = 0 /\ cookies["token"] = 0
      BY <3>1
    <3>3. QED
      BY <1>3, <3>2 DEF CookiesOk
  <2>3. CASE ~(t # 0 /\ t # q.data) /\ ~(t = 0 /\ Signed(q.token))
    <3>1. cookies = <<>>
      BY <2>3 DEF NoCookies
    <3> HIDE DEF t, cookies
    <3>2. DOMAIN cookies = {}
      BY <3>1
    <3>3. QED
      BY <3>2 DEF CookiesOk
  <2>4. QED
    BY <2>1, <2>2, <2>3
<1>5. who \in Users \cup {Nobody} /\ (t = 0 => who = Nobody) /\ (t # 0 => who = sessions[t].user)
  <2>1. ASSUME NEW i \in 1..Len(sessions) PROVE sessions[i].user \in Users
    <3> DEFINE Row == [user : Users, secret : Nat]
    <3>1. sessions \in Seq(Row)
      BY DEF GateInv, ServerOk
    <3> HIDE DEF Row
    <3>2. sessions[i] \in Row
      BY <3>1
    <3>3. QED
      BY <3>2 DEF Row
  <2>2. t # 0 => t \in 1..Len(sessions)
    BY <1>3
  <2>3. QED
    BY <2>1, <2>2
<1>6. PICK sets : sets = overriding(cookies, q.sets)
  OBVIOUS
<1>7. CookiesOk(sets) /\ (Marked(q.sets) => Marked(sets)) /\ (Unmarked(q.sets) => Unmarked(sets))
  BY <1>2, <1>4, <1>6, OverridingCookies, OverridingMarker DEF HookTypes
<1>8. /\ new \in Answer(sets) /\ new.at = "answered" /\ new.gate = q.gate /\ new.sets = sets
      /\ new.user = who /\ new.refused = q.refused /\ new.alone = q.alone /\ new.ended = q.ended
  <2> HIDE DEF cookies, who
  <2>1. q.gate \in Viewers \cup {Nobody} /\ {q.refused, q.alone, q.ended} \subseteq BOOLEAN
    BY <1>2 DEF Working
  <2>2. QED
    BY <1>5, <1>6, <2>1 DEF Answer
<1> HIDE DEF new, cookies, who, t
<1>9. ServerOk' /\ Grown
  BY <1>1, NothingMade DEF GateInv, ServerOk
<1>10. JarOk'
  BY <1>1, <1>9, JarKept DEF GateInv
<1>11. req'[r] = new
  BY <1>1 DEF GateInv
<1>12. RequestOk(r)'
  <2>1. req'[r] \in Answer(req'[r].sets)
    BY <1>8, <1>11
  <2>2. CookiesOk(req[r].sets)'
    BY <1>1, <1>7, <1>8, <1>11 DEF CookiesOk
  <2>3. q.ended /\ q.gate = Nobody => who = Nobody
    BY <1>2, <1>3, <1>5 DEF HookTypes
  <2>4. ASSUME q.gate # Nobody, ~q.refused
        PROVE  (who = UserOf[q.gate] \/ (who = Nobody /\ ~q.alone)) /\ Marked(sets)
    <3>1. /\ t # 0 => sessions[t].user = UserOf[q.gate]
          /\ t = 0 => ~q.alone
      BY <1>1, <1>2, <1>3, <2>4 DEF HookFound
    <3>2. Marked(sets)
      BY <1>1, <1>2, <1>7, <2>4 DEF HookMarks
    <3>3. QED
      BY <1>5, <3>1, <3>2
  <2>5. ASSUME q.gate = Nobody, q.alone PROVE Unmarked(sets)
    BY <1>1, <1>2, <1>7, <2>5 DEF HookMarks
  <2>6. req'[r].gate = Nobody /\ req'[r].alone => Unmarked(req[r].sets)'
    BY <1>1, <1>8, <1>11, <2>5 DEF Unmarked
  <2>7. AnswerOk(r)'
    BY <1>8, <1>11, <2>1, <2>2, <2>3, <2>4, <2>6 DEF AnswerOk, Marked
  <2>8. QED
    BY <2>7 DEF RequestOk
<1>13. QED
  BY <1>1, <1>2, <1>8, <1>9, <1>10, <1>11, <1>12, OwnStep

\* The answer arrives: whoever has signed in is no longer signed out.
LEMMA ReceiveKeeps ==
  ASSUME GateInv, NEW r \in Requests, Receive(r)
  PROVE  GateInv'
<1> DEFINE sets == req[r].sets
<1>1. /\ req[r].at = "answered" /\ jar' = overriding(sets, jar)
      /\ req' = [req EXCEPT ![r] = NoRequest]
      /\ UNCHANGED <<gateVars, sessions, live, secretVars, upsets, ask>>
  BY DEF Receive, serverVars
<1>2. /\ ended' \in BOOLEAN
      /\ ended' => ended /\ ~("token" \in DOMAIN sets /\ sets["token"] # 0)
  BY DEF Receive, GateInv, ServerOk
<1>3. req[r] # NoRequest /\ CookiesOk(sets)
  BY <1>1 DEF GateInv, RequestOk, AnswerOk, Hooked, HookTypes, NoRequest
<1>4. ServerOk'
  BY <1>1, <1>2, Zenon DEF GateInv, ServerOk, gateVars, secretVars
<1>5. Grown
  BY <1>1 DEF Grown, secretVars
<1>6. JarOk'
  <2>1. CookiesOk(overriding(sets, jar))
    BY <1>3, OverridingCookies DEF GateInv, JarOk
  <2>2. CookiesOk(jar)'
    BY <1>1, <2>1 DEF CookiesOk
  <2>3. {"token", "data", "marker"} \subseteq DOMAIN jar'
    BY <1>1, OverridingFacts DEF GateInv, JarOk
  <2>4. ASSUME ended' PROVE jar'["token"] = 0
    <3>1. "token" \in DOMAIN jar /\ jar["token"] = 0
      BY <1>2, <2>4 DEF GateInv, JarOk
    <3>2. CASE "token" \in DOMAIN sets
      BY <1>1, <1>2, <2>4, <3>2, OverridingFacts
    <3>3. CASE "token" \notin DOMAIN sets
      BY <1>1, <3>1, <3>3, OverridingFacts
    <3>4. QED
      BY <3>2, <3>3
  <2>5. QED
    BY <2>2, <2>3, <2>4 DEF JarOk
<1>7. req'[r] = NoRequest
  BY <1>1 DEF GateInv
<1>8. RequestOk(r)'
  BY <1>7 DEF RequestOk
<1>9. QED
  BY <1>1, <1>3, <1>4, <1>5, <1>6, <1>7, <1>8, OwnStep
-----------------------------------------------------------------------------
(***************************************************************************)
(* The steps of the page, of the gate and of the process.                  *)
(***************************************************************************)

\* Cookies are dropped.
LEMMA Dropping ==
  ASSUME GateInv, UNCHANGED sessions, {"token", "data", "marker"} \subseteq DOMAIN jar',
         jar'["token"] \in {0, jar["token"]}, jar'["data"] \in {0, jar["data"]},
         jar'["marker"] = jar["marker"], ended' => ended \/ jar'["token"] = 0
  PROVE  JarOk'
<1>1. /\ jar["token"] \in 0..Len(sessions) /\ jar["data"] \in 0..Len(sessions)
      /\ jar["marker"] \in BOOLEAN /\ Len(sessions) \in Nat /\ (ended => jar["token"] = 0)
  BY DEF GateInv, JarOk, CookiesOk, ServerOk
<1>2. jar'["token"] \in 0..Len(sessions)' /\ jar'["data"] \in 0..Len(sessions)'
  BY <1>1
<1>3. jar'["marker"] \in BOOLEAN
  BY <1>1, Zenon
<1>4. ended' => jar'["token"] = 0
  BY <1>1
<1>5. CookiesOk(jar)'
  BY <1>2, <1>3, Zenon DEF CookiesOk
<1>6. QED
  BY <1>4, <1>5 DEF JarOk

\* A step that leaves the requests, the live sessions and the marker in the jar as they are.
LEMMA QuietStep ==
  ASSUME GateInv, ServerOk', JarOk', Grown, live' = live, req' = req, ask' = ask,
         jar'["marker"] = jar["marker"]
  PROVE  GateInv'
<1>1. \A s \in Requests : RequestOk(s)'
  <2>1. \A s \in Requests : RequestOk(s) /\ Bystander(s)
    BY DEF GateInv, Bystander
  <2>2. (jar'["marker"] <=> jar["marker"]) /\ live \subseteq live'
    OBVIOUS
  <2>3. QED
    BY <2>1, <2>2, Bystands DEF GateInv
<1>2. AloneOk'
  BY DEF GateInv, AloneOk
<1>3. QED
  BY <1>1, <1>2 DEF GateInv

\* The steps of the page keep the invariant.
LEMMA PageKeeps ==
  ASSUME GateInv, CacheExpires \/ signOut \/ EndSession \/ PageProgress
  PROVE  GateInv'
<1>1. {"token", "data", "marker"} \subseteq DOMAIN jar /\ upsets \in Nat /\ ended \in BOOLEAN
  BY DEF GateInv, JarOk, ServerOk
<1>2. CASE CacheExpires
  <2>1. /\ jar' = [jar EXCEPT !.data = 0] /\ req' = req /\ ask' = ask /\ live' = live
        /\ UNCHANGED <<gateVars, sessions, secretVars, upsets, ended>>
    BY <1>2 DEF CacheExpires, serverVars, pageVars
  <2>2. ServerOk' /\ Grown
    BY <2>1, NothingMade DEF GateInv, ServerOk
  <2>3. /\ DOMAIN jar' = DOMAIN jar /\ jar'["token"] = jar["token"] /\ jar'["data"] = 0
        /\ jar'["marker"] = jar["marker"]
    BY <1>1, <2>1
  <2>4. QED
    BY <1>1, <2>1, <2>2, <2>3, Dropping, QuietStep
<1>3. CASE TimeUp
  <2>1. /\ UNCHANGED <<gateVars, sessions, live, secretVars, upsets, ended, jar, req, ask>>
    BY <1>3 DEF TimeUp, serverVars
  <2>2. ServerOk' /\ Grown
    BY <2>1, NothingMade DEF GateInv, ServerOk
  <2>3. QED
    BY <2>1, <2>2, JarKept, QuietStep DEF GateInv
<1>4. CASE signOut \/ EndSession
  <2>1. /\ UNCHANGED <<gateVars, sessions, secretVars, ended, jar>> /\ live' \subseteq live
        /\ req' = Disturbed /\ (upsets' = upsets \/ upsets' = upsets + 1)
    BY <1>4 DEF signOut, EndSession, serverVars, Upset
  <2>2. upsets' \in Nat
    BY <1>1, <2>1
  <2>3. ServerOk' /\ Grown
    BY <2>1, <2>2, NothingMade DEF GateInv
  <2>4. QED
    BY <2>1, <2>3, JarKept, DisturbingStep DEF GateInv
<1>5. CASE SignOutAnswered
  <2>1. /\ jar' = IF ask.at = "ok" THEN [jar EXCEPT !.token = 0, !.data = 0] ELSE jar
        /\ req' = Disturbed /\ UNCHANGED <<gateVars, sessions, live, secretVars, upsets>>
        /\ \/ ask.at = "ok" /\ ended' = TRUE
           \/ ended' = ended
    BY <1>5 DEF SignOutAnswered, Confirmed, serverVars
  <2>2. /\ DOMAIN jar' = DOMAIN jar /\ jar'["token"] \in {0, jar["token"]}
        /\ jar'["data"] \in {0, jar["data"]} /\ jar'["marker"] = jar["marker"]
        /\ ask.at = "ok" => jar'["token"] = 0
    BY <1>1, <2>1
  <2>3. ended' \in BOOLEAN /\ (ended' => ended \/ jar'["token"] = 0)
    <3>1. CASE ask.at = "ok" /\ ended' = TRUE
      BY <2>2, <3>1, Zenon
    <3>2. CASE ended' = ended
      BY <1>1, <3>2, Zenon
    <3>3. QED
      BY <2>1, <3>1, <3>2, Zenon
  <2>4. ServerOk'
    BY <2>1, <2>3, Zenon DEF GateInv, ServerOk, gateVars, secretVars
  <2>5. Grown
    BY <2>1 DEF Grown, secretVars
  <2>6. JarOk'
    BY <1>1, <2>1, <2>2, <2>3, Dropping
  <2>7. QED
    BY <2>1, <2>4, <2>5, <2>6, DisturbingStep
<1>6. QED
  BY <1>2, <1>3, <1>4, <1>5 DEF PageProgress

\* A change of the viewer and a hot reload keep the invariant.
LEMMA GateKeeps ==
  ASSUME GateInv, Swap \/ Reload
  PROVE  GateInv'
<1>1. /\ UNCHANGED <<sessions, live, pageVars, jar>> /\ req' = Disturbed /\ upsets' = upsets + 1
      /\ gate' \in Viewers \cup {Nobody} /\ kid' \in Nat
  <2>1. CASE Swap
    BY <2>1 DEF Swap, Upset, GateInv, ServerOk
  <2>2. CASE Reload
    BY <2>2 DEF Reload, Upset, GateInv, ServerOk, gateVars
  <2>3. QED
    BY <2>1, <2>2
<1>2. secret' = secret /\ signing' = signing /\ minted' \in Nat
  <2>1. CASE Swap
    BY <2>1 DEF Swap, secretVars, GateInv, ServerOk
  <2>2. CASE Reload
    <3>1. previewAuthSecret = secret /\ secret \in Nat /\ minted \in Nat /\ signing = secret
      BY DEF previewAuthSecret, GateInv, ServerOk
    <3>2. QED
      BY <2>2, <3>1 DEF Reload
  <2>3. QED
    BY <2>1, <2>2
<1>3. ServerOk'
  BY <1>1, <1>2 DEF GateInv, ServerOk, pageVars
<1>4. Grown
  BY <1>1, <1>2 DEF Grown
<1>5. JarOk'
  BY <1>1, <1>3, <1>4, JarKept DEF GateInv, pageVars
<1>6. QED
  BY <1>1, <1>3, <1>4, <1>5, DisturbingStep

\* A restart loses every request that is on its way.
LEMMA RestartKeeps ==
  ASSUME GateInv, Restart
  PROVE  GateInv'
<1>1. /\ req' = [r \in Requests |-> req'[r]] /\ \A r \in Requests : req'[r] = NoRequest
      /\ minted' = minted + 1 /\ secret' = minted + 1 /\ signing' = minted + 1
      /\ upsets' = upsets + 1 /\ UNCHANGED <<gateVars, sessions, ended, jar>>
  BY DEF Restart, Active, Upset
<1>2. ServerOk'
  BY <1>1 DEF GateInv, ServerOk, gateVars
<1>3. JarOk'
  BY <1>1 DEF GateInv, JarOk, CookiesOk
<1>4. QED
  BY <1>1, <1>2, <1>3 DEF GateInv, AloneOk, RequestOk
-----------------------------------------------------------------------------
\* The invariant holds in every reachable state.
LEMMA GateInvHolds == AuthSpec => []GateInv
<1>1. AuthInit => GateInv
  <2> SUFFICES ASSUME AuthInit PROVE GateInv
    OBVIOUS
  <2>1. [user |-> Member, secret |-> 1] \in [user : Users, secret : Nat]
    BY DEF Users
  <2>2. sessions \in Seq([user : Users, secret : Nat]) /\ Len(sessions) = 1
    BY <2>1 DEF AuthInit
  <2>3. ServerOk
    <3>1. /\ gate \in Viewers \cup {Nobody} /\ kid \in Nat /\ minted \in Nat /\ upsets \in Nat
          /\ secret \in Nat \ {0} /\ signing = secret
      BY DEF AuthInit
    <3>2. ended \in BOOLEAN
      BY Zenon DEF AuthInit
    <3>3. QED
      BY <2>2, <3>1, <3>2, Zenon DEF ServerOk
  <2>4. JarOk
    <3>1. jar \in [token : {0, 1}, data : {0}, marker : {FALSE}]
      BY DEF AuthInit
    <3>2. {"token", "data", "marker"} \subseteq DOMAIN jar
      BY <3>1
    <3>3. jar["token"] \in {0, 1} /\ jar["data"] = 0
      BY <3>1
    <3>4. jar["marker"] \in BOOLEAN
      BY <3>1
    <3>5. CookiesOk(jar)
      BY <2>2, <3>3, <3>4 DEF CookiesOk
    <3>6. ~ended
      BY DEF AuthInit
    <3>7. QED
      BY <3>2, <3>5, <3>6 DEF JarOk
  <2>5. /\ req = [r \in Requests |-> req[r]] /\ \A r \in Requests : req[r] = NoRequest
    BY DEF AuthInit
  <2>6. QED
    BY <2>3, <2>4, <2>5 DEF GateInv, AloneOk, RequestOk
<1>2. ASSUME GateInv, [AuthNext]_authVars PROVE GateInv'
  <2>1. CASE UNCHANGED authVars
    <3>1. /\ UNCHANGED <<gateVars, sessions, live, secretVars, upsets, ended, jar, req, ask>>
      BY <2>1 DEF authVars, serverVars, pageVars
    <3>2. ServerOk' /\ Grown
      BY <1>2, <3>1, NothingMade DEF GateInv, ServerOk
    <3>3. QED
      BY <1>2, <3>1, <3>2, JarKept, QuietStep DEF GateInv
  <2>2. QED
    BY <1>2, <2>1, AskKeeps, ClearKeeps, VerifyKeeps, AccountsKeep, DeleteKeeps, MaterializeKeeps,
       ResolveKeeps, ReceiveKeeps, PageKeeps, GateKeeps, RestartKeeps DEF AuthNext
<1>3. QED
  BY <1>1, <1>2, PTL DEF AuthSpec

\* Behind the gate a request is served as the viewer and as nobody else, whatever
\* cookies it has and whatever requests, reloads and restarts come between.
THEOREM ViewersAreServed == AuthSpec => []ViewerServed
<1>1. GateInv => ViewerServed
  <2> SUFFICES ASSUME GateInv, NEW r \in Requests, req[r].at = "answered", req[r].gate # Nobody,
                      ~req[r].refused
               PROVE  \/ req[r].user = UserOf[req[r].gate]
                      \/ req[r].user = Nobody /\ ~req[r].alone
    BY DEF ViewerServed
  <2>1. AnswerOk(r)
    BY DEF GateInv, RequestOk, Hooked, HookTypes, Working, InTheHook, NoRequest
  <2>2. QED
    BY <2>1 DEF AnswerOk
<1>2. QED
  BY <1>1, GateInvHolds, PTL

\* A browser that was told that it is signed out stays so: no request sent since
\* then is served as anybody, cached session or not.
THEOREM SignedOutForGood == AuthSpec => []SignedOutStays
<1>1. GateInv => SignedOutStays
  <2> SUFFICES ASSUME GateInv, NEW r \in Requests, req[r].at = "answered", req[r].ended,
                      req[r].gate = Nobody
               PROVE  req[r].user = Nobody
    BY DEF SignedOutStays
  <2>1. AnswerOk(r)
    BY DEF GateInv, RequestOk, Hooked, HookTypes, Working, InTheHook, NoRequest
  <2>2. QED
    BY <2>1 DEF AnswerOk
<1>2. QED
  BY <1>1, GateInvHolds, PTL

\* The marker is right after every request that nothing disturbed: it is there
\* exactly if the viewer came through the gate.
THEOREM MarkersTell == AuthSpec => MarkerTells
<1>1. ASSUME GateInv, [AuthNext]_authVars, NEW r \in Requests, Receive(r), req[r].alone, ~req[r].refused
      PROVE  jar'.marker = (req[r].gate # Nobody)
  <2>1. AnswerOk(r) /\ jar' = overriding(req[r].sets, jar)
    BY <1>1 DEF Receive, GateInv, RequestOk, Hooked, HookTypes, Working, InTheHook, NoRequest
  <2>2. CookiesOk(jar) /\ {"token", "data", "marker"} \subseteq DOMAIN jar
    BY <1>1 DEF GateInv, JarOk
  <2>3. CookiesOk(jar')
    BY <2>1, <2>2, OverridingCookies DEF AnswerOk
  <2>4. "marker" \in DOMAIN jar'
    BY <2>1, <2>2, OverridingFacts
  <2>5. jar'["marker"] \in BOOLEAN
    BY <2>3, <2>4 DEF CookiesOk
  <2>6. CASE req[r].gate # Nobody
    <3>1. Marked(req[r].sets)
      BY <1>1, <2>1, <2>6 DEF AnswerOk
    <3>2. jar'["marker"]
      BY <2>1, <3>1, OverridingMarker DEF Marked
    <3>3. QED
      BY <2>5, <2>6, <3>2, Zenon
  <2>7. CASE req[r].gate = Nobody
    <3>1. Unmarked(req[r].sets)
      BY <1>1, <2>1, <2>7 DEF AnswerOk
    <3>2. ~jar'["marker"]
      <4>1. CASE "marker" \in DOMAIN req[r].sets
        <5>1. jar'["marker"] = req[r].sets["marker"] /\ ~req[r].sets["marker"]
          BY <2>1, <3>1, <4>1, OverridingFacts DEF Unmarked
        <5>2. QED
          BY <5>1
      <4>2. CASE "marker" \notin DOMAIN req[r].sets
        <5>1. jar'["marker"] = jar["marker"] /\ ~jar["marker"]
          BY <2>1, <2>2, <3>1, <4>2, OverridingFacts DEF Unmarked
        <5>2. QED
          BY <5>1
      <4>3. QED
        BY <4>1, <4>2
    <3>3. QED
      BY <2>5, <2>7, <3>2, Zenon
  <2>8. QED
    BY <2>6, <2>7
<1>2. GateInv /\ [AuthNext]_authVars
        => [\A r \in Requests : Receive(r) /\ req[r].alone /\ ~req[r].refused
              => jar'.marker = (req[r].gate # Nobody)]_authVars
  BY <1>1
<1>3. QED
  BY <1>2, GateInvHolds, PTL DEF AuthSpec, MarkerTells

(***************************************************************************)
(* The peers of a room.                                                    *)
(***************************************************************************)
RoomSpec == RoomInit /\ [][RoomNext]_roomVars

LEMMA TwoPeers ==
  \A p \in Peers : /\ Other(p) \in Peers /\ Other(p) # p /\ Other(Other(p)) = p
                   /\ \A q \in Peers : q = p \/ q = Other(p)
BY DEF Peers, Other

(***************************************************************************)
(* Types, and the numbers that handlers keep while they wait.              *)
(***************************************************************************)
Signals == [kind: {"offer", "answer", "ice"}, type: {"offer", "answer", "ice"}, pc: Nat]
Slots == [pc: Nat, live: {"new", "connected", "failed"},
          signaling: {"stable", "have-local-offer", "have-remote-offer"},
          remote: Nat, agreed: Nat, candidates: SUBSET Nat, pending: SUBSET Nat,
          needed: BOOLEAN, making: {"no", "creating", "posting"}, recovery: Nat,
          terminal: BOOLEAN, recreated: BOOLEAN]
PollStates == [at: Nat, upto: Nat, step: {"idle", "next", "setRemote", "setLocal", "post"},
               known: BOOLEAN, pc: Nat, recovery: Nat, spent: BOOLEAN]

SlotTypes == slot \in [Peers -> {NoSlot} \cup Slots] /\ created \in [Peers -> Nat]
SignalTypes ==
  /\ outbox \in [Peers -> Seq(Signals)] /\ relay \in [Peers -> Seq(Signals)]
  /\ \A p \in Peers : /\ \A i \in DOMAIN outbox[p] :
                           outbox[p][i].kind = "offer" => outbox[p][i].type = "offer"
                      /\ \A i \in DOMAIN relay[p] :
                           relay[p][i].kind = "offer" => relay[p][i].type = "offer"
PollTypes ==
  /\ DOMAIN poll = Peers /\ \A p \in Peers : poll[p] \in [Polls[p] -> PollStates]
  /\ poll = [p \in Peers |-> poll[p]]
  /\ cursor \in [Peers -> Nat]
RoomTypes ==
  /\ timer \in [Peers -> BOOLEAN] /\ closed \in [Peers -> BOOLEAN]
  /\ roster \subseteq Peers

\* A poll reads what the relay holds.
InRelay(p) ==
  /\ cursor[p] <= Len(relay[p])
  /\ \A k \in Polls[p] :
       Busy(p, k) => /\ poll[p][k].at <= poll[p][k].upto /\ poll[p][k].upto <= Len(relay[p])
                     /\ poll[p][k].step # "next" => poll[p][k].at >= 1

PeerTypes == SlotTypes /\ SignalTypes /\ PollTypes /\ RoomTypes /\ \A p \in Peers : InRelay(p)

(***************************************************************************)
(* Whatever happens: a slot holds the last connection created, a closed    *)
(* room holds none, and the signals of a peer are posted and read in the   *)
(* order in which its connections were created.                            *)
(***************************************************************************)
LastCreated ==
  /\ \A p \in Peers : Has(p) => slot[p].pc = created[p] /\ created[p] >= 1
  /\ \A p \in Peers : closed[p] => ~Has(p)
  /\ "close" \in faults => \E p \in Peers : closed[p]

InOrder(p) ==
  LET q == Other(p) IN
  /\ \A i, j \in DOMAIN relay[q] : i < j => relay[q][i].pc <= relay[q][j].pc
  /\ \A i, j \in DOMAIN outbox[p] : i < j => outbox[p][i].pc <= outbox[p][j].pc
  /\ \A i \in DOMAIN relay[q], j \in DOMAIN outbox[p] : relay[q][i].pc <= outbox[p][j].pc
  /\ \A i \in DOMAIN relay[q] : relay[q][i].pc <= created[p]
  /\ \A j \in DOMAIN outbox[p] : outbox[p][j].pc <= created[p]

SignalsInOrder == \A p \in Peers : InOrder(p)

(***************************************************************************)
(* While nobody has closed its room and no stall timer has run out early,  *)
(* one poll of a peer is answered at a time, its handler works on the      *)
(* connection that is in the map, and nothing that is still to be read is  *)
(* older than what the peer knows of the other end.                        *)
(***************************************************************************)
Calm == "early" \notin faults /\ \A p \in Peers : ~closed[p]
Alone == \A p \in Peers : \A j, k \in Polls[p] : j = k

OnePoll(p) ==
  /\ \A j, k \in Polls[p] : Busy(p, j) /\ Busy(p, k) => j = k
  /\ timer[p] => Alone \/ \A k \in Polls[p] : ~Busy(p, k)
  /\ \A k \in Polls[p] :
       Busy(p, k) => /\ poll[p][k].at = cursor[p]
                     /\ poll[p][k].known => Other(p) \in roster
                     /\ poll[p][k].step = "setRemote" => Current(p, k)
  /\ Has(p) => Other(p) \in roster
  /\ p \notin roster => ~timer[p] /\ ~Has(p) /\ \A k \in Polls[p] : ~Busy(p, k)

UpToDate(p) ==
  LET q == Other(p) IN
  Has(p) =>
    /\ slot[p].remote <= created[q] /\ slot[p].agreed \in {0, slot[p].remote}
    /\ \A i \in DOMAIN relay[p] : i > cursor[p] => slot[p].remote <= relay[p][i].pc
    /\ \A j \in DOMAIN outbox[q] : slot[p].remote <= outbox[q][j].pc
    /\ \A k \in Polls[p] :
         poll[p][k].step = "setRemote" => slot[p].remote <= relay[p][poll[p][k].at].pc

(***************************************************************************)
(* Slots and polls, read and written.                                      *)
(***************************************************************************)
LEMMA SlotIsSome == \A s \in Slots : s # NoSlot
<1> SUFFICES ASSUME NEW s \in Slots, s = NoSlot PROVE FALSE
  OBVIOUS
<1>1. "live" \in DOMAIN s
  BY DEF Slots
<1>2. DOMAIN NoSlot = {"pc"}
  BY DEF NoSlot
<1>3. QED
  BY <1>1, <1>2

LEMMA NewSlots ==
  ASSUME NEW n \in Nat, NEW b \in BOOLEAN
  PROVE  /\ NewSlot(n, b) \in Slots
         /\ NewSlot(n, b).pc = n /\ NewSlot(n, b).remote = 0 /\ NewSlot(n, b).agreed = 0
BY DEF NewSlot, Slots

LEMMA HeldSlot ==
  ASSUME SlotTypes, NEW p \in Peers
  PROVE  /\ Has(p) => slot[p] \in Slots
         /\ ~Has(p) => slot[p] = NoSlot
         /\ created[p] \in Nat
BY DEF SlotTypes, Has

\* What an EXCEPT leaves alone: slots, and each poll.
LEMMA SlotSet ==
  ASSUME SlotTypes, NEW p \in Peers, NEW s \in {NoSlot} \cup Slots,
         slot' = [slot EXCEPT ![p] = s],
         \/ UNCHANGED created
         \/ created' = [created EXCEPT ![p] = @ + 1]
  PROVE  /\ SlotTypes'
         /\ slot'[p] = s /\ (Has(p)' <=> s # NoSlot)
         /\ \A q \in Peers : q # p => slot'[q] = slot[q] /\ created'[q] = created[q]
                                      /\ (Has(q)' <=> Has(q))
         /\ created'[p] \in {created[p], created[p] + 1}
BY DEF SlotTypes, Has

LEMMA ReconcileTypes ==
  ASSUME SlotTypes, NEW p \in Peers, NEW listed \in BOOLEAN, Reconcile(p, listed)
  PROVE  /\ SlotTypes'
         /\ \A q \in Peers : q # p => slot'[q] = slot[q] /\ created'[q] = created[q]
                                      /\ (Has(q)' <=> Has(q))
         /\ (listed <=> Has(p)) => UNCHANGED <<slot, created>>
         /\ ~listed => ~Has(p)' /\ created'[p] = created[p]
         /\ listed /\ ~Has(p) => /\ Has(p)' /\ created'[p] = created[p] + 1
                                 /\ slot'[p].pc = created'[p]
                                 /\ slot'[p].remote = 0 /\ slot'[p].agreed = 0
<1>1. created[p] \in Nat /\ Initiator(p) \in BOOLEAN
  BY HeldSlot DEF Initiator
<1> DEFINE new == NewSlot(created[p] + 1, Initiator(p))
<1>2. /\ new \in Slots /\ new # NoSlot
      /\ new.pc = created[p] + 1 /\ new.remote = 0 /\ new.agreed = 0
  BY <1>1, NewSlots, SlotIsSome
<1> HIDE DEF new
<1>3. CASE listed /\ ~Has(p)
  <2>1. slot' = [slot EXCEPT ![p] = new] /\ created' = [created EXCEPT ![p] = @ + 1]
    BY <1>3 DEF Reconcile, Connect, new
  <2>2. created'[p] = created[p] + 1
    BY <2>1 DEF SlotTypes
  <2>3. QED
    BY <1>1, <1>2, <1>3, <2>1, <2>2, SlotSet
<1>4. CASE ~listed /\ Has(p)
  <2>1. slot' = [slot EXCEPT ![p] = NoSlot] /\ UNCHANGED created
    BY <1>4 DEF Reconcile
  <2>2. QED
    BY <1>4, <2>1, SlotSet
<1>5. CASE listed <=> Has(p)
  <2>1. UNCHANGED <<slot, created>>
    BY <1>5 DEF Reconcile
  <2>2. QED
    BY <1>5, <2>1 DEF SlotTypes, Has
<1>6. QED
  BY <1>3, <1>4, <1>5

\* A poll's new state.
LEMMA PollSet ==
  ASSUME PollTypes, NEW p \in Peers, NEW k \in Polls[p], NEW r \in PollStates,
         poll' = [poll EXCEPT ![p][k] = r]
  PROVE  /\ DOMAIN poll' = Peers /\ poll' = [q \in Peers |-> poll'[q]]
         /\ \A q \in Peers : poll'[q] \in [Polls[q] -> PollStates]
         /\ poll'[p][k] = r /\ \A j \in Polls[p] : j # k => poll'[p][j] = poll[p][j]
         /\ \A q \in Peers : q # p => poll'[q] = poll[q]
<1>1. /\ DOMAIN poll = Peers /\ poll = [q \in Peers |-> poll[q]]
      /\ \A q \in Peers : poll[q] \in [Polls[q] -> PollStates]
  BY DEF PollTypes
<1>2. poll' = [q \in Peers |-> IF q = p THEN [poll[p] EXCEPT ![k] = r] ELSE poll[q]]
  BY <1>1
<1>3. DOMAIN poll' = Peers /\ poll' = [q \in Peers |-> poll'[q]]
  BY <1>2
<1>4. poll'[p] = [poll[p] EXCEPT ![k] = r] /\ \A q \in Peers : q # p => poll'[q] = poll[q]
  BY <1>2
<1>5. poll'[p] \in [Polls[p] -> PollStates]
  BY <1>1, <1>4
<1>6. poll'[p][k] = r /\ \A j \in Polls[p] : j # k => poll'[p][j] = poll[p][j]
  BY <1>1, <1>4
<1>7. QED
  BY <1>1, <1>3, <1>4, <1>5, <1>6

LEMMA PollOf ==
  ASSUME PollTypes, NEW p \in Peers, NEW k \in Polls[p]
  PROVE  /\ poll[p][k] \in PollStates /\ poll[p] \in [Polls[p] -> PollStates]
         /\ poll[p][k].at \in Nat /\ poll[p][k].upto \in Nat /\ poll[p][k].pc \in Nat
         /\ poll[p][k].recovery \in Nat /\ cursor[p] \in Nat
BY DEF PollTypes, PollStates

(***************************************************************************)
(* What a step of a peer does to its slot.  It leaves the other peer's     *)
(* things alone, but for the relay and the roster.                         *)
(***************************************************************************)
Others(p) ==
  \A q \in Peers : q # p =>
    /\ slot'[q] = slot[q] /\ created'[q] = created[q] /\ (Has(q)' <=> Has(q))
    /\ outbox'[q] = outbox[q] /\ cursor'[q] = cursor[q]
    /\ poll'[q] = poll[q] /\ timer'[q] = timer[q] /\ closed'[q] = closed[q]

\* The connection stays; what is known of the other end may be forgotten.
SameConnection(p) ==
  /\ Has(p)' <=> Has(p)
  /\ created'[p] = created[p]
  /\ Has(p) => slot'[p].pc = slot[p].pc
Keeps(p) ==
  /\ SameConnection(p)
  /\ Has(p) => slot'[p].remote = slot[p].remote /\ slot'[p].agreed \in {0, slot[p].agreed}

\* There is a new one.
Renews(p) ==
  /\ Has(p)' /\ created'[p] = created[p] + 1 /\ slot'[p].pc = created'[p]
  /\ slot'[p].remote = 0 /\ slot'[p].agreed = 0

LEMMA Untouched ==
  ASSUME SlotTypes, NEW p \in Peers, NEW s \in Slots, Has(p),
         slot' = [slot EXCEPT ![p] = s], UNCHANGED created,
         s.pc = slot[p].pc, s.remote = slot[p].remote, s.agreed \in {0, slot[p].agreed}
  PROVE  /\ SlotTypes' /\ Keeps(p)
         /\ \A q \in Peers : q # p => slot'[q] = slot[q] /\ created'[q] = created[q]
                                      /\ (Has(q)' <=> Has(q))
BY SlotSet, SlotIsSome DEF Keeps, SameConnection

LEMMA SlotOnly ==
  ASSUME PeerTypes, NEW p \in Peers, SlotTypes',
         UNCHANGED <<outbox, relay, cursor, poll, timer, closed, roster>>,
         \A q \in Peers : q # p => slot'[q] = slot[q] /\ created'[q] = created[q]
                                   /\ (Has(q)' <=> Has(q))
  PROVE  PeerTypes' /\ Others(p)
BY DEF Others, PeerTypes, SignalTypes, RoomTypes, PollTypes, InRelay, Busy

LEMMA NegotiationNeededDoes ==
  ASSUME PeerTypes, NEW p \in Peers, NegotiationNeeded(p)
  PROVE  PeerTypes' /\ Others(p) /\ Keeps(p)
<1> DEFINE s == [slot[p] EXCEPT !.needed = FALSE, !.making = "creating"]
<1>1. /\ Has(p) /\ slot' = [slot EXCEPT ![p] = s]
      /\ UNCHANGED <<created, outbox, relay, cursor, poll, timer, closed, roster, faults>>
  BY DEF NegotiationNeeded
<1>2. /\ SlotTypes /\ slot[p] \in Slots
  BY <1>1, HeldSlot DEF PeerTypes
<1>3. s \in Slots /\ s.pc = slot[p].pc /\ s.remote = slot[p].remote /\ s.agreed = slot[p].agreed
  BY <1>2 DEF Slots
<1> HIDE DEF s
<1>4. /\ SlotTypes' /\ Keeps(p)
      /\ \A q \in Peers : q # p => slot'[q] = slot[q] /\ created'[q] = created[q]
                                   /\ (Has(q)' <=> Has(q))
  BY <1>1, <1>2, <1>3, Untouched
<1>5. QED
  BY <1>1, <1>4, SlotOnly

LEMMA ConnectsDoes ==
  ASSUME PeerTypes, NEW p \in Peers, Connects(p)
  PROVE  PeerTypes' /\ Others(p) /\ Keeps(p)
<1> DEFINE s == [slot[p] EXCEPT !.live = "connected", !.recovery = 0, !.terminal = FALSE]
<1>1. /\ Has(p) /\ slot' = [slot EXCEPT ![p] = s]
      /\ UNCHANGED <<created, outbox, relay, cursor, poll, timer, closed, roster, faults>>
  BY DEF Connects, CanConnect
<1>2. /\ SlotTypes /\ slot[p] \in Slots
  BY <1>1, HeldSlot DEF PeerTypes
<1>3. s \in Slots /\ s.pc = slot[p].pc /\ s.remote = slot[p].remote /\ s.agreed = slot[p].agreed
  BY <1>2 DEF Slots
<1> HIDE DEF s
<1>4. /\ SlotTypes' /\ Keeps(p)
      /\ \A q \in Peers : q # p => slot'[q] = slot[q] /\ created'[q] = created[q]
                                   /\ (Has(q)' <=> Has(q))
  BY <1>1, <1>2, <1>3, Untouched
<1>5. QED
  BY <1>1, <1>4, SlotOnly

\* Also with the timer set.
LEMMA FailsDoes ==
  ASSUME PeerTypes, NEW p \in Peers, Breaks(p) \/ Loses(p)
  PROVE  PeerTypes' /\ Others(p) /\ Keeps(p)
<1>1. /\ Has(p) /\ UNCHANGED <<created, outbox, relay, cursor, poll, closed, roster>>
      /\ timer' = timer \/ timer' = [timer EXCEPT ![p] = TRUE]
  BY DEF Breaks, Loses, Connected
<1>2. /\ SlotTypes /\ slot[p] \in Slots
  BY <1>1, HeldSlot DEF PeerTypes
<1>3. PICK s \in Slots : /\ slot' = [slot EXCEPT ![p] = s]
                         /\ s.pc = slot[p].pc /\ s.remote = slot[p].remote /\ s.agreed = 0
  <2> DEFINE t == [slot[p] EXCEPT !.live = "failed", !.agreed = 0, !.candidates = {},
                                  !.needed = TRUE]
             u == [slot[p] EXCEPT !.live = "failed", !.agreed = 0]
  <2>1. slot' = [slot EXCEPT ![p] = t] \/ slot' = [slot EXCEPT ![p] = u]
    BY DEF Breaks, Loses, Failed
  <2>2. t \in Slots /\ t.pc = slot[p].pc /\ t.remote = slot[p].remote /\ t.agreed = 0
    BY <1>2 DEF Slots
  <2>3. u \in Slots /\ u.pc = slot[p].pc /\ u.remote = slot[p].remote /\ u.agreed = 0
    BY <1>2 DEF Slots
  <2> HIDE DEF t, u
  <2>4. QED
    BY <2>1, <2>2, <2>3
<1>4. SlotTypes' /\ Keeps(p) /\ \A q \in Peers : q # p => slot'[q] = slot[q] /\ created'[q] = created[q]
                                      /\ (Has(q)' <=> Has(q))
  BY <1>1, <1>2, <1>3, Untouched
<1>5. RoomTypes' /\ \A q \in Peers : q # p => timer'[q] = timer[q]
  BY <1>1 DEF PeerTypes, RoomTypes
<1>6. QED
  BY <1>1, <1>4, <1>5 DEF Others, PeerTypes, SignalTypes, PollTypes, InRelay, Busy

LEMMA WatchdogDoes ==
  ASSUME PeerTypes, NEW p \in Peers, Watchdog(p)
  PROVE  PeerTypes' /\ Others(p) /\ (Keeps(p) \/ Renews(p))
<1> DEFINE s == slot[p]
<1>1. /\ Has(p) /\ UNCHANGED <<outbox, relay, cursor, poll, closed, roster>>
      /\ \/ \E t \in {[s EXCEPT !.terminal = TRUE], [s EXCEPT !.recovery = @ + 1]} :
              slot' = [slot EXCEPT ![p] = t] /\ UNCHANGED <<created, timer>>
         \/ /\ slot' = [slot EXCEPT ![p] = Redialled(p, s)]
            /\ created' = [created EXCEPT ![p] = @ + 1]
            /\ timer' = [timer EXCEPT ![p] = TRUE]
  BY DEF Watchdog
<1>2. SlotTypes /\ s \in Slots /\ created[p] \in Nat
  BY <1>1, HeldSlot DEF PeerTypes
<1>3. CASE \E t \in {[s EXCEPT !.terminal = TRUE], [s EXCEPT !.recovery = @ + 1]} :
              slot' = [slot EXCEPT ![p] = t] /\ UNCHANGED <<created, timer>>
  <2>1. PICK t \in {[s EXCEPT !.terminal = TRUE], [s EXCEPT !.recovery = @ + 1]} :
              slot' = [slot EXCEPT ![p] = t] /\ UNCHANGED <<created, timer>>
    BY <1>3
  <2>2. t \in Slots /\ t.pc = s.pc /\ t.remote = s.remote /\ t.agreed = s.agreed
    <3> HIDE DEF s
    <3>1. CASE t = [s EXCEPT !.terminal = TRUE]
      BY <1>2, <3>1 DEF Slots
    <3>2. CASE t = [s EXCEPT !.recovery = @ + 1]
      BY <1>2, <3>2 DEF Slots
    <3>3. QED
      BY <2>1, <3>1, <3>2
  <2>3. /\ SlotTypes' /\ Keeps(p)
        /\ \A q \in Peers : q # p => slot'[q] = slot[q] /\ created'[q] = created[q]
                                     /\ (Has(q)' <=> Has(q))
    BY <1>1, <1>2, <2>1, <2>2, Untouched
  <2>4. QED
    BY <1>1, <2>1, <2>3, SlotOnly
<1>4. CASE /\ slot' = [slot EXCEPT ![p] = Redialled(p, s)]
           /\ created' = [created EXCEPT ![p] = @ + 1]
           /\ timer' = [timer EXCEPT ![p] = TRUE]
  <2> DEFINE new == Redialled(p, s)
             n == created[p] + 1
  <2>1. /\ NewSlot(n, TRUE) \in Slots /\ NewSlot(n, TRUE).pc = n
        /\ NewSlot(n, TRUE).remote = 0 /\ NewSlot(n, TRUE).agreed = 0
    <3>1. n \in Nat
      BY <1>2
    <3> HIDE DEF n
    <3>2. QED
      BY <3>1, NewSlots
  <2>2. new \in Slots /\ new.pc = n /\ new.remote = 0 /\ new.agreed = 0
    <3> DEFINE made == NewSlot(n, TRUE)
    <3>1. new = [made EXCEPT !.recovery = s.recovery + 1] /\ s.recovery + 1 \in Nat
      BY <1>2 DEF Redialled, Slots
    <3> HIDE DEF made, new, s
    <3>2. made \in Slots /\ made.pc = n /\ made.remote = 0 /\ made.agreed = 0
      BY <2>1 DEF made
    <3>3. QED
      BY <3>1, <3>2 DEF Slots
  <2>3. new # NoSlot
    BY <2>2, SlotIsSome
  <2> HIDE DEF new
  <2>4. /\ SlotTypes' /\ slot'[p] = new /\ Has(p)'
        /\ \A q \in Peers : q # p => slot'[q] = slot[q] /\ created'[q] = created[q]
                                     /\ (Has(q)' <=> Has(q))
    BY <1>2, <1>4, <2>2, <2>3, SlotSet DEF new
  <2>5. created'[p] = n
    BY <1>2, <1>4 DEF SlotTypes
  <2>6. Renews(p)
    BY <2>2, <2>4, <2>5 DEF Renews
  <2>7. RoomTypes' /\ \A q \in Peers : q # p => timer'[q] = timer[q]
    BY <1>1, <1>4 DEF PeerTypes, RoomTypes
  <2>8. QED
    BY <1>1, <2>4, <2>6, <2>7 DEF Others, PeerTypes, SignalTypes, PollTypes, InRelay, Busy
<1>5. QED
  BY <1>1, <1>3, <1>4

\* reconcileRoster keeps, drops or makes the pair.
LEMMA JoinDoes ==
  ASSUME PeerTypes, NEW p \in Peers, Join(p)
  PROVE  /\ PeerTypes' /\ Others(p)
         /\ Keeps(p) \/ Renews(p) \/ (~Has(p)' /\ created'[p] = created[p])
<1> DEFINE listed == Other(p) \in roster
<1>1. /\ ~Joined(p) /\ roster' = roster \cup {p} /\ timer' = [timer EXCEPT ![p] = TRUE]
      /\ Reconcile(p, listed)
      /\ UNCHANGED <<outbox, relay, cursor, poll, closed, faults>>
  BY DEF Join
<1>2. SlotTypes /\ listed \in BOOLEAN
  BY DEF PeerTypes
<1> HIDE DEF listed
<1>3. /\ SlotTypes'
      /\ \A q \in Peers : q # p => slot'[q] = slot[q] /\ created'[q] = created[q]
                                   /\ (Has(q)' <=> Has(q))
      /\ Keeps(p) \/ Renews(p) \/ (~Has(p)' /\ created'[p] = created[p])
  BY <1>1, <1>2, ReconcileTypes DEF Keeps, SameConnection, Renews, Has
<1>4. RoomTypes' /\ \A q \in Peers : q # p => timer'[q] = timer[q]
  BY <1>1 DEF PeerTypes, RoomTypes
<1>5. QED
  BY <1>1, <1>3, <1>4 DEF Others, PeerTypes, SignalTypes, PollTypes, InRelay, Busy

LEMMA CloseDoes ==
  ASSUME PeerTypes, NEW p \in Peers, Close(p)
  PROVE  PeerTypes' /\ Others(p) /\ ~Has(p)' /\ closed'[p] /\ UNCHANGED created
<1>1. SlotTypes /\ SlotTypes' /\ ~Has(p)' /\ UNCHANGED created
      /\ \A q \in Peers : q # p => slot'[q] = slot[q] /\ created'[q] = created[q]
                                   /\ (Has(q)' <=> Has(q))
  BY SlotSet DEF Close, PeerTypes
<1>2. /\ RoomTypes' /\ closed'[p]
      /\ \A q \in Peers : q # p => timer'[q] = timer[q] /\ closed'[q] = closed[q]
  BY DEF PeerTypes, RoomTypes, Close
<1>3. SignalTypes' /\ \A q \in Peers : q # p => outbox'[q] = outbox[q]
  <2>1. /\ outbox' = [outbox EXCEPT ![p] = <<>>] /\ outbox \in [Peers -> Seq(Signals)]
        /\ relay' = relay
    BY DEF PeerTypes, SignalTypes, Close
  <2>2. <<>> \in Seq(Signals) /\ DOMAIN <<>> = {}
    OBVIOUS
  <2>3. outbox' \in [Peers -> Seq(Signals)] /\ outbox'[p] = <<>>
        /\ \A q \in Peers : q # p => outbox'[q] = outbox[q]
    BY <2>1, <2>2
  <2>4. QED
    BY <2>1, <2>2, <2>3 DEF PeerTypes, SignalTypes
<1>4. QED
  BY <1>1, <1>2, <1>3 DEF Close, Others, PeerTypes, PollTypes, InRelay, Busy

LEMMA LeavesDoes ==
  ASSUME PeerTypes, NEW p \in Peers, Leaves(p)
  PROVE  PeerTypes' /\ Others(p) /\ Keeps(p)
<1>1. /\ roster' \subseteq roster
      /\ UNCHANGED <<slot, created, outbox, relay, cursor, poll, timer, closed, faults>>
  BY DEF Leaves
<1>2. SlotTypes' /\ Keeps(p) /\ Others(p)
  BY <1>1 DEF PeerTypes, SlotTypes, Keeps, SameConnection, Has, Others
<1>3. QED
  BY <1>1, <1>2 DEF PeerTypes, SignalTypes, RoomTypes, PollTypes, InRelay, Busy

(***************************************************************************)
(* Signals.                                                                *)
(***************************************************************************)
\* A description and a candidate of the connection p holds are queued.
Queues(p) ==
  \E a, b \in Signals :
    /\ outbox' = [outbox EXCEPT ![p] = @ \o <<a, b>>]
    /\ \A sig \in {a, b} : sig.pc = slot[p].pc /\ (sig.kind = "offer" => sig.type = "offer")

LEMMA TwoMore ==
  ASSUME NEW s \in Seq(Signals), NEW a \in Signals, NEW b \in Signals, NEW t, t = s \o <<a, b>>
  PROVE  /\ t \in Seq(Signals) /\ Len(t) = Len(s) + 2 /\ Len(s) \in Nat
         /\ \A i \in 1..Len(s) : t[i] = s[i]
         /\ t[Len(s) + 1] = a /\ t[Len(s) + 2] = b
         /\ \A i \in DOMAIN t : i \in 1..Len(s) \/ t[i] \in {a, b}
<1>1. t \in Seq(Signals) /\ Len(t) = Len(s) + 2 /\ Len(s) \in Nat
  OBVIOUS
<1>2. \A i \in 1..Len(s) : t[i] = s[i]
  OBVIOUS
<1>3. t[Len(s) + 1] = a /\ t[Len(s) + 2] = b
  OBVIOUS
<1>4. \A i \in DOMAIN t : i \in 1..Len(s) \/ i = Len(s) + 1 \/ i = Len(s) + 2
  BY <1>1
<1>5. QED
  BY <1>1, <1>2, <1>3, <1>4

LEMMA QueuesTypes ==
  ASSUME SignalTypes, NEW p \in Peers, Queues(p), UNCHANGED relay
  PROVE  /\ SignalTypes'
         /\ \A q \in Peers : q # p => outbox'[q] = outbox[q]
<1>1. PICK a \in Signals, b \in Signals :
        /\ outbox' = [outbox EXCEPT ![p] = @ \o <<a, b>>]
        /\ \A sig \in {a, b} : sig.pc = slot[p].pc /\ (sig.kind = "offer" => sig.type = "offer")
  BY DEF Queues
<1>2. outbox \in [Peers -> Seq(Signals)]
  BY DEF SignalTypes
<1>3. outbox'[p] = outbox[p] \o <<a, b>> /\ \A q \in Peers : q # p => outbox'[q] = outbox[q]
  BY <1>1, <1>2
<1>4. /\ outbox'[p] \in Seq(Signals)
      /\ \A i \in DOMAIN outbox'[p] : i \in 1..Len(outbox[p]) \/ outbox'[p][i] \in {a, b}
      /\ \A i \in 1..Len(outbox[p]) : outbox'[p][i] = outbox[p][i]
  BY <1>2, <1>3, TwoMore
<1>5. outbox' \in [Peers -> Seq(Signals)]
  BY <1>1, <1>2, <1>3, <1>4
<1>6. \A i \in DOMAIN outbox'[p] : outbox'[p][i].kind = "offer" => outbox'[p][i].type = "offer"
  <2> TAKE i \in DOMAIN outbox'[p]
  <2>1. CASE i \in 1..Len(outbox[p])
    <3>1. i \in DOMAIN outbox[p] /\ outbox'[p][i] = outbox[p][i]
      BY <1>2, <1>4, <2>1
    <3>2. QED
      BY <3>1 DEF SignalTypes
  <2>2. CASE outbox'[p][i] \in {a, b}
    BY <1>1, <2>2
  <2>3. QED
    BY <1>4, <2>1, <2>2
<1>7. QED
  BY <1>3, <1>5, <1>6 DEF SignalTypes

LEMMA CreateOfferDoes ==
  ASSUME PeerTypes, NEW p \in Peers, CreateOffer(p)
  PROVE  PeerTypes' /\ Others(p) /\ Keeps(p) /\ Has(p) /\ Queues(p)
<1> DEFINE s == [slot[p] EXCEPT !.making = "posting", !.signaling = "have-local-offer"]
           a == Signal("offer", "offer", slot[p].pc)
           b == Signal("ice", "ice", slot[p].pc)
<1>1. /\ Has(p) /\ slot' = [slot EXCEPT ![p] = s]
      /\ outbox' = [outbox EXCEPT ![p] = @ \o <<a, b>>]
      /\ UNCHANGED <<created, relay, cursor, poll, timer, closed, roster, faults>>
  BY DEF CreateOffer
<1>2. SlotTypes /\ SignalTypes /\ slot[p] \in Slots /\ slot[p].pc \in Nat
  BY <1>1, HeldSlot DEF PeerTypes, Slots
<1>3. s \in Slots /\ s.pc = slot[p].pc /\ s.remote = slot[p].remote /\ s.agreed = slot[p].agreed
  BY <1>2 DEF Slots
<1>4. /\ a \in Signals /\ a.pc = slot[p].pc /\ a.type = "offer"
      /\ b \in Signals /\ b.pc = slot[p].pc /\ b.kind # "offer"
  BY <1>2 DEF Signal, Signals
<1> HIDE DEF s, a, b
<1>5. /\ SlotTypes' /\ Keeps(p)
      /\ \A q \in Peers : q # p => slot'[q] = slot[q] /\ created'[q] = created[q]
                                   /\ (Has(q)' <=> Has(q))
  BY <1>1, <1>2, <1>3, Untouched
<1>6. Queues(p)
  BY <1>1, <1>4 DEF Queues
<1>7. SignalTypes' /\ \A q \in Peers : q # p => outbox'[q] = outbox[q]
  BY <1>1, <1>2, <1>6, QueuesTypes
<1>8. QED
  BY <1>1, <1>5, <1>6, <1>7 DEF Others, PeerTypes, RoomTypes, PollTypes, InRelay, Busy

\* The head of the queue is stored, taken off, or both.
Posts(p) ==
  LET q == Other(p) IN
  /\ outbox[p] # <<>> /\ ~closed[p]
  /\ outbox' = outbox \/ outbox' = [outbox EXCEPT ![p] = Tail(@)]
  /\ relay' = relay \/ relay' = [relay EXCEPT ![q] = Append(@, Head(outbox[p]))]

LEMMA PostSignalDoes ==
  ASSUME PeerTypes, NEW p \in Peers, PostSignal(p)
  PROVE  PeerTypes' /\ Others(p) /\ Keeps(p) /\ Posts(p)
<1> DEFINE q == Other(p)
           sig == Head(outbox[p])
           s == [slot[p] EXCEPT !.making = "no"]
<1>1. /\ outbox[p] # <<>> /\ ~closed[p]
      /\ outbox' = outbox \/ outbox' = [outbox EXCEPT ![p] = Tail(@)]
      /\ relay' = relay \/ relay' = [relay EXCEPT ![q] = Append(@, sig)]
      /\ slot' = slot \/ (Has(p) /\ slot' = [slot EXCEPT ![p] = s])
      /\ UNCHANGED <<created, cursor, poll, timer, closed, roster>>
  BY DEF PostSignal, Made
<1>2. SlotTypes /\ SignalTypes /\ q \in Peers /\ q # p
  BY TwoPeers DEF PeerTypes
<1>3. /\ SlotTypes' /\ Keeps(p)
      /\ \A r \in Peers : r # p => slot'[r] = slot[r] /\ created'[r] = created[r]
                                   /\ (Has(r)' <=> Has(r))
  <2>1. CASE slot' = slot
    BY <1>1, <1>2, <2>1 DEF SlotTypes, Keeps, SameConnection, Has
  <2>2. CASE Has(p) /\ slot' = [slot EXCEPT ![p] = s]
    <3>1. slot[p] \in Slots
      BY <1>2, <2>2, HeldSlot
    <3>2. s \in Slots /\ s.pc = slot[p].pc /\ s.remote = slot[p].remote /\ s.agreed = slot[p].agreed
      BY <3>1 DEF Slots
    <3> HIDE DEF s
    <3>3. QED
      BY <1>1, <1>2, <2>2, <3>2, Untouched
  <2>3. QED
    BY <1>1, <2>1, <2>2
<1>4. /\ outbox[p] \in Seq(Signals) /\ relay[q] \in Seq(Signals)
      /\ outbox \in [Peers -> Seq(Signals)] /\ relay \in [Peers -> Seq(Signals)]
  BY <1>2 DEF SignalTypes
<1>5. sig \in Signals /\ 1 \in DOMAIN outbox[p] /\ sig = outbox[p][1]
  BY <1>1, <1>4
<1>6. sig.kind = "offer" => sig.type = "offer"
  BY <1>2, <1>5 DEF SignalTypes
<1> HIDE DEF sig
<1>7. /\ outbox' \in [Peers -> Seq(Signals)] /\ \A r \in Peers : r # p => outbox'[r] = outbox[r]
      /\ outbox'[p] = outbox[p] \/ outbox'[p] = Tail(outbox[p])
  <2> DEFINE rest == Tail(outbox[p])
  <2>1. rest \in Seq(Signals)
    BY <1>1, <1>4
  <2>2. outbox' = outbox \/ outbox' = [outbox EXCEPT ![p] = rest]
    BY <1>1
  <2> HIDE DEF rest
  <2>3. QED
    BY <1>4, <2>1, <2>2 DEF rest
<1>8. \A i \in DOMAIN outbox'[p] : outbox'[p][i] \in {outbox[p][j] : j \in DOMAIN outbox[p]}
  <2> TAKE i \in DOMAIN outbox'[p]
  <2>1. CASE outbox'[p] = Tail(outbox[p])
    <3>1. i + 1 \in DOMAIN outbox[p] /\ Tail(outbox[p])[i] = outbox[p][i + 1]
      BY <1>1, <1>4, <2>1
    <3>2. QED
      BY <2>1, <3>1
  <2>2. QED
    BY <1>7, <2>1
<1>9. /\ relay' \in [Peers -> Seq(Signals)] /\ \A r \in Peers : r # q => relay'[r] = relay[r]
      /\ relay'[q] = relay[q] \/ relay'[q] = Append(relay[q], sig)
  <2> DEFINE more == Append(relay[q], sig)
  <2>1. more \in Seq(Signals)
    BY <1>4, <1>5
  <2>2. relay' = relay \/ relay' = [relay EXCEPT ![q] = more]
    BY <1>1 DEF sig
  <2> HIDE DEF more
  <2>3. QED
    BY <1>2, <1>4, <2>1, <2>2 DEF more
<1>10. /\ Len(relay[q]) \in Nat /\ Len(relay'[q]) \in Nat /\ Len(relay'[q]) >= Len(relay[q])
       /\ \A i \in DOMAIN relay'[q] : \/ i \in DOMAIN relay[q] /\ relay'[q][i] = relay[q][i]
                                      \/ relay'[q][i] = sig
  <2>1. CASE relay'[q] = relay[q]
    BY <1>4, <2>1
  <2>2. CASE relay'[q] = Append(relay[q], sig)
    <3>1. Len(relay'[q]) = Len(relay[q]) + 1 /\ Len(relay[q]) \in Nat
      BY <1>4, <1>5, <2>2
    <3>2. /\ DOMAIN relay'[q] = 1..Len(relay'[q]) /\ DOMAIN relay[q] = 1..Len(relay[q])
          /\ \A i \in 1..Len(relay[q]) : relay'[q][i] = relay[q][i]
          /\ relay'[q][Len(relay[q]) + 1] = sig
      BY <1>4, <1>5, <2>2
    <3>3. QED
      BY <3>1, <3>2
  <2>3. QED
    BY <1>9, <2>1, <2>2
<1>11. SignalTypes'
  <2>1. \A i \in DOMAIN outbox'[p] : outbox'[p][i].kind = "offer" => outbox'[p][i].type = "offer"
    BY <1>2, <1>8 DEF SignalTypes
  <2>2. \A i \in DOMAIN relay'[q] : relay'[q][i].kind = "offer" => relay'[q][i].type = "offer"
    BY <1>2, <1>6, <1>10 DEF SignalTypes
  <2>3. ASSUME NEW r \in Peers
        PROVE  /\ \A i \in DOMAIN outbox'[r] :
                    outbox'[r][i].kind = "offer" => outbox'[r][i].type = "offer"
               /\ \A i \in DOMAIN relay'[r] :
                    relay'[r][i].kind = "offer" => relay'[r][i].type = "offer"
    <3>1. /\ outbox'[r] = outbox[r] \/ r = p
          /\ relay'[r] = relay[r] \/ r = q
      BY <1>7, <1>9
    <3>2. QED
      BY <1>2, <2>1, <2>2, <3>1 DEF SignalTypes
  <2>4. QED
    BY <1>7, <1>9, <2>3 DEF SignalTypes
<1>12. \A r \in Peers : InRelay(r)'
  <2> TAKE r \in Peers
  <2>1. Len(relay[r]) \in Nat /\ Len(relay'[r]) \in Nat /\ Len(relay'[r]) >= Len(relay[r])
    <3>1. relay[r] \in Seq(Signals) /\ (relay'[r] = relay[r] \/ r = q)
      BY <1>4, <1>9
    <3>2. QED
      BY <1>10, <3>1
  <2>2. InRelay(r) /\ cursor[r] \in Nat /\ cursor' = cursor /\ poll' = poll
    BY <1>1 DEF PeerTypes, PollTypes
  <2>3. \A k \in Polls[r] : poll[r][k].upto \in Nat
    BY PollOf DEF PeerTypes
  <2>4. QED
    BY <2>1, <2>2, <2>3 DEF InRelay, Busy
<1>13. RoomTypes' /\ PollTypes'
  BY <1>1 DEF PeerTypes, RoomTypes, PollTypes
<1>14. Posts(p)
  BY <1>1 DEF Posts, sig
<1>15. QED
  BY <1>1, <1>3, <1>7, <1>11, <1>12, <1>13, <1>14 DEF Others, PeerTypes

(***************************************************************************)
(* The handlers of a poll.                                                 *)
(***************************************************************************)
\* A poll moves on and leaves the relay alone.
LEMMA PollMoves ==
  ASSUME PeerTypes, NEW p \in Peers, NEW k \in Polls[p], NEW r \in PollStates,
         poll' = [poll EXCEPT ![p][k] = r],
         r.step # "idle" => /\ r.at <= r.upto /\ r.upto <= Len(relay[p])
                            /\ r.step # "next" => r.at >= 1,
         UNCHANGED relay, cursor' \in [Peers -> Nat], cursor'[p] <= Len(relay[p]),
         \A q \in Peers : q # p => cursor'[q] = cursor[q]
  PROVE  /\ PollTypes' /\ \A q \in Peers : InRelay(q)'
         /\ poll'[p][k] = r /\ \A j \in Polls[p] : j # k => poll'[p][j] = poll[p][j]
         /\ \A q \in Peers : q # p => poll'[q] = poll[q]
<1>1. PollTypes
  BY DEF PeerTypes
<1>2. /\ DOMAIN poll' = Peers /\ poll' = [q \in Peers |-> poll'[q]]
      /\ \A q \in Peers : poll'[q] \in [Polls[q] -> PollStates]
      /\ poll'[p][k] = r /\ \A j \in Polls[p] : j # k => poll'[p][j] = poll[p][j]
      /\ \A q \in Peers : q # p => poll'[q] = poll[q]
  BY <1>1, PollSet
<1>3. PollTypes'
  BY <1>2 DEF PollTypes
<1>4. InRelay(p)'
  BY <1>2 DEF InRelay, Busy, PeerTypes
<1>5. ASSUME NEW q \in Peers, q # p PROVE InRelay(q)'
  BY <1>2, <1>5 DEF InRelay, Busy, PeerTypes
<1>6. QED
  BY <1>2, <1>3, <1>4, <1>5

\* Where a handler is.
LEMMA HandlerAt ==
  ASSUME PeerTypes, NEW p \in Peers, NEW k \in Polls[p], Busy(p, k)
  PROVE  /\ poll[p][k] \in PollStates /\ poll[p][k].at \in Nat /\ poll[p][k].upto \in Nat
         /\ poll[p][k].at <= poll[p][k].upto /\ poll[p][k].upto <= Len(relay[p])
         /\ relay[p] \in Seq(Signals) /\ Len(relay[p]) \in Nat
         /\ cursor[p] \in Nat /\ cursor[p] <= Len(relay[p])
         /\ poll[p][k].step # "next" =>
              /\ poll[p][k].at \in DOMAIN relay[p]
              /\ relay[p][poll[p][k].at] \in Signals
              /\ relay[p][poll[p][k].at].kind = "offer" => relay[p][poll[p][k].at].type = "offer"
<1>1. /\ poll[p][k] \in PollStates /\ poll[p][k].at \in Nat /\ poll[p][k].upto \in Nat
      /\ cursor[p] \in Nat /\ relay[p] \in Seq(Signals) /\ Len(relay[p]) \in Nat
  BY PollOf DEF PeerTypes, SignalTypes
<1>2. /\ poll[p][k].at <= poll[p][k].upto /\ poll[p][k].upto <= Len(relay[p])
      /\ poll[p][k].step # "next" => poll[p][k].at >= 1
      /\ cursor[p] <= Len(relay[p])
  BY DEF PeerTypes, InRelay
<1>3. poll[p][k].step # "next" => poll[p][k].at \in DOMAIN relay[p]
  BY <1>1, <1>2
<1>4. QED
  BY <1>1, <1>2, <1>3 DEF PeerTypes, SignalTypes

\* Only the step of a poll changes.
LEMMA StepMoves ==
  ASSUME PeerTypes, NEW p \in Peers, NEW k \in Polls[p], Busy(p, k),
         NEW step \in {"next", "setLocal", "post"}, Step(p, k, step),
         poll[p][k].step # "next",
         UNCHANGED <<relay, cursor>>
  PROVE  /\ PollTypes' /\ \A q \in Peers : InRelay(q)'
         /\ poll'[p][k] = [poll[p][k] EXCEPT !.step = step]
         /\ \A j \in Polls[p] : j # k => poll'[p][j] = poll[p][j]
         /\ \A q \in Peers : q # p => poll'[q] = poll[q]
<1> DEFINE r == [poll[p][k] EXCEPT !.step = step]
<1>1. poll' = [poll EXCEPT ![p][k] = r]
  BY DEF Step
<1>2. /\ poll[p][k] \in PollStates /\ poll[p][k].at \in Nat /\ poll[p][k].upto \in Nat
      /\ poll[p][k].at <= poll[p][k].upto /\ poll[p][k].upto <= Len(relay[p])
      /\ poll[p][k].at >= 1
      /\ cursor \in [Peers -> Nat] /\ cursor[p] <= Len(relay[p])
  BY HandlerAt DEF PeerTypes, InRelay, PollTypes
<1>3. r \in PollStates /\ r.at = poll[p][k].at /\ r.upto = poll[p][k].upto
  BY <1>2 DEF PollStates
<1> HIDE DEF r
<1>4. QED
  BY <1>1, <1>2, <1>3, PollMoves DEF r

LEMMA PostedDoes ==
  ASSUME PeerTypes, NEW p \in Peers, NEW k \in Polls[p], Posted(p, k)
  PROVE  /\ PeerTypes' /\ Others(p) /\ Keeps(p)
         /\ poll'[p][k] = [poll[p][k] EXCEPT !.step = "next"]
         /\ \A j \in Polls[p] : j # k => poll'[p][j] = poll[p][j]
<1>1. /\ poll[p][k].step = "post" /\ Step(p, k, "next")
      /\ UNCHANGED <<slot, created, outbox, relay, cursor, timer, closed, roster, faults>>
  BY DEF Posted
<1>2. /\ PollTypes' /\ \A q \in Peers : InRelay(q)'
      /\ poll'[p][k] = [poll[p][k] EXCEPT !.step = "next"]
      /\ \A j \in Polls[p] : j # k => poll'[p][j] = poll[p][j]
      /\ \A q \in Peers : q # p => poll'[q] = poll[q]
  BY <1>1, StepMoves DEF Busy
<1>3. SlotTypes' /\ SignalTypes' /\ RoomTypes' /\ Keeps(p)
  BY <1>1 DEF PeerTypes, SlotTypes, SignalTypes, RoomTypes, Keeps, SameConnection, Has
<1>4. QED
  BY <1>1, <1>2, <1>3 DEF PeerTypes, Others, Has

LEMMA SetLocalDoes ==
  ASSUME PeerTypes, NEW p \in Peers, NEW k \in Polls[p], SetLocal(p, k)
  PROVE  /\ PeerTypes' /\ Others(p) /\ Keeps(p)
         /\ UNCHANGED outbox \/ (Has(p) /\ Queues(p))
         /\ poll'[p][k].at = poll[p][k].at /\ poll'[p][k].known = poll[p][k].known
         /\ poll'[p][k].step \in {"next", "post"}
         /\ \A j \in Polls[p] : j # k => poll'[p][j] = poll[p][j]
<1> DEFINE answers == slot[p].signaling = "have-remote-offer"
           s == [slot[p] EXCEPT !.signaling = IF answers THEN "stable" ELSE "have-local-offer"]
           a == Signal("answer", IF answers THEN "answer" ELSE "offer", slot[p].pc)
           b == Signal("ice", "ice", slot[p].pc)
<1>1. /\ poll[p][k].step = "setLocal"
      /\ UNCHANGED <<created, relay, cursor, timer, closed, roster, faults>>
  BY DEF SetLocal
<1>2. SlotTypes /\ SignalTypes
  BY DEF PeerTypes
<1>3. RoomTypes' /\ poll[p][k] \in PollStates
  BY <1>1, PollOf DEF PeerTypes, RoomTypes
<1>4. CASE Step(p, k, "next") /\ UNCHANGED <<slot, outbox>>
  <2>1. /\ PollTypes' /\ \A q \in Peers : InRelay(q)'
        /\ poll'[p][k] = [poll[p][k] EXCEPT !.step = "next"]
        /\ \A j \in Polls[p] : j # k => poll'[p][j] = poll[p][j]
        /\ \A q \in Peers : q # p => poll'[q] = poll[q]
    BY <1>1, <1>4, StepMoves DEF Busy
  <2>2. SlotTypes' /\ SignalTypes' /\ Keeps(p)
    BY <1>1, <1>4 DEF PeerTypes, SlotTypes, SignalTypes, Keeps, SameConnection, Has
  <2>3. /\ poll'[p][k].at = poll[p][k].at /\ poll'[p][k].known = poll[p][k].known
        /\ poll'[p][k].step = "next"
    BY <1>3, <2>1 DEF PollStates
  <2>4. QED
    BY <1>1, <1>3, <1>4, <2>1, <2>2, <2>3 DEF PeerTypes, Others, Has
<1>5. CASE /\ Has(p) /\ slot' = [slot EXCEPT ![p] = s]
           /\ outbox' = [outbox EXCEPT ![p] = @ \o <<a, b>>]
           /\ Step(p, k, "post")
  <2>1. /\ PollTypes' /\ \A q \in Peers : InRelay(q)'
        /\ poll'[p][k] = [poll[p][k] EXCEPT !.step = "post"]
        /\ \A j \in Polls[p] : j # k => poll'[p][j] = poll[p][j]
        /\ \A q \in Peers : q # p => poll'[q] = poll[q]
    BY <1>1, <1>5, StepMoves DEF Busy
  <2>2. slot[p] \in Slots /\ slot[p].pc \in Nat
    BY <1>2, <1>5, HeldSlot DEF Slots
  <2>3. s \in Slots /\ s.pc = slot[p].pc /\ s.remote = slot[p].remote /\ s.agreed = slot[p].agreed
    BY <2>2 DEF Slots
  <2>4. /\ a \in Signals /\ a.pc = slot[p].pc /\ a.kind # "offer"
        /\ b \in Signals /\ b.pc = slot[p].pc /\ b.kind # "offer"
    BY <2>2 DEF Signal, Signals
  <2> HIDE DEF s, a, b
  <2>5. /\ SlotTypes' /\ Keeps(p)
        /\ \A q \in Peers : q # p => slot'[q] = slot[q] /\ created'[q] = created[q]
                                     /\ (Has(q)' <=> Has(q))
    BY <1>1, <1>2, <1>5, <2>3, Untouched
  <2>6. Queues(p)
    BY <1>5, <2>4 DEF Queues
  <2>7. SignalTypes' /\ \A q \in Peers : q # p => outbox'[q] = outbox[q]
    BY <1>1, <1>2, <2>6, QueuesTypes
  <2>8. /\ poll'[p][k].at = poll[p][k].at /\ poll'[p][k].known = poll[p][k].known
        /\ poll'[p][k].step = "post"
    BY <1>3, <2>1 DEF PollStates
  <2>9. QED
    BY <1>1, <1>3, <1>5, <2>1, <2>5, <2>6, <2>7, <2>8 DEF PeerTypes, Others
<1>6. Current(p, k) => Has(p)
  BY DEF Current
<1>7. \/ Step(p, k, "next") /\ UNCHANGED <<slot, outbox>>
      \/ /\ Has(p) /\ slot' = [slot EXCEPT ![p] = s]
         /\ outbox' = [outbox EXCEPT ![p] = @ \o <<a, b>>]
         /\ Step(p, k, "post")
  BY <1>6 DEF SetLocal
<1>8. QED
  BY <1>4, <1>5, <1>7

\* What p knows of the other end is what the signal tells.
LEMMA SetRemoteDoes ==
  ASSUME PeerTypes, NEW p \in Peers, NEW k \in Polls[p], SetRemote(p, k)
  PROVE  /\ PeerTypes' /\ Others(p) /\ SameConnection(p) /\ Has(p) /\ Busy(p, k)
         /\ poll[p][k].step = "setRemote" /\ Current(p, k)
         /\ slot'[p].remote = relay[p][poll[p][k].at].pc /\ slot'[p].agreed = slot'[p].remote
         /\ poll'[p][k].at = poll[p][k].at /\ poll'[p][k].known = poll[p][k].known
         /\ poll'[p][k].step \in {"next", "setLocal"}
         /\ \A j \in Polls[p] : j # k => poll'[p][j] = poll[p][j]
<1> DEFINE sig == relay[p][poll[p][k].at]
           c == (IF slot[p].remote = sig.pc THEN slot[p].candidates ELSE {})
                  \cup (slot[p].pending \cap {sig.pc})
           s == [slot[p] EXCEPT
                  !.signaling = IF sig.type = "offer" THEN "have-remote-offer" ELSE "stable",
                  !.remote = sig.pc, !.agreed = sig.pc, !.candidates = c, !.pending = {}]
           next == IF sig.kind = "offer" THEN "setLocal" ELSE "next"
<1>1. /\ poll[p][k].step = "setRemote" /\ Current(p, k) /\ Has(p) /\ Busy(p, k)
      /\ slot' = [slot EXCEPT ![p] = s] /\ Step(p, k, next)
      /\ UNCHANGED <<created, outbox, relay, cursor, timer, closed, roster, faults>>
  BY DEF SetRemote, Current, Busy
<1>2. next \in {"next", "setLocal"} /\ next \in {"next", "setLocal", "post"}
  OBVIOUS
<1>3. /\ poll[p][k] \in PollStates /\ sig \in Signals
      /\ SlotTypes /\ slot[p] \in Slots
  BY <1>1, HandlerAt, HeldSlot DEF PeerTypes
<1>4. sig.pc \in Nat /\ c \in SUBSET Nat
  BY <1>3 DEF Signals, Slots
<1> HIDE DEF sig, c, next
<1>5. s \in Slots /\ s.pc = slot[p].pc /\ s.remote = sig.pc /\ s.agreed = sig.pc
  BY <1>3, <1>4 DEF Slots
<1> HIDE DEF s
<1>6. /\ PollTypes' /\ \A q \in Peers : InRelay(q)'
      /\ poll'[p][k] = [poll[p][k] EXCEPT !.step = next]
      /\ \A j \in Polls[p] : j # k => poll'[p][j] = poll[p][j]
      /\ \A q \in Peers : q # p => poll'[q] = poll[q]
  <2>1. poll[p][k].step # "next" /\ UNCHANGED <<relay, cursor>>
    BY <1>1
  <2>2. QED
    BY <1>1, <1>2, <2>1, StepMoves
<1>7. /\ poll'[p][k].at = poll[p][k].at /\ poll'[p][k].known = poll[p][k].known
      /\ poll'[p][k].step = next
  BY <1>3, <1>6 DEF PollStates
<1>8. /\ SlotTypes' /\ slot'[p] = s /\ Has(p)'
      /\ \A q \in Peers : q # p => slot'[q] = slot[q] /\ created'[q] = created[q]
                                   /\ (Has(q)' <=> Has(q))
  BY <1>1, <1>3, <1>5, SlotSet, SlotIsSome
<1>9. SameConnection(p) /\ slot'[p].remote = sig.pc /\ slot'[p].agreed = slot'[p].remote
  BY <1>1, <1>5, <1>8 DEF SameConnection
<1>10. SignalTypes' /\ RoomTypes'
  BY <1>1 DEF PeerTypes, SignalTypes, RoomTypes
<1>11. QED
  BY <1>1, <1>2, <1>6, <1>7, <1>8, <1>9, <1>10 DEF PeerTypes, Others, sig

\* An offer that is refused makes a new connection, which the handler goes on with.
LEMMA RejectRemoteDoes ==
  ASSUME PeerTypes, NEW p \in Peers, NEW k \in Polls[p], RejectRemote(p, k)
  PROVE  /\ PeerTypes' /\ Others(p) /\ poll[p][k].step = "setRemote" /\ Busy(p, k)
         /\ \/ Keeps(p) /\ UNCHANGED slot /\ poll'[p][k].step = "next"
            \/ /\ Renews(p) /\ poll'[p][k].step = "setRemote" /\ poll'[p][k].pc = slot'[p].pc
               /\ Rejects(p, k) /\ ~closed[p] /\ relay[p][poll[p][k].at].kind = "offer"
         /\ poll'[p][k].at = poll[p][k].at /\ poll'[p][k].known = poll[p][k].known
         /\ \A j \in Polls[p] : j # k => poll'[p][j] = poll[p][j]
<1> DEFINE attempts == IF Has(p) THEN slot[p].recovery ELSE poll[p][k].recovery
           n == created[p] + 1
           r == [poll[p][k] EXCEPT !.pc = n, !.spent = TRUE]
           s == [NewSlot(n, FALSE) EXCEPT !.recovery = attempts, !.recreated = TRUE]
<1>1. /\ poll[p][k].step = "setRemote" /\ Rejects(p, k) /\ Busy(p, k)
      /\ UNCHANGED <<outbox, relay, cursor, timer, closed, roster, faults>>
  BY DEF RejectRemote, Busy
<1>2. /\ poll[p][k] \in PollStates /\ SlotTypes /\ created[p] \in Nat
      /\ SignalTypes' /\ RoomTypes'
  BY <1>1, HandlerAt, HeldSlot DEF PeerTypes, SignalTypes, RoomTypes
<1>3. CASE ~Rebuilds(p, k)
  <2>1. Step(p, k, "next") /\ UNCHANGED <<slot, created>>
    BY <1>3 DEF RejectRemote
  <2>2. /\ PollTypes' /\ \A q \in Peers : InRelay(q)'
        /\ poll'[p][k] = [poll[p][k] EXCEPT !.step = "next"]
        /\ \A j \in Polls[p] : j # k => poll'[p][j] = poll[p][j]
        /\ \A q \in Peers : q # p => poll'[q] = poll[q]
    BY <1>1, <2>1, StepMoves
  <2>3. /\ poll'[p][k].at = poll[p][k].at /\ poll'[p][k].known = poll[p][k].known
        /\ poll'[p][k].step = "next"
    BY <1>2, <2>2 DEF PollStates
  <2>4. SlotTypes' /\ Keeps(p)
    BY <1>2, <2>1 DEF SlotTypes, Keeps, SameConnection, Has
  <2>5. QED
    BY <1>1, <1>2, <2>1, <2>2, <2>3, <2>4 DEF PeerTypes, Others, Has
<1>4. CASE Rebuilds(p, k)
  <2>1. /\ slot' = [slot EXCEPT ![p] = s] /\ created' = [created EXCEPT ![p] = @ + 1]
        /\ poll' = [poll EXCEPT ![p][k] = r]
    <3>1. /\ slot' = [slot EXCEPT ![p] = s] /\ created' = [created EXCEPT ![p] = @ + 1]
          /\ poll' = [poll EXCEPT ![p][k].pc = n, ![p][k].spent = TRUE]
      BY <1>4 DEF RejectRemote
    <3>2. PollTypes
      BY DEF PeerTypes
    <3> HIDE DEF n, s
    <3>3. [poll EXCEPT ![p][k].pc = n, ![p][k].spent = TRUE] = [poll EXCEPT ![p][k] = r]
      <4> DEFINE a == [poll[p][k] EXCEPT !.pc = n]
                 f == [poll EXCEPT ![p] = [poll[p] EXCEPT ![k] = a]]
      <4>1. DOMAIN poll = Peers /\ DOMAIN poll[p] = Polls[p]
        BY <3>2 DEF PollTypes
      <4>2. f[p] = [poll[p] EXCEPT ![k] = a] /\ f[p][k] = a
        BY <4>1
      <4>3. [f[p] EXCEPT ![k] = r] = [poll[p] EXCEPT ![k] = r]
        BY <4>1, <4>2
      <4>4. [f EXCEPT ![p] = [f[p] EXCEPT ![k] = r]] = [poll EXCEPT ![p] = [poll[p] EXCEPT ![k] = r]]
        BY <4>1, <4>3
      <4>5. [f EXCEPT ![p] = [f[p] EXCEPT ![k] = r]] = [f EXCEPT ![p][k].spent = TRUE]
        BY <4>2
      <4>6. QED
        BY <4>4, <4>5
    <3> HIDE DEF r
    <3>4. QED
      BY <3>1, <3>3
  <2>2. attempts \in Nat
    BY <1>2, HeldSlot DEF Slots, PollStates
  <2>3. n \in Nat
    BY <1>2
  <2> HIDE DEF attempts, n
  <2>4. s \in Slots /\ s.pc = n /\ s.remote = 0 /\ s.agreed = 0
    <3>1. /\ NewSlot(n, FALSE) \in Slots /\ NewSlot(n, FALSE).pc = n
          /\ NewSlot(n, FALSE).remote = 0 /\ NewSlot(n, FALSE).agreed = 0
      BY <2>3, NewSlots
    <3>2. QED
      BY <2>2, <3>1 DEF Slots
  <2>5. /\ r \in PollStates /\ r.pc = n /\ r.step = "setRemote" /\ r.at = poll[p][k].at
        /\ r.upto = poll[p][k].upto /\ r.known = poll[p][k].known
    BY <1>1, <1>2, <2>3 DEF PollStates
  <2> HIDE DEF r, s
  <2>6. /\ SlotTypes' /\ slot'[p] = s /\ Has(p)'
        /\ \A q \in Peers : q # p => slot'[q] = slot[q] /\ created'[q] = created[q]
                                     /\ (Has(q)' <=> Has(q))
    BY <1>2, <2>1, <2>4, SlotSet, SlotIsSome
  <2>7. created'[p] = n
    BY <1>2, <2>1 DEF SlotTypes, n
  <2>8. /\ r.step # "idle" => /\ r.at <= r.upto /\ r.upto <= Len(relay[p])
                              /\ r.step # "next" => r.at >= 1
        /\ cursor' \in [Peers -> Nat] /\ cursor'[p] <= Len(relay[p])
        /\ \A q \in Peers : q # p => cursor'[q] = cursor[q]
    BY <1>1, <2>5 DEF PeerTypes, InRelay, PollTypes
  <2>9. /\ PollTypes' /\ \A q \in Peers : InRelay(q)'
        /\ poll'[p][k] = r /\ \A j \in Polls[p] : j # k => poll'[p][j] = poll[p][j]
        /\ \A q \in Peers : q # p => poll'[q] = poll[q]
    BY <1>1, <2>1, <2>5, <2>8, PollMoves
  <2>10. Renews(p)
    BY <2>4, <2>6, <2>7 DEF Renews, n
  <2>11. ~closed[p] /\ relay[p][poll[p][k].at].kind = "offer"
    BY <1>4 DEF Rebuilds
  <2>12. QED
    BY <1>1, <1>2, <2>4, <2>5, <2>6, <2>9, <2>10, <2>11 DEF PeerTypes, Others
<1>5. QED
  BY <1>3, <1>4

\* onSignal with the slot s, which is new or the one that is held.
LEMMA HandleDoes ==
  ASSUME PeerTypes, NEW p \in Peers, NEW k \in Polls[p], Busy(p, k), poll[p][k].step = "next",
         NEW s \in Slots, NEW sig \in Signals, Handle(p, k, sig, s)
  PROVE  \E t \in Slots, r \in PollStates :
           /\ slot' = [slot EXCEPT ![p] = t]
           /\ t.pc = s.pc /\ t.remote = s.remote /\ t.agreed = s.agreed
           /\ poll' = [poll EXCEPT ![p][k] = r]
           /\ r.at = poll[p][k].at + 1 /\ r.upto = poll[p][k].upto /\ r.known = poll[p][k].known
           /\ r.step = "next" \/ (r.step = "setRemote" /\ r.pc = s.pc)
<1> DEFINE here == [poll[p][k] EXCEPT !.at = @ + 1]
           held == [s EXCEPT !.pending = IF s.remote = 0 THEN @ \cup {sig.pc} ELSE @,
                             !.candidates = IF s.remote = sig.pc THEN @ \cup {sig.pc} ELSE @]
           waits == [here EXCEPT !.step = "setRemote", !.pc = s.pc, !.recovery = s.recovery,
                                 !.spent = s.recreated]
<1>1. poll[p][k] \in PollStates /\ poll[p][k].at \in Nat /\ sig.pc \in Nat
  BY HandlerAt DEF Signals
<1>2. /\ here \in PollStates /\ here.at = poll[p][k].at + 1 /\ here.upto = poll[p][k].upto
      /\ here.known = poll[p][k].known /\ here.step = "next"
  BY <1>1 DEF PollStates
<1>3. held \in Slots /\ held.pc = s.pc /\ held.remote = s.remote /\ held.agreed = s.agreed
  BY <1>1 DEF Slots
<1>4. \/ poll' = [poll EXCEPT ![p][k] = here] /\ slot' = [slot EXCEPT ![p] = held]
      \/ poll' = [poll EXCEPT ![p][k] = here] /\ slot' = [slot EXCEPT ![p] = s]
      \/ poll' = [poll EXCEPT ![p][k] = waits] /\ slot' = [slot EXCEPT ![p] = s]
  BY DEF Handle
<1>5. /\ waits \in PollStates /\ waits.at = here.at /\ waits.upto = here.upto
      /\ waits.known = here.known /\ waits.step = "setRemote" /\ waits.pc = s.pc
  <2> HIDE DEF here
  <2>1. s.pc \in Nat /\ s.recovery \in Nat /\ s.recreated \in BOOLEAN
    BY DEF Slots
  <2>2. QED
    BY <1>2, <2>1 DEF PollStates
<1> HIDE DEF here, held, waits
<1>6. QED
  BY <1>2, <1>3, <1>4, <1>5

\* One more signal is read.
LEMMA TakeDoes ==
  ASSUME PeerTypes, NEW p \in Peers, NEW k \in Polls[p], Take(p, k)
  PROVE  /\ PeerTypes' /\ Others(p) /\ Busy(p, k) /\ poll[p][k].step = "next" /\ ~closed[p]
         /\ poll[p][k].at + 1 \in DOMAIN relay[p]
         /\ Keeps(p) \/ (Renews(p) /\ ~Has(p) /\ poll[p][k].known)
         /\ cursor'[p] = IF poll[p][k].at + 1 > cursor[p] THEN poll[p][k].at + 1 ELSE cursor[p]
         /\ poll'[p][k].at = poll[p][k].at + 1 /\ poll'[p][k].known = poll[p][k].known
         /\ \/ poll'[p][k].step = "next"
            \/ poll'[p][k].step = "setRemote" /\ Has(p)' /\ poll'[p][k].pc = slot'[p].pc
         /\ \A j \in Polls[p] : j # k => poll'[p][j] = poll[p][j]
<1> DEFINE n == poll[p][k].at + 1
           sig == relay[p][n]
           fresh == NewSlot(created[p] + 1, FALSE)
           skip == [poll[p][k] EXCEPT !.at = n]
<1>1. /\ poll[p][k].step = "next" /\ ~closed[p] /\ poll[p][k].at < poll[p][k].upto
      /\ Busy(p, k)
      /\ cursor' = [cursor EXCEPT ![p] = IF n > @ THEN n ELSE @]
      /\ UNCHANGED <<outbox, relay, timer, closed, roster, faults>>
  BY DEF Take, Busy
<1>2. /\ poll[p][k] \in PollStates /\ poll[p][k].at \in Nat /\ poll[p][k].upto \in Nat
      /\ poll[p][k].at <= poll[p][k].upto /\ poll[p][k].upto <= Len(relay[p])
      /\ relay[p] \in Seq(Signals) /\ Len(relay[p]) \in Nat
      /\ cursor[p] \in Nat /\ cursor[p] <= Len(relay[p])
  BY <1>1, HandlerAt
<1>3. n \in Nat /\ n <= poll[p][k].upto /\ n \in DOMAIN relay[p] /\ sig \in Signals
  BY <1>1, <1>2
<1>4. SlotTypes /\ created[p] \in Nat /\ SignalTypes' /\ RoomTypes' /\ cursor \in [Peers -> Nat]
  BY <1>1, HeldSlot DEF PeerTypes, SignalTypes, RoomTypes, PollTypes
<1>5. /\ cursor' \in [Peers -> Nat] /\ \A q \in Peers : q # p => cursor'[q] = cursor[q]
      /\ cursor'[p] = (IF n > cursor[p] THEN n ELSE cursor[p]) /\ cursor'[p] <= Len(relay[p])
  <2>1. (IF n > cursor[p] THEN n ELSE cursor[p]) \in 0..Len(relay[p])
    BY <1>2, <1>3
  <2>2. QED
    BY <1>1, <1>4, <2>1
<1> HIDE DEF n, sig
<1>6. \E s \in Slots : \/ Has(p) /\ s = slot[p]
                       \/ /\ ~Has(p) /\ s.pc = created[p] + 1 /\ s.remote = 0 /\ s.agreed = 0
                          /\ s = fresh
  <2>1. /\ fresh \in Slots /\ fresh.pc = created[p] + 1
        /\ fresh.remote = 0 /\ fresh.agreed = 0
    <3> DEFINE next == created[p] + 1
    <3>1. next \in Nat
      BY <1>4
    <3> HIDE DEF next
    <3>2. /\ NewSlot(next, FALSE) \in Slots /\ NewSlot(next, FALSE).pc = next
          /\ NewSlot(next, FALSE).remote = 0 /\ NewSlot(next, FALSE).agreed = 0
      BY <3>1, NewSlots
    <3>3. QED
      BY <3>2 DEF next
  <2>2. Has(p) => slot[p] \in Slots
    BY <1>4, HeldSlot
  <2> HIDE DEF fresh
  <2>3. QED
    BY <2>1, <2>2
<1>7. PICK s \in Slots : \/ Has(p) /\ s = slot[p]
                         \/ /\ ~Has(p) /\ s.pc = created[p] + 1 /\ s.remote = 0 /\ s.agreed = 0
                            /\ s = fresh
  BY <1>6
<1>8. \/ Has(p) /\ Handle(p, k, sig, s) /\ UNCHANGED created
      \/ /\ ~Has(p) /\ poll[p][k].known /\ Handle(p, k, sig, s)
         /\ created' = [created EXCEPT ![p] = @ + 1]
      \/ /\ ~Has(p) /\ poll' = [poll EXCEPT ![p][k].at = n] /\ UNCHANGED <<slot, created>>
  <2>1. \/ Has(p) /\ Handle(p, k, sig, slot[p]) /\ UNCHANGED created
        \/ /\ ~Has(p) /\ poll[p][k].known /\ Handle(p, k, sig, fresh)
           /\ created' = [created EXCEPT ![p] = @ + 1]
        \/ /\ ~Has(p) /\ poll' = [poll EXCEPT ![p][k].at = n] /\ UNCHANGED <<slot, created>>
    BY DEF Take, n, sig
  <2> HIDE DEF fresh
  <2>2. QED
    BY <1>7, <2>1
<1>9. CASE ~Has(p) /\ poll' = [poll EXCEPT ![p][k].at = n] /\ UNCHANGED <<slot, created>>
  <2>1. poll' = [poll EXCEPT ![p][k] = skip]
    BY <1>9
  <2>2. /\ skip \in PollStates /\ skip.at = n /\ skip.upto = poll[p][k].upto
        /\ skip.step = "next" /\ skip.known = poll[p][k].known
    BY <1>1, <1>2, <1>3 DEF PollStates
  <2> HIDE DEF skip
  <2>3. /\ PollTypes' /\ \A q \in Peers : InRelay(q)'
        /\ poll'[p][k] = skip /\ \A j \in Polls[p] : j # k => poll'[p][j] = poll[p][j]
        /\ \A q \in Peers : q # p => poll'[q] = poll[q]
    BY <1>1, <1>2, <1>3, <1>5, <2>1, <2>2, PollMoves
  <2>4. SlotTypes' /\ Keeps(p)
    BY <1>4, <1>9 DEF SlotTypes, Keeps, SameConnection, Has
  <2>5. QED
    BY <1>1, <1>3, <1>4, <1>5, <1>9, <2>2, <2>3, <2>4 DEF PeerTypes, Others, Has, n
<1>10. CASE \/ Has(p) /\ Handle(p, k, sig, s) /\ UNCHANGED created
            \/ /\ ~Has(p) /\ poll[p][k].known /\ Handle(p, k, sig, s)
               /\ created' = [created EXCEPT ![p] = @ + 1]
  <2>1. PICK t \in Slots, r \in PollStates :
           /\ slot' = [slot EXCEPT ![p] = t]
           /\ t.pc = s.pc /\ t.remote = s.remote /\ t.agreed = s.agreed
           /\ poll' = [poll EXCEPT ![p][k] = r]
           /\ r.at = poll[p][k].at + 1 /\ r.upto = poll[p][k].upto /\ r.known = poll[p][k].known
           /\ r.step = "next" \/ (r.step = "setRemote" /\ r.pc = s.pc)
    BY <1>1, <1>3, <1>10, HandleDoes
  <2>2. r.at = n
    BY <2>1 DEF n
  <2>3. /\ PollTypes' /\ \A q \in Peers : InRelay(q)'
        /\ poll'[p][k] = r /\ \A j \in Polls[p] : j # k => poll'[p][j] = poll[p][j]
        /\ \A q \in Peers : q # p => poll'[q] = poll[q]
    <3>1. r.at <= r.upto /\ r.upto <= Len(relay[p]) /\ r.at >= 1
      BY <1>2, <1>3, <2>1, <2>2 DEF n
    <3>2. UNCHANGED relay
      BY <1>1
    <3>3. QED
      BY <1>5, <2>1, <3>1, <3>2, PollMoves
  <2>4. /\ SlotTypes' /\ slot'[p] = t /\ Has(p)'
        /\ \A q \in Peers : q # p => slot'[q] = slot[q] /\ created'[q] = created[q]
                                     /\ (Has(q)' <=> Has(q))
    BY <1>4, <1>10, <2>1, SlotSet, SlotIsSome
  <2>5. Keeps(p) \/ (Renews(p) /\ ~Has(p) /\ poll[p][k].known)
    <3>1. CASE Has(p) /\ UNCHANGED created
      BY <1>7, <2>1, <2>4, <3>1 DEF Keeps, SameConnection
    <3>2. CASE ~Has(p) /\ poll[p][k].known /\ created' = [created EXCEPT ![p] = @ + 1]
      <4>1. created'[p] = created[p] + 1
        BY <1>4, <3>2 DEF SlotTypes
      <4>2. QED
        BY <1>7, <2>1, <2>4, <3>2, <4>1 DEF Renews
    <3>3. QED
      BY <1>10, <3>1, <3>2
  <2>6. QED
    BY <1>1, <1>3, <1>4, <1>5, <2>1, <2>2, <2>3, <2>4, <2>5 DEF PeerTypes, Others, n
<1>11. QED
  BY <1>8, <1>9, <1>10

\* pollOnce keeps the pair, makes it or drops it.
LEMMA PollDoes ==
  ASSUME PeerTypes, NEW p \in Peers, NEW k \in Polls[p], Poll(p, k)
  PROVE  /\ PeerTypes' /\ Others(p) /\ timer[p] /\ ~closed[p] /\ ~Busy(p, k)
         /\ \/ Keeps(p) /\ (Has(p) => Other(p) \in roster)
            \/ Renews(p) /\ ~Has(p) /\ Other(p) \in roster
            \/ ~Has(p)' /\ created'[p] = created[p] /\ Has(p) /\ Other(p) \notin roster
         /\ \/ poll' = poll /\ timer'[p]
            \/ /\ ~timer'[p] /\ poll'[p][k].at = cursor[p] /\ poll'[p][k].step = "next"
               /\ poll'[p][k].known => Other(p) \in roster
               /\ \A j \in Polls[p] : j # k => poll'[p][j] = poll[p][j]
<1> DEFINE listed == Other(p) \in roster
           news == cursor[p] < Len(relay[p])
           r == [NoPoll EXCEPT !.at = cursor[p], !.upto = Len(relay[p]), !.step = "next",
                               !.known = listed]
<1>1. /\ timer[p] /\ ~closed[p] /\ ~Busy(p, k)
      /\ Reconcile(p, listed)
      /\ timer' = [timer EXCEPT ![p] = ~news]
      /\ poll' = IF news THEN [poll EXCEPT ![p][k] = r] ELSE poll
      /\ UNCHANGED <<outbox, relay, cursor, closed, roster, faults>>
  BY DEF Poll
<1>2. /\ SlotTypes /\ listed \in BOOLEAN /\ news \in BOOLEAN
      /\ cursor[p] \in Nat /\ Len(relay[p]) \in Nat /\ cursor[p] <= Len(relay[p])
  BY DEF PeerTypes, PollTypes, SignalTypes, InRelay
<1>3. /\ SlotTypes'
      /\ \A q \in Peers : q # p => slot'[q] = slot[q] /\ created'[q] = created[q]
                                   /\ (Has(q)' <=> Has(q))
      /\ \/ Keeps(p) /\ (Has(p) => Other(p) \in roster)
         \/ Renews(p) /\ ~Has(p) /\ Other(p) \in roster
         \/ ~Has(p)' /\ created'[p] = created[p] /\ Has(p) /\ Other(p) \notin roster
  <2>1. CASE listed <=> Has(p)
    BY <1>1, <1>2, <2>1, ReconcileTypes DEF Keeps, SameConnection, Has
  <2>2. CASE listed /\ ~Has(p)
    BY <1>1, <1>2, <2>2, ReconcileTypes DEF Renews
  <2>3. CASE ~listed /\ Has(p)
    BY <1>1, <1>2, <2>3, ReconcileTypes
  <2>4. QED
    BY <2>1, <2>2, <2>3
<1>4. /\ SignalTypes' /\ RoomTypes' /\ timer'[p] = ~news
      /\ \A q \in Peers : q # p => timer'[q] = timer[q]
  BY <1>1, <1>2 DEF PeerTypes, SignalTypes, RoomTypes
<1>5. /\ PollTypes' /\ \A q \in Peers : InRelay(q)'
      /\ \A q \in Peers : q # p => poll'[q] = poll[q]
      /\ \/ poll' = poll /\ timer'[p]
         \/ /\ ~timer'[p] /\ poll'[p][k].at = cursor[p] /\ poll'[p][k].step = "next"
            /\ poll'[p][k].known => Other(p) \in roster
            /\ \A j \in Polls[p] : j # k => poll'[p][j] = poll[p][j]
  <2>1. CASE news
    <3>1. /\ r \in PollStates /\ r.at = cursor[p] /\ r.upto = Len(relay[p]) /\ r.step = "next"
          /\ r.known = listed
      <4> HIDE DEF listed
      <4>1. QED
        BY <1>2 DEF NoPoll, PollStates
    <3>2. poll' = [poll EXCEPT ![p][k] = r]
      BY <1>1, <2>1
    <3> HIDE DEF r
    <3>3. /\ cursor' \in [Peers -> Nat] /\ cursor'[p] <= Len(relay[p]) /\ UNCHANGED relay
          /\ \A q \in Peers : q # p => cursor'[q] = cursor[q]
      BY <1>1, <1>2 DEF PeerTypes, PollTypes
    <3>4. /\ PollTypes' /\ \A q \in Peers : InRelay(q)'
          /\ poll'[p][k] = r /\ \A j \in Polls[p] : j # k => poll'[p][j] = poll[p][j]
          /\ \A q \in Peers : q # p => poll'[q] = poll[q]
      <4>1. r.at <= r.upto /\ r.upto <= Len(relay[p]) /\ r.step = "next"
        BY <1>2, <3>1
      <4>2. QED
        BY <3>1, <3>2, <3>3, <4>1, PollMoves
    <3>5. QED
      BY <1>4, <2>1, <3>1, <3>4
  <2>2. CASE ~news
    <3>1. poll' = poll /\ UNCHANGED <<cursor, relay>>
      BY <1>1, <2>2
    <3>2. QED
      BY <1>4, <2>2, <3>1 DEF PeerTypes, PollTypes, InRelay, Busy
  <2>3. QED
    BY <2>1, <2>2
<1>6. QED
  BY <1>1, <1>3, <1>4, <1>5 DEF PeerTypes, Others

\* The last one that is answered forgets what all have read.
LEMMA EndPollDoes ==
  ASSUME PeerTypes, NEW p \in Peers, NEW k \in Polls[p], EndPoll(p, k)
  PROVE  /\ PeerTypes' /\ Others(p) /\ Keeps(p) /\ Busy(p, k)
         /\ poll'[p][k] = NoPoll /\ \A j \in Polls[p] : j # k => poll'[p][j] = poll[p][j]
         /\ \A q \in Peers : q # p => relay'[q] = relay[q]
         /\ \/ relay'[p] = relay[p] /\ cursor'[p] = cursor[p]
            \/ /\ relay'[p] = <<>> /\ cursor'[p] = 0
               /\ \A j \in Polls[p] \ {k} : ~Busy(p, j)
<1> DEFINE read == cursor[p] = Len(relay[p]) /\ \A j \in Polls[p] \ {k} : ~Busy(p, j)
<1>1. /\ Busy(p, k) /\ poll' = [poll EXCEPT ![p][k] = NoPoll]
      /\ timer' = [timer EXCEPT ![p] = ~closed[p]]
      /\ relay' = [relay EXCEPT ![p] = IF read THEN <<>> ELSE @]
      /\ cursor' = [cursor EXCEPT ![p] = IF read THEN 0 ELSE @]
      /\ UNCHANGED <<slot, created, outbox, closed, roster, faults>>
  BY DEF EndPoll, Busy
<1>2. NoPoll \in PollStates /\ NoPoll.step = "idle" /\ PollTypes
  BY DEF NoPoll, PollStates, PeerTypes
<1>3. /\ DOMAIN poll' = Peers /\ poll' = [q \in Peers |-> poll'[q]]
      /\ \A q \in Peers : poll'[q] \in [Polls[q] -> PollStates]
      /\ poll'[p][k] = NoPoll /\ \A j \in Polls[p] : j # k => poll'[p][j] = poll[p][j]
      /\ \A q \in Peers : q # p => poll'[q] = poll[q]
  BY <1>1, <1>2, PollSet
<1>4. /\ relay \in [Peers -> Seq(Signals)] /\ cursor \in [Peers -> Nat]
      /\ <<>> \in Seq(Signals) /\ DOMAIN <<>> = {} /\ Len(<<>>) = 0
  BY DEF PeerTypes, SignalTypes, PollTypes
<1>5. /\ relay' \in [Peers -> Seq(Signals)] /\ cursor' \in [Peers -> Nat]
      /\ \A q \in Peers : q # p => relay'[q] = relay[q] /\ cursor'[q] = cursor[q]
      /\ \/ relay'[p] = relay[p] /\ cursor'[p] = cursor[p]
         \/ relay'[p] = <<>> /\ cursor'[p] = 0 /\ read
  <2>1. CASE read
    BY <1>1, <1>4, <2>1
  <2>2. CASE ~read
    BY <1>1, <1>4, <2>2
  <2>3. QED
    BY <2>1, <2>2
<1>6. InRelay(p)'
  <2>1. \A j \in Polls[p] : Busy(p, j)' => j # k /\ Busy(p, j) /\ poll'[p][j] = poll[p][j]
    BY <1>2, <1>3 DEF Busy
  <2>2. InRelay(p)
    BY DEF PeerTypes
  <2>3. CASE relay'[p] = relay[p] /\ cursor'[p] = cursor[p]
    BY <2>1, <2>2, <2>3 DEF InRelay
  <2>4. CASE relay'[p] = <<>> /\ cursor'[p] = 0 /\ read
    BY <1>4, <2>1, <2>4 DEF InRelay
  <2>5. QED
    BY <1>5, <2>3, <2>4
<1>7. \A q \in Peers : InRelay(q)'
  <2>1. ASSUME NEW q \in Peers, q # p PROVE InRelay(q)'
    <3>1. InRelay(q)
      BY DEF PeerTypes
    <3>2. poll'[q] = poll[q] /\ relay'[q] = relay[q] /\ cursor'[q] = cursor[q]
      BY <1>3, <1>5, <2>1
    <3>3. QED
      BY <3>1, <3>2 DEF InRelay, Busy
  <2>2. QED
    BY <1>6, <2>1
<1>8. SignalTypes' /\ PollTypes'
  <2>1. \A q \in Peers : relay'[q] = relay[q] \/ relay'[q] = <<>>
    BY <1>5
  <2>2. QED
    BY <1>1, <1>3, <1>4, <1>5, <2>1 DEF SignalTypes, PollTypes, PeerTypes
<1>9. /\ RoomTypes' /\ SlotTypes' /\ Keeps(p) /\ \A q \in Peers : q # p => timer'[q] = timer[q]
  BY <1>1 DEF PeerTypes, RoomTypes, SlotTypes, Keeps, SameConnection, Has
<1>10. QED
  BY <1>1, <1>3, <1>5, <1>7, <1>8, <1>9 DEF PeerTypes, Others, Has

(***************************************************************************)
(* The last connection, and the order of the signals.                      *)
(***************************************************************************)
LEMMA LastKept ==
  ASSUME PeerTypes, LastCreated, NEW p \in Peers, Others(p),
         \/ SameConnection(p)
         \/ Renews(p) /\ ~closed[p]
         \/ ~Has(p)',
         closed'[p] => closed[p] \/ ~Has(p)',
         "close" \in faults' => "close" \in faults \/ closed'[p],
         closed[p] => closed'[p]
  PROVE  LastCreated'
<1>1. created[p] \in Nat /\ \A q \in Peers : q = p \/ q # p
  BY HeldSlot DEF PeerTypes
<1>2. \A q \in Peers : Has(q)' => slot'[q].pc = created'[q] /\ created'[q] >= 1
  <2>1. Has(p)' => slot'[p].pc = created'[p] /\ created'[p] >= 1
    <3>1. CASE SameConnection(p)
      BY <3>1 DEF LastCreated, SameConnection
    <3>2. CASE Renews(p)
      BY <1>1, <3>2 DEF Renews
    <3>3. QED
      BY <3>1, <3>2
  <2>2. QED
    BY <2>1 DEF LastCreated, Others
<1>3. \A q \in Peers : closed'[q] => ~Has(q)'
  <2>1. closed'[p] => ~Has(p)'
    BY DEF LastCreated, SameConnection
  <2>2. QED
    BY <2>1 DEF LastCreated, Others
<1>4. "close" \in faults' => \E q \in Peers : closed'[q]
  BY DEF LastCreated, Others
<1>5. QED
  BY <1>2, <1>3, <1>4 DEF LastCreated

\* Connections may be created; nothing is posted.
LEMMA OrderKept ==
  ASSUME PeerTypes, SignalsInOrder,
         \A r \in Peers : outbox'[r] = outbox[r] \/ DOMAIN outbox'[r] = {},
         \A r \in Peers : relay'[r] = relay[r] \/ DOMAIN relay'[r] = {},
         \A r \in Peers : created'[r] \in {created[r], created[r] + 1}
  PROVE  SignalsInOrder'
<1> SUFFICES ASSUME NEW r \in Peers PROVE InOrder(r)'
  BY DEF SignalsInOrder
<1>1. InOrder(r) /\ Other(r) \in Peers /\ created[r] \in Nat
  BY TwoPeers, HeldSlot DEF SignalsInOrder, PeerTypes
<1>2. /\ \A i \in DOMAIN outbox[r] : outbox[r][i].pc \in Nat
      /\ \A i \in DOMAIN relay[Other(r)] : relay[Other(r)][i].pc \in Nat
  <2>1. outbox[r] \in Seq(Signals) /\ relay[Other(r)] \in Seq(Signals)
    BY <1>1 DEF PeerTypes, SignalTypes
  <2>2. \A sig \in Signals : sig.pc \in Nat
    BY DEF Signals
  <2>3. QED
    BY <2>1, <2>2
<1>3. /\ outbox'[r] = outbox[r] \/ DOMAIN outbox'[r] = {}
      /\ relay'[Other(r)] = relay[Other(r)] \/ DOMAIN relay'[Other(r)] = {}
      /\ created'[r] \in {created[r], created[r] + 1}
  BY <1>1
<1>4. QED
  BY <1>1, <1>2, <1>3 DEF InOrder

LEMMA OrderQueued ==
  ASSUME PeerTypes, LastCreated, SignalsInOrder, NEW p \in Peers,
         Queues(p), Has(p), UNCHANGED <<created, relay>>
  PROVE  SignalsInOrder'
<1>1. PICK a \in Signals, b \in Signals :
        /\ outbox' = [outbox EXCEPT ![p] = @ \o <<a, b>>]
        /\ a.pc = created[p] /\ b.pc = created[p]
  BY DEF Queues, LastCreated
<1>2. outbox \in [Peers -> Seq(Signals)] /\ outbox[p] \in Seq(Signals) /\ created[p] \in Nat
  BY HeldSlot DEF PeerTypes, SignalTypes
<1>3. outbox'[p] = outbox[p] \o <<a, b>> /\ \A q \in Peers : q # p => outbox'[q] = outbox[q]
  BY <1>1, <1>2
<1> DEFINE l == Len(outbox[p])
<1>4. /\ outbox'[p] \in Seq(Signals) /\ l \in Nat /\ DOMAIN outbox[p] = 1..l
      /\ DOMAIN outbox'[p] = 1..(l + 2)
      /\ \A i \in 1..l : outbox'[p][i] = outbox[p][i]
      /\ \A i \in DOMAIN outbox'[p] : i \in 1..l \/ outbox'[p][i].pc = created[p]
  BY <1>1, <1>2, <1>3, TwoMore
<1> HIDE DEF l
<1>5. ASSUME NEW r \in Peers, r # p PROVE InOrder(r)'
  BY <1>1, <1>3, <1>5 DEF SignalsInOrder, InOrder
<1>6. InOrder(p)'
  <2>1. InOrder(p)
    BY DEF SignalsInOrder
  <2>2. \A i, j \in DOMAIN outbox'[p] : i < j => outbox'[p][i].pc <= outbox'[p][j].pc
    <3> TAKE i, j \in DOMAIN outbox'[p]
    <3>1. CASE j \in 1..l
      <4>1. i < j => i \in 1..l
        BY <1>4, <3>1
      <4>2. QED
        BY <1>4, <2>1, <3>1, <4>1 DEF InOrder
    <3>2. CASE outbox'[p][j].pc = created[p]
      <4>1. CASE i \in 1..l
        BY <1>4, <2>1, <3>2, <4>1 DEF InOrder
      <4>2. CASE outbox'[p][i].pc = created[p]
        BY <1>2, <3>2, <4>2
      <4>3. QED
        BY <1>4, <4>1, <4>2
    <3>3. QED
      BY <1>4, <3>1, <3>2
  <2>3. \A i \in DOMAIN relay[Other(p)], j \in DOMAIN outbox'[p] :
           relay[Other(p)][i].pc <= outbox'[p][j].pc
    BY <1>4, <2>1 DEF InOrder
  <2>4. \A j \in DOMAIN outbox'[p] : outbox'[p][j].pc <= created[p]
    BY <1>2, <1>4, <2>1 DEF InOrder
  <2>5. QED
    BY <2>1, <2>2, <2>3, <2>4 DEF InOrder
<1>7. QED
  BY <1>5, <1>6 DEF SignalsInOrder

LEMMA OrderPosted ==
  ASSUME PeerTypes, SignalsInOrder, NEW p \in Peers, Posts(p), UNCHANGED created
  PROVE  /\ SignalsInOrder'
         /\ \A j \in DOMAIN outbox'[p] : \E i \in DOMAIN outbox[p] : outbox'[p][j] = outbox[p][i]
         /\ \A q \in Peers : q # p => outbox'[q] = outbox[q]
         /\ \A j \in DOMAIN relay'[Other(p)] :
              \/ j \in DOMAIN relay[Other(p)] /\ relay'[Other(p)][j] = relay[Other(p)][j]
              \/ \E i \in DOMAIN outbox[p] : relay'[Other(p)][j] = outbox[p][i]
         /\ \A j \in DOMAIN relay[Other(p)] : relay'[Other(p)][j] = relay[Other(p)][j]
         /\ relay'[p] = relay[p]
<1> DEFINE q == Other(p)
           sig == Head(outbox[p])
           rest == Tail(outbox[p])
           more == Append(relay[q], sig)
           l == Len(relay[q])
<1>1. /\ outbox[p] # <<>>
      /\ outbox' = outbox \/ outbox' = [outbox EXCEPT ![p] = rest]
      /\ relay' = relay \/ relay' = [relay EXCEPT ![q] = more]
  BY DEF Posts
<1>2. /\ q \in Peers /\ q # p /\ Other(q) = p /\ \A r \in Peers : r = p \/ r = q
      /\ outbox \in [Peers -> Seq(Signals)] /\ outbox[p] \in Seq(Signals)
      /\ relay \in [Peers -> Seq(Signals)] /\ relay[q] \in Seq(Signals)
  BY TwoPeers DEF PeerTypes, SignalTypes
<1>3. /\ sig \in Signals /\ 1 \in DOMAIN outbox[p] /\ sig = outbox[p][1]
      /\ rest \in Seq(Signals)
      /\ \A j \in DOMAIN rest : j + 1 \in DOMAIN outbox[p] /\ rest[j] = outbox[p][j + 1]
      /\ DOMAIN rest \subseteq Nat /\ DOMAIN outbox[p] \subseteq Nat
  BY <1>1, <1>2
<1> HIDE DEF sig
<1>4. /\ more \in Seq(Signals) /\ l \in Nat /\ DOMAIN relay[q] = 1..l /\ DOMAIN more = 1..(l + 1)
      /\ \A j \in 1..l : more[j] = relay[q][j]
      /\ more[l + 1] = sig
  BY <1>2, <1>3
<1> HIDE DEF rest, more, q, l
<1>5. /\ outbox'[p] = outbox[p] \/ outbox'[p] = rest
      /\ relay'[q] = relay[q] \/ relay'[q] = more
      /\ outbox'[q] = outbox[q] /\ relay'[p] = relay[p]
  BY <1>1, <1>2, <1>3, <1>4
<1>6. InOrder(p) /\ created[p] \in Nat
  BY HeldSlot DEF SignalsInOrder, PeerTypes
<1>7. \A j \in DOMAIN outbox'[p] : \E i \in DOMAIN outbox[p] : outbox'[p][j] = outbox[p][i]
  BY <1>3, <1>5
<1>8. \A j \in DOMAIN relay'[q] :
        \/ j \in DOMAIN relay[q] /\ relay'[q][j] = relay[q][j]
        \/ relay'[q][j] = sig
  BY <1>4, <1>5
<1>9. InOrder(p)'
  <2>1. \A i, j \in DOMAIN outbox'[p] : i < j => outbox'[p][i].pc <= outbox'[p][j].pc
    <3>1. CASE outbox'[p] = rest
      BY <1>3, <1>6, <3>1 DEF InOrder
    <3>2. QED
      BY <1>5, <1>6, <3>1 DEF InOrder
  <2>2. \A j \in DOMAIN outbox[p] : sig.pc <= outbox[p][j].pc
    <3> TAKE j \in DOMAIN outbox[p]
    <3>1. 1 < j \/ j = 1
      BY <1>2, <1>3
    <3>2. outbox[p][1].pc \in Nat
      BY <1>3 DEF Signals
    <3>3. QED
      BY <1>3, <1>6, <3>1, <3>2 DEF InOrder
  <2>3. \A i, j \in DOMAIN relay'[q] : i < j => relay'[q][i].pc <= relay'[q][j].pc
    <3>1. CASE relay'[q] = more
      <4> TAKE i, j \in DOMAIN relay'[q]
      <4>1. CASE j \in 1..l
        <5>1. i < j => i \in 1..l
          BY <1>4, <3>1, <4>1
        <5>2. QED
          BY <1>4, <1>6, <3>1, <4>1, <5>1 DEF InOrder, q
      <4>2. CASE j = l + 1
        <5>1. i < j => i \in 1..l
          BY <1>4, <3>1, <4>2
        <5>2. QED
          BY <1>3, <1>4, <1>6, <3>1, <4>2, <5>1 DEF InOrder, q
      <4>3. QED
        BY <1>4, <3>1, <4>1, <4>2
    <3>2. QED
      BY <1>5, <1>6, <3>1 DEF InOrder, q
  <2>4. \A i \in DOMAIN relay'[q], j \in DOMAIN outbox'[p] : relay'[q][i].pc <= outbox'[p][j].pc
    <3> TAKE i \in DOMAIN relay'[q], j \in DOMAIN outbox'[p]
    <3>1. PICK h \in DOMAIN outbox[p] : outbox'[p][j] = outbox[p][h]
      BY <1>7
    <3>2. QED
      BY <1>6, <1>8, <2>2, <3>1 DEF InOrder, q
  <2>5. /\ \A i \in DOMAIN relay'[q] : relay'[q][i].pc <= created[p]
        /\ \A j \in DOMAIN outbox'[p] : outbox'[p][j].pc <= created[p]
    BY <1>3, <1>6, <1>7, <1>8 DEF InOrder, q
  <2>6. QED
    BY <2>1, <2>3, <2>4, <2>5 DEF InOrder, q
<1>10. InOrder(q)'
  BY <1>2, <1>5 DEF SignalsInOrder, InOrder
<1>11. QED
  BY <1>2, <1>3, <1>4, <1>5, <1>7, <1>8, <1>9, <1>10 DEF SignalsInOrder, q

\* Whatever happens, faults and all.
LEMMA PlainKept ==
  ASSUME PeerTypes, LastCreated, SignalsInOrder, RoomNext
  PROVE  PeerTypes' /\ LastCreated' /\ SignalsInOrder'
<1>1. ASSUME NEW p \in Peers, Others(p), UNCHANGED <<outbox, relay>>,
             Keeps(p) \/ Renews(p) \/ created'[p] = created[p]
      PROVE  SignalsInOrder'
  <2>1. \A r \in Peers : created'[r] \in {created[r], created[r] + 1}
    BY <1>1 DEF Others, Keeps, SameConnection, Renews
  <2>2. QED
    BY <1>1, <2>1, OrderKept
<1>2. ASSUME NEW p \in Peers, Join(p) PROVE PeerTypes' /\ LastCreated' /\ SignalsInOrder'
  <2>1. /\ PeerTypes' /\ Others(p)
        /\ Keeps(p) \/ Renews(p) \/ (~Has(p)' /\ created'[p] = created[p])
    BY <1>2, JoinDoes
  <2>2. UNCHANGED <<outbox, relay, closed, faults>> /\ ~closed[p]
    BY <1>2 DEF Join, Joined
  <2>3. LastCreated'
    BY <2>1, <2>2, LastKept DEF Keeps
  <2>4. QED
    BY <1>1, <2>1, <2>2, <2>3
<1>3. ASSUME NEW p \in Peers, NegotiationNeeded(p) \/ Connects(p) \/ Loses(p) \/ Breaks(p) \/ Leaves(p)
      PROVE  PeerTypes' /\ LastCreated' /\ SignalsInOrder'
  <2>1. PeerTypes' /\ Others(p) /\ Keeps(p)
    BY <1>3, NegotiationNeededDoes, ConnectsDoes, FailsDoes, LeavesDoes
  <2>2. UNCHANGED <<outbox, relay, closed>>
    BY <1>3 DEF NegotiationNeeded, Connects, Loses, Breaks, Leaves
  <2>3. "close" \in faults' => "close" \in faults
    BY <1>3 DEF NegotiationNeeded, Connects, Loses, Breaks, Leaves, Fault
  <2>4. LastCreated'
    BY <2>1, <2>2, <2>3, LastKept DEF Keeps
  <2>5. QED
    BY <1>1, <2>1, <2>2, <2>4
<1>4. ASSUME NEW p \in Peers, Watchdog(p) PROVE PeerTypes' /\ LastCreated' /\ SignalsInOrder'
  <2>1. PeerTypes' /\ Others(p) /\ (Keeps(p) \/ Renews(p))
    BY <1>4, WatchdogDoes
  <2>2. UNCHANGED <<outbox, relay, closed>> /\ ~closed[p]
    BY <1>4 DEF Watchdog
  <2>3. "close" \in faults' => "close" \in faults
    BY <1>4 DEF Watchdog, Fault, NoFault
  <2>4. LastCreated'
    BY <2>1, <2>2, <2>3, LastKept DEF Keeps
  <2>5. QED
    BY <1>1, <2>1, <2>2, <2>4
<1>5. ASSUME NEW p \in Peers, Close(p) PROVE PeerTypes' /\ LastCreated' /\ SignalsInOrder'
  <2>1. PeerTypes' /\ Others(p) /\ ~Has(p)' /\ closed'[p] /\ UNCHANGED created
    BY <1>5, CloseDoes
  <2>2. LastCreated'
    BY <2>1, LastKept
  <2>3. \A r \in Peers : outbox'[r] = outbox[r] \/ DOMAIN outbox'[r] = {}
    <3>1. outbox' = [outbox EXCEPT ![p] = <<>>] /\ DOMAIN outbox = Peers /\ DOMAIN <<>> = {}
      BY <1>5 DEF Close, PeerTypes, SignalTypes
    <3>2. QED
      BY <3>1
  <2>4. SignalsInOrder'
    BY <1>5, <2>1, <2>3, OrderKept DEF Close
  <2>5. QED
    BY <2>1, <2>2, <2>4
<1>6. ASSUME NEW p \in Peers, CreateOffer(p) PROVE PeerTypes' /\ LastCreated' /\ SignalsInOrder'
  <2>1. PeerTypes' /\ Others(p) /\ Keeps(p) /\ Has(p) /\ Queues(p)
    BY <1>6, CreateOfferDoes
  <2>2. UNCHANGED <<created, relay, closed, faults>>
    BY <1>6 DEF CreateOffer
  <2>3. QED
    BY <2>1, <2>2, LastKept, OrderQueued DEF Keeps
<1>7. ASSUME NEW p \in Peers, PostSignal(p) PROVE PeerTypes' /\ LastCreated' /\ SignalsInOrder'
  <2>1. PeerTypes' /\ Others(p) /\ Keeps(p) /\ Posts(p)
    BY <1>7, PostSignalDoes
  <2>2. UNCHANGED <<created, closed>> /\ ("close" \in faults' => "close" \in faults)
    BY <1>7 DEF PostSignal, Fault, NoFault
  <2>3. QED
    BY <2>1, <2>2, LastKept, OrderPosted DEF Keeps
<1>8. ASSUME NEW p \in Peers, NEW k \in Polls[p], Poll(p, k)
      PROVE  PeerTypes' /\ LastCreated' /\ SignalsInOrder'
  <2>1. /\ PeerTypes' /\ Others(p) /\ ~closed[p]
        /\ Keeps(p) \/ Renews(p) \/ (~Has(p)' /\ created'[p] = created[p])
    BY <1>8, PollDoes
  <2>2. UNCHANGED <<outbox, relay, closed, faults>>
    BY <1>8 DEF Poll
  <2>3. LastCreated'
    BY <2>1, <2>2, LastKept DEF Keeps
  <2>4. QED
    BY <1>1, <2>1, <2>2, <2>3
<1>9. ASSUME NEW p \in Peers, NEW k \in Polls[p], Take(p, k) \/ RejectRemote(p, k)
      PROVE  PeerTypes' /\ LastCreated' /\ SignalsInOrder'
  <2>1. PeerTypes' /\ Others(p) /\ (Keeps(p) \/ (Renews(p) /\ ~closed[p]))
    BY <1>9, TakeDoes, RejectRemoteDoes
  <2>2. UNCHANGED <<outbox, relay, closed, faults>>
    BY <1>9 DEF Take, RejectRemote
  <2>3. LastCreated'
    BY <2>1, <2>2, LastKept DEF Keeps
  <2>4. QED
    BY <1>1, <2>1, <2>2, <2>3
<1>10. ASSUME NEW p \in Peers, NEW k \in Polls[p], SetRemote(p, k)
       PROVE  PeerTypes' /\ LastCreated' /\ SignalsInOrder'
  <2>1. PeerTypes' /\ Others(p) /\ SameConnection(p)
    BY <1>10, SetRemoteDoes
  <2>2. UNCHANGED <<created, outbox, relay, closed, faults>>
    BY <1>10 DEF SetRemote
  <2>3. LastCreated'
    BY <2>1, <2>2, LastKept
  <2>4. QED
    BY <1>1, <2>1, <2>2, <2>3
<1>11. ASSUME NEW p \in Peers, NEW k \in Polls[p], SetLocal(p, k)
       PROVE  PeerTypes' /\ LastCreated' /\ SignalsInOrder'
  <2>1. PeerTypes' /\ Others(p) /\ Keeps(p) /\ (UNCHANGED outbox \/ (Has(p) /\ Queues(p)))
    BY <1>11, SetLocalDoes
  <2>2. UNCHANGED <<created, relay, closed, faults>>
    BY <1>11 DEF SetLocal
  <2>3. LastCreated'
    BY <2>1, <2>2, LastKept DEF Keeps
  <2>4. QED
    BY <1>1, <2>1, <2>2, <2>3, OrderQueued
<1>12. ASSUME NEW p \in Peers, NEW k \in Polls[p], Posted(p, k)
       PROVE  PeerTypes' /\ LastCreated' /\ SignalsInOrder'
  <2>1. PeerTypes' /\ Others(p) /\ Keeps(p)
    BY <1>12, PostedDoes
  <2>2. UNCHANGED <<outbox, relay, closed, faults>>
    BY <1>12 DEF Posted
  <2>3. LastCreated'
    BY <2>1, <2>2, LastKept DEF Keeps
  <2>4. QED
    BY <1>1, <2>1, <2>2, <2>3
<1>13. ASSUME NEW p \in Peers, NEW k \in Polls[p], EndPoll(p, k)
       PROVE  PeerTypes' /\ LastCreated' /\ SignalsInOrder'
  <2>1. /\ PeerTypes' /\ Others(p) /\ Keeps(p)
        /\ \A q \in Peers : q # p => relay'[q] = relay[q]
        /\ relay'[p] = relay[p] \/ relay'[p] = <<>>
    BY <1>13, EndPollDoes
  <2>2. UNCHANGED <<created, outbox, closed, faults>>
    BY <1>13 DEF EndPoll
  <2>3. LastCreated'
    BY <2>1, <2>2, LastKept DEF Keeps
  <2>4. \A r \in Peers : relay'[r] = relay[r] \/ DOMAIN relay'[r] = {}
    <3>1. DOMAIN <<>> = {}
      OBVIOUS
    <3>2. QED
      BY <2>1, <3>1
  <2>5. SignalsInOrder'
    BY <2>2, <2>4, OrderKept
  <2>6. QED
    BY <2>1, <2>3, <2>5
<1>14. QED
  BY <1>2, <1>3, <1>4, <1>5, <1>6, <1>7, <1>8, <1>9, <1>10, <1>11, <1>12, <1>13
  DEF RoomNext, Runs, Handler

(***************************************************************************)
(* While the room is calm.                                                 *)
(***************************************************************************)
\* What the other peer does to a peer.
LEMMA OnePollElsewhere ==
  ASSUME NEW p \in Peers, NEW q \in Peers, q # p, Others(p), OnePoll(q), roster \subseteq roster'
  PROVE  OnePoll(q)'
BY DEF OnePoll, Others, Busy, Current, Has

LEMMA Numbers ==
  ASSUME PeerTypes, NEW p \in Peers
  PROVE  /\ Other(p) \in Peers /\ Other(p) # p /\ Other(Other(p)) = p
         /\ created[p] \in Nat /\ created[Other(p)] \in Nat /\ cursor[p] \in Nat
         /\ Has(p) => slot[p].remote \in Nat /\ slot[p].pc \in Nat
         /\ \A i \in DOMAIN relay[p] : i \in Nat /\ relay[p][i].pc \in Nat
         /\ \A i \in DOMAIN outbox[p] : outbox[p][i].pc \in Nat
         /\ \A i \in DOMAIN outbox[Other(p)] : outbox[Other(p)][i].pc \in Nat
<1>1. Other(p) \in Peers /\ Other(p) # p /\ Other(Other(p)) = p
  BY TwoPeers
<1>2. created[p] \in Nat /\ created[Other(p)] \in Nat /\ cursor[p] \in Nat
  BY <1>1, HeldSlot DEF PeerTypes, PollTypes
<1>3. Has(p) => slot[p].remote \in Nat /\ slot[p].pc \in Nat
  BY HeldSlot DEF PeerTypes, Slots
<1>4. relay[p] \in Seq(Signals) /\ outbox[p] \in Seq(Signals) /\ outbox[Other(p)] \in Seq(Signals)
  BY <1>1 DEF PeerTypes, SignalTypes
<1>5. \A sig \in Signals : sig.pc \in Nat
  BY DEF Signals
<1>6. QED
  BY <1>1, <1>2, <1>3, <1>4, <1>5

LEMMA UpToDateElsewhere ==
  ASSUME PeerTypes, NEW p \in Peers, NEW q \in Peers, q # p, Others(p), UpToDate(q),
         created'[p] \in {created[p], created[p] + 1},
         \A j \in DOMAIN outbox'[p] :
           \/ \E i \in DOMAIN outbox[p] : outbox'[p][j] = outbox[p][i]
           \/ outbox'[p][j].pc = created[p],
         \A j \in DOMAIN relay'[q] :
           \/ j \in DOMAIN relay[q] /\ relay'[q][j] = relay[q][j]
           \/ \E i \in DOMAIN outbox[p] : relay'[q][j] = outbox[p][i],
         \A k \in Polls[q] : poll[q][k].step = "setRemote" =>
           relay'[q][poll[q][k].at] = relay[q][poll[q][k].at]
  PROVE  UpToDate(q)'
<1> SUFFICES ASSUME Has(q)' PROVE UpToDate(q)'
  BY DEF UpToDate
<1>1. /\ Other(q) = p /\ created[p] \in Nat /\ Has(q) /\ slot[q].remote \in Nat
      /\ slot'[q] = slot[q] /\ poll'[q] = poll[q] /\ cursor'[q] = cursor[q]
  <2>1. Other(q) = p
    BY TwoPeers
  <2>2. Has(q) /\ slot'[q] = slot[q] /\ poll'[q] = poll[q] /\ cursor'[q] = cursor[q]
    BY DEF Others
  <2>3. QED
    BY <2>1, <2>2, Numbers
<1>2. /\ slot[q].remote <= created[p] /\ slot[q].agreed \in {0, slot[q].remote}
      /\ \A i \in DOMAIN relay[q] : i > cursor[q] => slot[q].remote <= relay[q][i].pc
      /\ \A j \in DOMAIN outbox[p] : slot[q].remote <= outbox[p][j].pc
      /\ \A k \in Polls[q] :
           poll[q][k].step = "setRemote" => slot[q].remote <= relay[q][poll[q][k].at].pc
  BY <1>1 DEF UpToDate
<1>3. slot[q].remote <= created'[p]
  BY <1>1, <1>2
<1>4. \A i \in DOMAIN relay'[q] : i > cursor[q] => slot[q].remote <= relay'[q][i].pc
  BY <1>2
<1>5. \A j \in DOMAIN outbox'[p] : slot[q].remote <= outbox'[p][j].pc
  BY <1>2
<1>6. \A k \in Polls[q] :
        poll[q][k].step = "setRemote" => slot[q].remote <= relay'[q][poll[q][k].at].pc
  BY <1>2
<1>7. QED
  BY <1>1, <1>2, <1>3, <1>4, <1>5, <1>6 DEF UpToDate

\* What a peer does itself.
LEMMA UpToDateHere ==
  ASSUME PeerTypes, NEW p \in Peers, Others(p), UpToDate(p),
         Keeps(p) \/ Renews(p) \/ ~Has(p)',
         relay'[p] = relay[p], cursor'[p] \in Nat, cursor'[p] >= cursor[p],
         \A k \in Polls[p] : poll'[p][k].step = "setRemote" =>
           \/ poll[p][k].step = "setRemote" /\ poll'[p][k].at = poll[p][k].at
           \/ poll'[p][k].at \in DOMAIN relay[p] /\ poll'[p][k].at > cursor[p]
  PROVE  UpToDate(p)'
<1> SUFFICES ASSUME Has(p)' PROVE UpToDate(p)'
  BY DEF UpToDate
<1> DEFINE q == Other(p)
<1>1. /\ q \in Peers /\ q # p /\ created[q] \in Nat /\ cursor[p] \in Nat
      /\ created'[q] = created[q] /\ outbox'[q] = outbox[q]
      /\ \A i \in DOMAIN relay[p] : i \in Nat /\ relay[p][i].pc \in Nat
      /\ \A i \in DOMAIN outbox[q] : outbox[q][i].pc \in Nat
  BY Numbers DEF Others
<1>2. \A k \in Polls[p] : poll[p][k].step = "setRemote" => poll[p][k].at \in DOMAIN relay[p]
  <2> TAKE k \in Polls[p]
  <2>1. poll[p][k].step = "setRemote" => Busy(p, k) /\ poll[p][k].step # "next"
    BY DEF Busy
  <2>2. QED
    BY <2>1, HandlerAt
<1> HIDE DEF q
<1>3. CASE Keeps(p)
  <2>1. /\ Has(p) /\ slot'[p].remote = slot[p].remote /\ slot'[p].agreed \in {0, slot[p].agreed}
    BY <1>3 DEF Keeps, SameConnection
  <2>2. /\ slot[p].remote <= created[q] /\ slot[p].agreed \in {0, slot[p].remote}
        /\ \A i \in DOMAIN relay[p] : i > cursor[p] => slot[p].remote <= relay[p][i].pc
        /\ \A j \in DOMAIN outbox[q] : slot[p].remote <= outbox[q][j].pc
        /\ \A k \in Polls[p] :
             poll[p][k].step = "setRemote" => slot[p].remote <= relay[p][poll[p][k].at].pc
    BY <2>1 DEF UpToDate, q
  <2>3. \A i \in DOMAIN relay'[p] : i > cursor'[p] => slot'[p].remote <= relay'[p][i].pc
    BY <1>1, <2>1, <2>2
  <2>4. \A k \in Polls[p] :
          poll'[p][k].step = "setRemote" => slot'[p].remote <= relay'[p][poll'[p][k].at].pc
    BY <2>1, <2>2
  <2>5. QED
    BY <1>1, <2>1, <2>2, <2>3, <2>4 DEF UpToDate, q
<1>4. CASE Renews(p)
  <2>1. slot'[p].remote = 0 /\ slot'[p].agreed = 0
    BY <1>4 DEF Renews
  <2>2. \A k \in Polls[p] :
          poll'[p][k].step = "setRemote" => slot'[p].remote <= relay'[p][poll'[p][k].at].pc
    BY <1>1, <1>2, <2>1
  <2>3. QED
    BY <1>1, <2>1, <2>2 DEF UpToDate, q
<1>5. QED
  BY <1>3, <1>4

\* Steps that touch no poll.
LEMMA OnePollHere ==
  ASSUME NEW p \in Peers, Others(p), OnePoll(p), SameConnection(p),
         poll'[p] = poll[p], cursor'[p] = cursor[p], roster' = roster,
         timer'[p] => timer[p] \/ Alone \/ \A k \in Polls[p] : ~Busy(p, k),
         p \in roster \/ ~timer'[p]
  PROVE  OnePoll(p)'
BY DEF OnePoll, SameConnection, Busy, Current, Alone

CalmPeers == \A p \in Peers : OnePoll(p) /\ UpToDate(p)

\* A step that posts nothing.
LEMMA CalmHere ==
  ASSUME PeerTypes, CalmPeers, NEW p \in Peers, Others(p), roster \subseteq roster',
         UNCHANGED outbox, \A q \in Peers : q # p => relay'[q] = relay[q],
         Keeps(p) \/ Renews(p) \/ SameConnection(p), OnePoll(p)', UpToDate(p)'
  PROVE  CalmPeers'
<1> SUFFICES ASSUME NEW q \in Peers, q # p PROVE OnePoll(q)' /\ UpToDate(q)'
  BY DEF CalmPeers
<1>1. OnePoll(q) /\ UpToDate(q) /\ relay'[q] = relay[q]
  BY DEF CalmPeers
<1>2. created'[p] \in {created[p], created[p] + 1}
  BY DEF Keeps, Renews, SameConnection
<1>3. OnePoll(q)'
  BY <1>1, OnePollElsewhere
<1>4. UpToDate(q)'
  BY <1>1, <1>2, UpToDateElsewhere
<1>5. QED
  BY <1>3, <1>4

\* A step that touches no poll, no relay and no queue.
LEMMA CalmStill ==
  ASSUME PeerTypes, CalmPeers, NEW p \in Peers, Others(p), Keeps(p),
         UNCHANGED <<outbox, relay, cursor, poll, roster>>,
         timer'[p] => timer[p] \/ Alone \/ \A k \in Polls[p] : ~Busy(p, k),
         p \in roster \/ ~timer'[p]
  PROVE  CalmPeers'
<1>1. OnePoll(p) /\ UpToDate(p) /\ SameConnection(p)
  BY DEF CalmPeers, Keeps
<1>2. OnePoll(p)'
  BY <1>1, OnePollHere
<1>3. cursor'[p] \in Nat /\ cursor'[p] >= cursor[p]
  BY Numbers
<1>4. UpToDate(p)'
  BY <1>1, <1>3, UpToDateHere
<1>5. QED
  BY <1>2, <1>4, CalmHere

LEMMA QueuedSignals ==
  ASSUME PeerTypes, LastCreated, NEW p \in Peers, Queues(p), Has(p)
  PROVE  \A j \in DOMAIN outbox'[p] :
           \/ \E i \in DOMAIN outbox[p] : outbox'[p][j] = outbox[p][i]
           \/ outbox'[p][j].pc = created[p]
<1>1. PICK a \in Signals, b \in Signals :
        /\ outbox' = [outbox EXCEPT ![p] = @ \o <<a, b>>]
        /\ a.pc = created[p] /\ b.pc = created[p]
  BY DEF Queues, LastCreated
<1>2. outbox \in [Peers -> Seq(Signals)] /\ outbox[p] \in Seq(Signals)
  BY DEF PeerTypes, SignalTypes
<1>3. outbox'[p] = outbox[p] \o <<a, b>>
  BY <1>1, <1>2
<1>4. /\ \A i \in 1..Len(outbox[p]) : outbox'[p][i] = outbox[p][i]
      /\ \A i \in DOMAIN outbox'[p] : i \in 1..Len(outbox[p]) \/ outbox'[p][i] \in {a, b}
      /\ DOMAIN outbox[p] = 1..Len(outbox[p])
  BY <1>2, <1>3, TwoMore
<1>5. QED
  BY <1>1, <1>4

LEMMA CalmPosts ==
  ASSUME PeerTypes, LastCreated, SignalsInOrder, CalmPeers, NEW p \in Peers,
         PostSignal(p) \/ CreateOffer(p)
  PROVE  CalmPeers'
<1>1. /\ PeerTypes' /\ Others(p) /\ Keeps(p)
      /\ Posts(p) \/ (Has(p) /\ Queues(p) /\ UNCHANGED relay)
      /\ UNCHANGED <<created, cursor, poll, timer, roster>>
  BY PostSignalDoes, CreateOfferDoes DEF PostSignal, CreateOffer
<1> DEFINE q == Other(p)
<1>2. /\ q \in Peers /\ q # p /\ Other(q) = p /\ \A r \in Peers : r = p \/ r = q
      /\ OnePoll(p) /\ UpToDate(p) /\ OnePoll(q) /\ UpToDate(q) /\ SameConnection(p)
  BY <1>1, TwoPeers DEF CalmPeers, Keeps
<1>3. /\ relay'[p] = relay[p]
      /\ \A j \in DOMAIN outbox'[p] :
           \/ \E i \in DOMAIN outbox[p] : outbox'[p][j] = outbox[p][i]
           \/ outbox'[p][j].pc = created[p]
      /\ \A j \in DOMAIN relay'[q] :
           \/ j \in DOMAIN relay[q] /\ relay'[q][j] = relay[q][j]
           \/ \E i \in DOMAIN outbox[p] : relay'[q][j] = outbox[p][i]
      /\ \A j \in DOMAIN relay[q] : relay'[q][j] = relay[q][j]
  <2>1. CASE Posts(p)
    <3>1. UNCHANGED created
      BY <1>1
    <3>2. QED
      BY <2>1, <3>1, OrderPosted
  <2>2. CASE Has(p) /\ Queues(p) /\ UNCHANGED relay
    BY <2>2, QueuedSignals
  <2>3. QED
    BY <1>1, <2>1, <2>2
<1> HIDE DEF q
<1>4. \A k \in Polls[q] : poll[q][k].step = "setRemote" =>
        relay'[q][poll[q][k].at] = relay[q][poll[q][k].at]
  <2> TAKE k \in Polls[q]
  <2>1. poll[q][k].step = "setRemote" => Busy(q, k) /\ poll[q][k].step # "next"
    BY DEF Busy
  <2>2. QED
    BY <1>2, <1>3, <2>1, HandlerAt
<1>5. created'[p] \in {created[p], created[p] + 1}
  BY <1>1
<1>6. OnePoll(q)' /\ UpToDate(q)'
  BY <1>1, <1>2, <1>3, <1>4, <1>5, OnePollElsewhere, UpToDateElsewhere
<1>7. p \in roster \/ ~timer'[p]
  BY <1>1, <1>2 DEF OnePoll
<1>8. OnePoll(p)'
  BY <1>1, <1>2, <1>7, OnePollHere
<1>9. cursor'[p] \in Nat /\ cursor'[p] >= cursor[p]
  BY <1>1, Numbers
<1>10. UpToDate(p)'
  BY <1>1, <1>2, <1>3, <1>9, UpToDateHere
<1>11. QED
  BY <1>2, <1>6, <1>8, <1>10 DEF CalmPeers

\* A timer is set again when nothing is on its way; but for a path that breaks.
LEMMA CalmEvents ==
  ASSUME Alone \/ ~Fault("breaks"), PeerTypes, LastCreated, CalmPeers, Calm', NEW p \in Peers,
         NegotiationNeeded(p) \/ Connects(p) \/ Loses(p) \/ Breaks(p)
  PROVE  CalmPeers'
<1>1. PeerTypes' /\ Others(p) /\ Keeps(p) /\ Has(p)
  BY NegotiationNeededDoes, ConnectsDoes, FailsDoes
  DEF NegotiationNeeded, Connects, CanConnect, Loses, Breaks, Connected
<1>2. UNCHANGED <<outbox, relay, cursor, poll, roster>>
  BY DEF NegotiationNeeded, Connects, Loses, Breaks
<1>3. p \in roster
  BY <1>1 DEF CalmPeers, OnePoll
<1>4. timer'[p] => timer[p] \/ Alone \/ \A k \in Polls[p] : ~Busy(p, k)
  <2>1. CASE NegotiationNeeded(p) \/ Connects(p)
    BY <2>1 DEF NegotiationNeeded, Connects
  <2>2. CASE Loses(p)
    BY <2>2 DEF Loses, Quiet
  <2>3. CASE Breaks(p)
    BY <2>3 DEF Breaks
  <2>4. QED
    BY <2>1, <2>2, <2>3
<1>5. QED
  BY <1>1, <1>2, <1>3, <1>4, CalmStill

LEMMA CalmWatchdog ==
  ASSUME PeerTypes, LastCreated, CalmPeers, Calm', NEW p \in Peers, Watchdog(p)
  PROVE  CalmPeers'
<1>1. PeerTypes' /\ Others(p) /\ (Keeps(p) \/ Renews(p))
  BY WatchdogDoes
<1>2. /\ Has(p) /\ UNCHANGED <<outbox, relay, cursor, poll, closed, roster>>
      /\ timer'[p] \in BOOLEAN
  BY <1>1 DEF Watchdog, PeerTypes, RoomTypes
<1>3. \A k \in Polls[p] : ~Busy(p, k)
  <2>1. Quiet
    BY DEF Watchdog, Fault, Calm
  <2>2. QED
    BY <2>1 DEF Quiet
<1>4. OnePoll(p) /\ UpToDate(p) /\ p \in roster
  BY <1>2 DEF CalmPeers, OnePoll
<1>5. OnePoll(p)'
  BY <1>2, <1>3, <1>4 DEF OnePoll, Busy
<1>6. cursor'[p] \in Nat /\ cursor'[p] >= cursor[p]
  BY <1>2, Numbers
<1>7. UpToDate(p)'
  BY <1>1, <1>2, <1>4, <1>6, UpToDateHere
<1>8. QED
  BY <1>1, <1>2, <1>5, <1>7, CalmHere

LEMMA CalmJoin ==
  ASSUME PeerTypes, CalmPeers, NEW p \in Peers, Join(p)
  PROVE  CalmPeers'
<1>1. /\ PeerTypes' /\ Others(p) /\ p \notin roster /\ roster' = roster \cup {p}
      /\ UNCHANGED <<outbox, relay, cursor, poll, closed>>
      /\ Reconcile(p, Other(p) \in roster)
  BY JoinDoes DEF Join, Joined
<1>2. OnePoll(p) /\ UpToDate(p)
  BY DEF CalmPeers
<1>3. ~Has(p) /\ \A k \in Polls[p] : ~Busy(p, k)
  BY <1>1, <1>2 DEF OnePoll
<1>4. \/ Keeps(p) /\ ~Has(p)'
      \/ Renews(p) /\ Other(p) \in roster
  <2>1. SlotTypes
    BY DEF PeerTypes
  <2>2. CASE Other(p) \in roster
    BY <1>1, <1>3, <2>1, <2>2, ReconcileTypes DEF Renews
  <2>3. CASE Other(p) \notin roster
    <3>1. UNCHANGED <<slot, created>>
      BY <1>1, <1>3, <2>3 DEF Reconcile
    <3>2. QED
      BY <1>3, <3>1 DEF Keeps, SameConnection, Has
  <2>4. QED
    BY <2>2, <2>3
<1>5. OnePoll(p)'
  BY <1>1, <1>3, <1>4 DEF OnePoll, Busy, Renews
<1>6. cursor'[p] \in Nat /\ cursor'[p] >= cursor[p]
  BY <1>1, Numbers
<1>7. UpToDate(p)'
  BY <1>1, <1>2, <1>4, <1>6, UpToDateHere
<1>8. QED
  BY <1>1, <1>4, <1>5, <1>7, CalmHere

LEMMA CalmPoll ==
  ASSUME PeerTypes, CalmPeers, NEW p \in Peers, NEW k \in Polls[p], Poll(p, k)
  PROVE  CalmPeers'
<1>1. /\ PeerTypes' /\ Others(p) /\ timer[p] /\ ~Busy(p, k)
      /\ \/ Keeps(p) /\ (Has(p) => Other(p) \in roster)
         \/ Renews(p) /\ ~Has(p) /\ Other(p) \in roster
         \/ ~Has(p)' /\ created'[p] = created[p] /\ Has(p) /\ Other(p) \notin roster
      /\ \/ poll' = poll /\ timer'[p]
         \/ /\ ~timer'[p] /\ poll'[p][k].at = cursor[p] /\ poll'[p][k].step = "next"
            /\ poll'[p][k].known => Other(p) \in roster
            /\ \A j \in Polls[p] : j # k => poll'[p][j] = poll[p][j]
  BY PollDoes
<1>2. UNCHANGED <<outbox, relay, cursor, roster>>
  BY DEF Poll
<1>3. OnePoll(p) /\ UpToDate(p)
  BY DEF CalmPeers
<1>4. p \in roster /\ \A j \in Polls[p] : ~Busy(p, j)
  BY <1>1, <1>3 DEF OnePoll, Alone
<1>5. (Keeps(p) \/ Renews(p)) /\ (Has(p)' => Other(p) \in roster)
  BY <1>1, <1>3 DEF OnePoll, Keeps, SameConnection
<1>6. OnePoll(p)'
  <2>1. CASE poll' = poll
    BY <1>2, <1>4, <1>5, <2>1 DEF OnePoll, Busy
  <2>2. CASE /\ ~timer'[p] /\ poll'[p][k].at = cursor[p] /\ poll'[p][k].step = "next"
             /\ poll'[p][k].known => Other(p) \in roster
             /\ \A j \in Polls[p] : j # k => poll'[p][j] = poll[p][j]
    BY <1>2, <1>4, <1>5, <2>2 DEF OnePoll, Busy
  <2>3. QED
    BY <1>1, <2>1, <2>2
<1>7. cursor'[p] \in Nat /\ cursor'[p] >= cursor[p]
  BY <1>2, Numbers
<1>8. \A j \in Polls[p] : poll'[p][j].step # "setRemote"
  BY <1>1, <1>4 DEF Busy
<1>9. UpToDate(p)'
  BY <1>1, <1>2, <1>3, <1>5, <1>7, <1>8, UpToDateHere
<1>10. QED
  BY <1>1, <1>2, <1>5, <1>6, <1>9, CalmHere

\* The only poll that is answered moves on.
LEMMA OnePollMoves ==
  ASSUME NEW p \in Peers, OnePoll(p), NEW k \in Polls[p], Busy(p, k),
         \A j \in Polls[p] : j # k => poll'[p][j] = poll[p][j],
         poll'[p][k].at = cursor'[p],
         poll'[p][k].known => poll[p][k].known,
         poll'[p][k].step = "setRemote" => Has(p)' /\ poll'[p][k].pc = slot'[p].pc,
         Has(p)' => Has(p) \/ poll[p][k].known,
         timer'[p] = timer[p], roster' = roster
  PROVE  OnePoll(p)' /\ \A j \in Polls[p] : j # k => ~Busy(p, j) /\ poll'[p][j].step = "idle"
<1>1. \A j \in Polls[p] : j # k => ~Busy(p, j) /\ poll'[p][j].step = "idle"
  BY DEF OnePoll, Busy
<1>2. p \in roster /\ (poll[p][k].known => Other(p) \in roster)
  BY DEF OnePoll
<1>3. Has(p)' => Other(p) \in roster
  BY <1>2 DEF OnePoll
<1>4. timer'[p] => Alone
  BY DEF OnePoll
<1>5. QED
  BY <1>1, <1>2, <1>3, <1>4 DEF OnePoll, Busy, Current, Alone

LEMMA CalmTake ==
  ASSUME PeerTypes, CalmPeers, NEW p \in Peers, NEW k \in Polls[p], Take(p, k)
  PROVE  CalmPeers'
<1>1. /\ PeerTypes' /\ Others(p) /\ Busy(p, k)
      /\ poll[p][k].at + 1 \in DOMAIN relay[p]
      /\ Keeps(p) \/ (Renews(p) /\ ~Has(p) /\ poll[p][k].known)
      /\ cursor'[p] = IF poll[p][k].at + 1 > cursor[p] THEN poll[p][k].at + 1 ELSE cursor[p]
      /\ poll'[p][k].at = poll[p][k].at + 1 /\ poll'[p][k].known = poll[p][k].known
      /\ \/ poll'[p][k].step = "next"
         \/ poll'[p][k].step = "setRemote" /\ Has(p)' /\ poll'[p][k].pc = slot'[p].pc
      /\ \A j \in Polls[p] : j # k => poll'[p][j] = poll[p][j]
  BY TakeDoes
<1>2. UNCHANGED <<outbox, relay, timer, roster>>
  BY DEF Take
<1>3. OnePoll(p) /\ UpToDate(p) /\ poll[p][k].at = cursor[p] /\ cursor[p] \in Nat
  BY <1>1, Numbers DEF CalmPeers, OnePoll
<1>4. cursor'[p] = cursor[p] + 1 /\ poll'[p][k].at = cursor'[p]
  BY <1>1, <1>3
<1>5. Has(p)' => Has(p) \/ poll[p][k].known
  BY <1>1 DEF Keeps, SameConnection
<1>6. OnePoll(p)' /\ \A j \in Polls[p] : j # k => ~Busy(p, j) /\ poll'[p][j].step = "idle"
  BY <1>1, <1>2, <1>3, <1>4, <1>5, OnePollMoves
<1>7. \A j \in Polls[p] : poll'[p][j].step = "setRemote" =>
           poll'[p][j].at \in DOMAIN relay[p] /\ poll'[p][j].at > cursor[p]
  BY <1>1, <1>3, <1>6
<1>8. cursor'[p] \in Nat /\ cursor'[p] >= cursor[p]
  BY <1>3, <1>4
<1>9. UpToDate(p)'
  BY <1>1, <1>2, <1>3, <1>7, <1>8, UpToDateHere
<1>10. QED
  BY <1>1, <1>2, <1>6, <1>9, CalmHere

\* What it learns is the newest that has been read, and older than what has not.
LEMMA CalmSetRemote ==
  ASSUME PeerTypes, SignalsInOrder, CalmPeers, NEW p \in Peers, NEW k \in Polls[p], SetRemote(p, k)
  PROVE  CalmPeers'
<1>1. /\ PeerTypes' /\ Others(p) /\ SameConnection(p) /\ Has(p) /\ Busy(p, k)
      /\ poll[p][k].step = "setRemote"
      /\ slot'[p].remote = relay[p][poll[p][k].at].pc /\ slot'[p].agreed = slot'[p].remote
      /\ poll'[p][k].at = poll[p][k].at /\ poll'[p][k].known = poll[p][k].known
      /\ poll'[p][k].step \in {"next", "setLocal"}
      /\ \A j \in Polls[p] : j # k => poll'[p][j] = poll[p][j]
  BY SetRemoteDoes
<1>2. UNCHANGED <<created, outbox, relay, cursor, timer, roster>>
  BY DEF SetRemote
<1>3. OnePoll(p) /\ poll[p][k].at = cursor[p] /\ cursor[p] \in DOMAIN relay[p]
  BY <1>1, HandlerAt DEF CalmPeers, OnePoll
<1>4. OnePoll(p)' /\ \A j \in Polls[p] : j # k => ~Busy(p, j) /\ poll'[p][j].step = "idle"
  BY <1>1, <1>2, <1>3, OnePollMoves DEF SameConnection
<1> DEFINE q == Other(p)
<1>5. /\ q \in Peers /\ q # p /\ Other(q) = p /\ InOrder(q)
      /\ created'[q] = created[q] /\ outbox'[q] = outbox[q] /\ cursor[p] \in Nat
      /\ \A i \in DOMAIN relay[p] : i \in Nat
  BY <1>1, <1>2, Numbers DEF SignalsInOrder
<1>6. /\ \A i \in DOMAIN relay[p] : i > cursor[p] => relay[p][cursor[p]].pc <= relay[p][i].pc
      /\ \A j \in DOMAIN outbox[q] : relay[p][cursor[p]].pc <= outbox[q][j].pc
      /\ relay[p][cursor[p]].pc <= created[q]
  BY <1>3, <1>5 DEF InOrder
<1>7. \A j \in Polls[p] : poll'[p][j].step # "setRemote"
  BY <1>1, <1>4
<1>8. UpToDate(p)'
  BY <1>1, <1>2, <1>3, <1>5, <1>6, <1>7 DEF UpToDate
<1>9. QED
  BY <1>1, <1>2, <1>4, <1>8, CalmHere

LEMMA CalmReject ==
  ASSUME PeerTypes, CalmPeers, NEW p \in Peers, NEW k \in Polls[p], RejectRemote(p, k), Calm
  PROVE  CalmPeers'
<1>1. /\ PeerTypes' /\ Others(p) /\ poll[p][k].step = "setRemote" /\ Busy(p, k)
      /\ \/ Keeps(p) /\ UNCHANGED slot /\ poll'[p][k].step = "next"
         \/ Renews(p) /\ poll'[p][k].step = "setRemote" /\ poll'[p][k].pc = slot'[p].pc
      /\ poll'[p][k].at = poll[p][k].at /\ poll'[p][k].known = poll[p][k].known
      /\ \A j \in Polls[p] : j # k => poll'[p][j] = poll[p][j]
  BY RejectRemoteDoes
<1>2. UNCHANGED <<outbox, relay, cursor, timer, roster>>
  BY DEF RejectRemote
<1>3. OnePoll(p) /\ UpToDate(p) /\ poll[p][k].at = cursor[p] /\ Has(p)
  BY <1>1 DEF CalmPeers, OnePoll, Current
<1>4. OnePoll(p)' /\ \A j \in Polls[p] : j # k => ~Busy(p, j) /\ poll'[p][j].step = "idle"
  BY <1>1, <1>2, <1>3, OnePollMoves DEF Renews
<1>5. cursor'[p] \in Nat /\ cursor'[p] >= cursor[p]
  BY <1>2, Numbers
<1>6. \A j \in Polls[p] : poll'[p][j].step = "setRemote" =>
           poll[p][j].step = "setRemote" /\ poll'[p][j].at = poll[p][j].at
  BY <1>1, <1>4
<1>7. UpToDate(p)'
  BY <1>1, <1>2, <1>3, <1>5, <1>6, UpToDateHere
<1>8. QED
  BY <1>1, <1>2, <1>4, <1>7, CalmHere

LEMMA CalmPosted ==
  ASSUME PeerTypes, CalmPeers, NEW p \in Peers, NEW k \in Polls[p], Posted(p, k)
  PROVE  CalmPeers'
<1>1. /\ PeerTypes' /\ Others(p) /\ Keeps(p)
      /\ poll'[p][k] = [poll[p][k] EXCEPT !.step = "next"]
      /\ \A j \in Polls[p] : j # k => poll'[p][j] = poll[p][j]
      /\ UNCHANGED <<outbox, relay, cursor, timer, roster>> /\ Busy(p, k)
      /\ poll[p][k] \in PollStates
  BY PostedDoes, PollOf DEF Posted, Busy, PeerTypes
<1>2. /\ poll'[p][k].at = poll[p][k].at /\ poll'[p][k].known = poll[p][k].known
      /\ poll'[p][k].step = "next"
  BY <1>1 DEF PollStates
<1>3. OnePoll(p) /\ UpToDate(p) /\ poll[p][k].at = cursor[p]
  BY <1>1 DEF CalmPeers, OnePoll
<1>4. OnePoll(p)' /\ \A j \in Polls[p] : j # k => ~Busy(p, j) /\ poll'[p][j].step = "idle"
  BY <1>1, <1>2, <1>3, OnePollMoves DEF Keeps, SameConnection
<1>5. cursor'[p] \in Nat /\ cursor'[p] >= cursor[p]
  BY <1>1, Numbers
<1>6. \A j \in Polls[p] : poll'[p][j].step # "setRemote"
  BY <1>2, <1>4
<1>7. UpToDate(p)'
  BY <1>1, <1>3, <1>5, <1>6, UpToDateHere
<1>8. QED
  BY <1>1, <1>4, <1>7, CalmHere

LEMMA CalmSetLocal ==
  ASSUME PeerTypes, LastCreated, CalmPeers, NEW p \in Peers, NEW k \in Polls[p], SetLocal(p, k)
  PROVE  CalmPeers'
<1>1. /\ PeerTypes' /\ Others(p) /\ Keeps(p)
      /\ UNCHANGED outbox \/ (Has(p) /\ Queues(p))
      /\ poll'[p][k].at = poll[p][k].at /\ poll'[p][k].known = poll[p][k].known
      /\ poll'[p][k].step \in {"next", "post"}
      /\ \A j \in Polls[p] : j # k => poll'[p][j] = poll[p][j]
      /\ UNCHANGED <<created, relay, cursor, timer, roster>> /\ Busy(p, k)
  BY SetLocalDoes DEF SetLocal, Busy
<1>2. OnePoll(p) /\ UpToDate(p) /\ poll[p][k].at = cursor[p]
  BY <1>1 DEF CalmPeers, OnePoll
<1>3. OnePoll(p)' /\ \A j \in Polls[p] : j # k => ~Busy(p, j) /\ poll'[p][j].step = "idle"
  BY <1>1, <1>2, OnePollMoves DEF Keeps, SameConnection
<1>4. cursor'[p] \in Nat /\ cursor'[p] >= cursor[p]
  BY <1>1, Numbers
<1>5. \A j \in Polls[p] : poll'[p][j].step # "setRemote"
  BY <1>1, <1>3
<1>6. UpToDate(p)'
  BY <1>1, <1>2, <1>4, <1>5, UpToDateHere
<1>7. ASSUME NEW q \in Peers, q # p PROVE OnePoll(q)' /\ UpToDate(q)'
  <2>1. OnePoll(q) /\ UpToDate(q)
    BY DEF CalmPeers
  <2>2. \A j \in DOMAIN outbox'[p] :
          \/ \E i \in DOMAIN outbox[p] : outbox'[p][j] = outbox[p][i]
          \/ outbox'[p][j].pc = created[p]
    <3>1. CASE Has(p) /\ Queues(p)
      BY <3>1, QueuedSignals
    <3>2. QED
      BY <1>1, <3>1
  <2>3. created'[p] \in {created[p], created[p] + 1}
    BY <1>1
  <2>4. UpToDate(q)'
    BY <1>1, <1>7, <2>1, <2>2, <2>3, UpToDateElsewhere
  <2>5. OnePoll(q)'
    BY <1>1, <1>7, <2>1, OnePollElsewhere
  <2>6. QED
    BY <2>4, <2>5
<1>8. QED
  BY <1>3, <1>6, <1>7 DEF CalmPeers

LEMMA CalmEndPoll ==
  ASSUME PeerTypes, CalmPeers, NEW p \in Peers, NEW k \in Polls[p], EndPoll(p, k)
  PROVE  CalmPeers'
<1>1. /\ PeerTypes' /\ Others(p) /\ Keeps(p) /\ Busy(p, k)
      /\ poll'[p][k] = NoPoll /\ \A j \in Polls[p] : j # k => poll'[p][j] = poll[p][j]
      /\ \A q \in Peers : q # p => relay'[q] = relay[q]
      /\ \/ relay'[p] = relay[p] /\ cursor'[p] = cursor[p]
         \/ relay'[p] = <<>> /\ cursor'[p] = 0
      /\ UNCHANGED <<outbox, roster>>
  BY EndPollDoes DEF EndPoll
<1>2. OnePoll(p) /\ UpToDate(p)
  BY DEF CalmPeers
<1>3. p \in roster /\ \A j \in Polls[p] : poll'[p][j].step = "idle"
  BY <1>1, <1>2 DEF OnePoll, Busy, NoPoll
<1>4. OnePoll(p)'
  BY <1>1, <1>2, <1>3 DEF OnePoll, Busy, Keeps, SameConnection
<1>5. UpToDate(p)'
  <2>1. CASE relay'[p] = relay[p] /\ cursor'[p] = cursor[p]
    <3>1. cursor'[p] \in Nat /\ cursor'[p] >= cursor[p]
      BY <2>1, Numbers
    <3>2. QED
      BY <1>1, <1>2, <1>3, <2>1, <3>1, UpToDateHere
  <2>2. CASE relay'[p] = <<>> /\ cursor'[p] = 0
    <3>1. Other(p) \in Peers /\ Other(p) # p /\ (Has(p) => slot[p].remote \in Nat)
      BY Numbers
    <3>2. created'[Other(p)] = created[Other(p)] /\ outbox'[Other(p)] = outbox[Other(p)]
      BY <1>1, <3>1 DEF Others
    <3>3. DOMAIN relay'[p] = {}
      BY <2>2
    <3>4. Has(p)' => /\ Has(p) /\ slot'[p].remote = slot[p].remote
                     /\ slot'[p].agreed \in {0, slot[p].agreed}
      BY <1>1 DEF Keeps, SameConnection
    <3>5. QED
      BY <1>2, <1>3, <3>2, <3>3, <3>4 DEF UpToDate
  <2>3. QED
    BY <1>1, <2>1, <2>2
<1>6. QED
  BY <1>1, <1>4, <1>5, CalmHere

(***************************************************************************)
(* The first connections.  Until something disturbs the two, each creates  *)
(* one connection, and their negotiation goes on until they can connect.   *)
(***************************************************************************)
FirstOf(p) ==
  /\ ~closed[p] /\ created[p] <= 1 /\ (created[p] = 1 => Has(p))
  /\ \A i \in DOMAIN outbox[p] : outbox[p][i].pc = 1
  /\ \A i \in DOMAIN relay[p] : relay[p][i].pc = 1
  /\ Has(p) => /\ slot[p].remote \in {0, 1} /\ slot[p].remote <= created[Other(p)]
               /\ slot[p].agreed \in {0, slot[p].remote}
  /\ \A k \in Polls[p] : poll[p][k].step \in {"setRemote", "setLocal"} => Current(p, k)

FirstOnly == \A p \in Peers : FirstOf(p)

\* A step that keeps them so, and every connection.
FirstGoesOn ==
  FirstOnly' /\ \A p \in Peers : Has(p) => Has(p)' /\ slot'[p].pc = slot[p].pc

LEMMA FirstStill ==
  ASSUME PeerTypes, LastCreated, FirstOnly, NEW p \in Peers, Others(p), UNCHANGED closed,
         \/ Keeps(p)
         \/ Renews(p) /\ ~Has(p)
         \/ /\ SameConnection(p) /\ slot'[p].remote = 1 /\ slot'[p].agreed = 1
            /\ created[Other(p)] = 1,
         \A i \in DOMAIN outbox'[p] : outbox'[p][i].pc = 1,
         \A q \in Peers : \A i \in DOMAIN relay'[q] : relay'[q][i].pc = 1,
         \A k \in Polls[p] : poll'[p][k].step \in {"setRemote", "setLocal"} => Current(p, k)'
  PROVE  FirstGoesOn
<1>1. FirstOf(p) /\ created[p] \in Nat /\ Other(p) \in Peers /\ Other(p) # p
  BY Numbers DEF FirstOnly
<1>2. created'[p] >= created[p] /\ created'[p] \in Nat
  BY <1>1 DEF Keeps, Renews, SameConnection
<1>3. created'[Other(p)] = created[Other(p)] /\ created[Other(p)] \in Nat
  BY <1>1, Numbers DEF Others
<1>4. FirstOf(p)'
  <2>1. CASE Renews(p) /\ ~Has(p)
    <3>1. created[p] = 0
      BY <1>1, <2>1 DEF FirstOf
    <3>2. QED
      BY <1>1, <1>3, <2>1, <3>1 DEF FirstOf, Renews
  <2>2. CASE Keeps(p)
    BY <1>1, <1>3, <2>2 DEF FirstOf, Keeps, SameConnection
  <2>3. CASE /\ SameConnection(p) /\ slot'[p].remote = 1 /\ slot'[p].agreed = 1
             /\ created[Other(p)] = 1
    BY <1>1, <1>3, <2>3 DEF FirstOf, SameConnection
  <2>4. QED
    BY <2>1, <2>2, <2>3
<1>5. ASSUME NEW q \in Peers, q # p PROVE FirstOf(q)'
  <2>1. FirstOf(q) /\ Other(q) = p
    BY <1>5, TwoPeers DEF FirstOnly
  <2>2. Has(q) => slot[q].remote \in Nat
    BY Numbers
  <2>3. /\ slot'[q] = slot[q] /\ created'[q] = created[q] /\ (Has(q)' <=> Has(q))
        /\ outbox'[q] = outbox[q] /\ poll'[q] = poll[q]
    BY <1>5 DEF Others
  <2>4. Has(q)' => slot'[q].remote <= created'[p]
    BY <1>1, <1>2, <2>1, <2>2, <2>3 DEF FirstOf
  <2>5. QED
    BY <2>1, <2>3, <2>4 DEF FirstOf, Current
<1>6. ASSUME NEW q \in Peers, Has(q) PROVE Has(q)' /\ slot'[q].pc = slot[q].pc
  BY <1>6 DEF Others, Keeps, SameConnection
<1>7. QED
  BY <1>4, <1>5, <1>6 DEF FirstOnly, FirstGoesOn

\* A handler's connection is still there.
LEMMA FirstCurrent ==
  ASSUME FirstOnly, NEW p \in Peers, Keeps(p) \/ (Renews(p) /\ ~Has(p)) \/ SameConnection(p),
         NEW k \in Polls[p], poll'[p][k] = poll[p][k], poll'[p][k].step \in {"setRemote", "setLocal"}
  PROVE  Current(p, k)'
<1>1. Current(p, k) /\ Has(p)
  BY DEF FirstOnly, FirstOf, Current
<1>2. QED
  BY <1>1 DEF Current, Keeps, SameConnection

LEMMA FirstKept ==
  ASSUME PeerTypes, LastCreated, SignalsInOrder, FirstOnly, RoomNext,
         \A p \in Peers : ~Watchdog(p) /\ ~Close(p) /\ ~Leaves(p),
         \A p \in Peers : Has(p) => p \in roster /\ Other(p) \in roster
  PROVE  FirstGoesOn
<1>1. PICK p \in Peers : Join(p) \/ Runs(p) \/ Breaks(p)
  BY DEF RoomNext
<1>2. /\ FirstOf(p) /\ created[p] \in Nat /\ Other(p) \in Peers
      /\ \A q \in Peers : \A i \in DOMAIN relay[q] : relay[q][i].pc = 1
      /\ \A i \in DOMAIN outbox[p] : outbox[p][i].pc = 1
      /\ Has(p) => created[p] = 1
  BY Numbers DEF FirstOnly, FirstOf, LastCreated
<1>3. CASE NegotiationNeeded(p) \/ Connects(p) \/ Loses(p) \/ Breaks(p)
  <2>1. Others(p) /\ Keeps(p)
    BY <1>3, NegotiationNeededDoes, ConnectsDoes, FailsDoes
  <2>2. UNCHANGED <<closed, outbox, relay, poll>>
    BY <1>3 DEF NegotiationNeeded, Connects, Loses, Breaks
  <2>3. \A k \in Polls[p] : poll'[p][k].step \in {"setRemote", "setLocal"} => Current(p, k)'
    BY <2>1, <2>2, FirstCurrent
  <2>4. QED
    BY <1>2, <2>1, <2>2, <2>3, FirstStill
<1>4. CASE Join(p)
  <2>1. /\ Others(p) /\ (Keeps(p) \/ Renews(p) \/ (~Has(p)' /\ created'[p] = created[p]))
        /\ ~Has(p)
    BY <1>4, JoinDoes DEF Join, Joined
  <2>2. UNCHANGED <<closed, outbox, relay, poll>>
    BY <1>4 DEF Join
  <2>3. Keeps(p) \/ (Renews(p) /\ ~Has(p))
    BY <2>1 DEF Keeps, SameConnection
  <2>4. \A k \in Polls[p] : poll'[p][k].step \in {"setRemote", "setLocal"} => Current(p, k)'
    BY <2>2, <2>3, FirstCurrent
  <2>5. Others(p)
    BY <1>4, JoinDoes
  <2>6. QED
    BY <1>2, <2>2, <2>3, <2>4, <2>5, FirstStill
<1>5. CASE PostSignal(p) \/ CreateOffer(p)
  <2>1. /\ Others(p) /\ Keeps(p) /\ UNCHANGED <<created, closed, poll>>
        /\ Posts(p) \/ (Has(p) /\ Queues(p) /\ UNCHANGED relay)
    BY <1>5, PostSignalDoes, CreateOfferDoes DEF PostSignal, CreateOffer
  <2>2. \A i \in DOMAIN outbox'[p] : outbox'[p][i].pc = 1
    BY <1>2, <2>1, OrderPosted, QueuedSignals
  <2>3. ASSUME NEW q \in Peers PROVE \A i \in DOMAIN relay'[q] : relay'[q][i].pc = 1
    <3>1. q = p \/ q = Other(p)
      BY TwoPeers
    <3>2. QED
      BY <1>2, <2>1, <3>1, OrderPosted
  <2>4. \A k \in Polls[p] : poll'[p][k].step \in {"setRemote", "setLocal"} => Current(p, k)'
    BY <2>1, FirstCurrent
  <2>5. QED
    BY <2>1, <2>2, <2>3, <2>4, FirstStill
<1>6. ASSUME NEW k \in Polls[p], Poll(p, k) PROVE FirstGoesOn
  <2>1. /\ Others(p) /\ (Keeps(p) \/ (Renews(p) /\ ~Has(p)))
        /\ \A j \in Polls[p] : poll'[p][j] = poll[p][j] \/ poll'[p][j].step \in {"next", "post"}
    BY <1>6, PollDoes
  <2>2. UNCHANGED <<closed, outbox, relay>>
    BY <1>6 DEF Poll
  <2>3. \A j \in Polls[p] : poll'[p][j].step \in {"setRemote", "setLocal"} => Current(p, j)'
    BY <2>1, FirstCurrent
  <2>4. QED
    BY <1>2, <2>1, <2>2, <2>3, FirstStill
<1>7. ASSUME NEW k \in Polls[p], Take(p, k) PROVE FirstGoesOn
  <2>1. /\ Others(p) /\ (Keeps(p) \/ (Renews(p) /\ ~Has(p)))
        /\ \A j \in Polls[p] : \/ j # k /\ poll'[p][j] = poll[p][j]
                               \/ poll'[p][j].step \in {"next", "post"}
                               \/ j = k /\ Has(p)' /\ poll'[p][k].pc = slot'[p].pc
    BY <1>7, TakeDoes
  <2>2. UNCHANGED <<closed, outbox, relay>>
    BY <1>7 DEF Take
  <2>3. \A j \in Polls[p] : poll'[p][j].step \in {"setRemote", "setLocal"} => Current(p, j)'
    BY <2>1, FirstCurrent DEF Current
  <2>4. QED
    BY <1>2, <2>1, <2>2, <2>3, FirstStill
<1>8. ASSUME NEW k \in Polls[p], SetRemote(p, k) PROVE FirstGoesOn
  <2>1. /\ Others(p) /\ SameConnection(p) /\ Has(p) /\ Busy(p, k)
        /\ poll[p][k].step = "setRemote"
        /\ slot'[p].remote = relay[p][poll[p][k].at].pc /\ slot'[p].agreed = slot'[p].remote
        /\ \A j \in Polls[p] : j # k => poll'[p][j] = poll[p][j]
    BY <1>8, SetRemoteDoes
  <2>2. UNCHANGED <<closed, outbox, relay>>
    BY <1>8 DEF SetRemote
  <2>3. poll[p][k].at \in DOMAIN relay[p]
    BY <2>1, HandlerAt
  <2>4. slot'[p].remote = 1
    BY <1>2, <2>1, <2>3
  <2>5. relay[p][poll[p][k].at].pc <= created[Other(p)] /\ created[Other(p)] <= 1
        /\ created[Other(p)] \in Nat
    <3>1. InOrder(Other(p)) /\ Other(Other(p)) = p /\ FirstOf(Other(p))
      BY <1>2, TwoPeers DEF SignalsInOrder, FirstOnly
    <3>2. QED
      BY <2>3, <3>1, Numbers DEF InOrder, FirstOf
  <2>6. created[Other(p)] = 1
    BY <1>2, <2>3, <2>5
  <2>7. \A j \in Polls[p] : poll'[p][j].step \in {"setRemote", "setLocal"} => Current(p, j)'
    <3>1. poll'[p][k].pc = poll[p][k].pc
      <4>1. PollTypes /\ poll[p][k] \in PollStates
        BY PollOf DEF PeerTypes
      <4>2. PICK step \in {"setLocal", "next"} : poll' = [poll EXCEPT ![p][k].step = step]
        BY <1>8 DEF SetRemote, Step
      <4>3. QED
        BY <4>1, <4>2 DEF PollTypes, PollStates
    <3>2. Current(p, k) /\ Has(p)
      BY <1>8 DEF SetRemote, Current
    <3>3. Current(p, k)'
      BY <2>1, <3>1, <3>2 DEF Current, SameConnection
    <3>4. QED
      BY <2>1, <3>3, FirstCurrent
  <2>8. QED
    BY <1>2, <2>1, <2>2, <2>4, <2>6, <2>7, FirstStill
<1>9. ASSUME NEW k \in Polls[p], RejectRemote(p, k) PROVE FirstGoesOn
  <2>1. ~(Rejects(p, k) /\ relay[p][poll[p][k].at].kind = "offer")
    <3> DEFINE sig == relay[p][poll[p][k].at]
    <3>1. poll[p][k].step = "setRemote" /\ Busy(p, k)
      BY <1>9, RejectRemoteDoes
    <3>2. /\ poll[p][k].at \in DOMAIN relay[p] /\ sig \in Signals
          /\ sig.kind = "offer" => sig.type = "offer"
      BY <3>1, HandlerAt
    <3>3. Current(p, k) /\ Has(p) /\ ~closed[p] /\ slot[p].remote \in {0, 1}
      BY <1>2, <3>1 DEF FirstOf, Current
    <3>4. sig.pc = 1
      BY <1>2, <3>2
    <3>5. QED
      BY <3>2, <3>3, <3>4 DEF Rejects
  <2>2. /\ Others(p) /\ Keeps(p)
        /\ \A j \in Polls[p] : poll'[p][j] = poll[p][j] \/ poll'[p][j].step \in {"next", "post"}
    BY <1>9, <2>1, RejectRemoteDoes
  <2>3. UNCHANGED <<closed, outbox, relay>>
    BY <1>9 DEF RejectRemote
  <2>4. \A j \in Polls[p] : poll'[p][j].step \in {"setRemote", "setLocal"} => Current(p, j)'
    BY <2>2, FirstCurrent
  <2>5. QED
    BY <1>2, <2>2, <2>3, <2>4, FirstStill
<1>10. ASSUME NEW k \in Polls[p], SetLocal(p, k) PROVE FirstGoesOn
  <2>1. /\ Others(p) /\ Keeps(p) /\ (UNCHANGED outbox \/ (Has(p) /\ Queues(p)))
        /\ \A j \in Polls[p] : poll'[p][j] = poll[p][j] \/ poll'[p][j].step \in {"next", "post"}
    BY <1>10, SetLocalDoes
  <2>2. UNCHANGED <<closed, relay>>
    BY <1>10 DEF SetLocal
  <2>3. \A i \in DOMAIN outbox'[p] : outbox'[p][i].pc = 1
    BY <1>2, <2>1, QueuedSignals
  <2>4. \A j \in Polls[p] : poll'[p][j].step \in {"setRemote", "setLocal"} => Current(p, j)'
    BY <2>1, FirstCurrent
  <2>5. QED
    BY <1>2, <2>1, <2>2, <2>3, <2>4, FirstStill
<1>11. ASSUME NEW k \in Polls[p], Posted(p, k) PROVE FirstGoesOn
  <2>1. /\ Others(p) /\ Keeps(p) /\ poll[p][k] \in PollStates
        /\ poll'[p][k] = [poll[p][k] EXCEPT !.step = "next"]
        /\ \A j \in Polls[p] : j # k => poll'[p][j] = poll[p][j]
    BY <1>11, PostedDoes, PollOf DEF PeerTypes
  <2>2. UNCHANGED <<closed, outbox, relay>>
    BY <1>11 DEF Posted
  <2>3. poll'[p][k].step = "next"
    BY <2>1 DEF PollStates
  <2>4. \A j \in Polls[p] : poll'[p][j].step \in {"setRemote", "setLocal"} => Current(p, j)'
    BY <2>1, <2>3, FirstCurrent
  <2>5. QED
    BY <1>2, <2>1, <2>2, <2>4, FirstStill
<1>12. ASSUME NEW k \in Polls[p], EndPoll(p, k) PROVE FirstGoesOn
  <2>1. /\ Others(p) /\ Keeps(p)
        /\ poll'[p][k] = NoPoll /\ \A j \in Polls[p] : j # k => poll'[p][j] = poll[p][j]
        /\ \A q \in Peers : q # p => relay'[q] = relay[q]
        /\ relay'[p] = relay[p] \/ relay'[p] = <<>>
    BY <1>12, EndPollDoes
  <2>2. UNCHANGED <<closed, outbox>>
    BY <1>12 DEF EndPoll
  <2>3. \A j \in Polls[p] : poll'[p][j].step \in {"setRemote", "setLocal"} => Current(p, j)'
    BY <2>1, FirstCurrent DEF NoPoll
  <2>4. \A q \in Peers : \A i \in DOMAIN relay'[q] : relay'[q][i].pc = 1
    BY <1>2, <2>1
  <2>5. QED
    BY <1>2, <2>1, <2>2, <2>3, <2>4, FirstStill
<1>13. QED
  BY <1>1, <1>3, <1>4, <1>5, <1>6, <1>7, <1>8, <1>9, <1>10, <1>11, <1>12 DEF Runs, Handler

(***************************************************************************)
(* The negotiation of the first connections: 2 dials, 1 answers.           *)
(***************************************************************************)
Sends(p, kind) == \E i \in DOMAIN outbox[p] : outbox[p][i].kind = kind
Unread(p, kind) == \E i \in DOMAIN relay[p] : i > cursor[p] /\ relay[p][i].kind = kind
Handles(p, kind) ==
  \E k \in Polls[p] : poll[p][k].step = "setRemote" /\ relay[p][poll[p][k].at].kind = kind
\* A signal is on its way to p.
Underway(p, kind) == Sends(Other(p), kind) \/ Unread(p, kind) \/ Handles(p, kind)

Knows(p) == Has(p) /\ slot[p].remote = 1
Answering == \E k \in Polls[1] : poll[1][k].step = "setLocal"
\* p has a candidate of the other end or will get it.
Reaches(p) ==
  \/ Underway(p, "ice")
  \/ Has(p) /\ slot[p].remote = 1 /\ 1 \in slot[p].candidates
  \/ Has(p) /\ slot[p].remote = 0 /\ 1 \in slot[p].pending

Fits(p, sig) == \/ sig.kind = "ice"
                \/ p = 2 /\ sig.kind = "offer"
                \/ p = 1 /\ sig.kind = "answer" /\ sig.type = "answer"
Kinds ==
  \A p \in Peers :
    /\ \A i \in DOMAIN outbox[p] : Fits(p, outbox[p][i])
    /\ \A i \in DOMAIN relay[p] : Fits(Other(p), relay[p][i])
    /\ \A k \in Polls[p] : poll[p][k].step = "setRemote" => relay[p][poll[p][k].at].kind # "ice"

Alive ==
  \A p \in Peers :
    /\ p \in roster => timer[p] \/ \E k \in Polls[p] : Busy(p, k)
    /\ \A k \in Polls[p] : Busy(p, k) => Has(p)
    /\ Has(p) => slot[p].agreed = slot[p].remote /\ slot[p].live # "failed"

Receiver ==
  /\ Has(1) => ~slot[1].needed /\ slot[1].making = "no"
  /\ Answering => Knows(1) /\ slot[1].signaling = "have-remote-offer"
  /\ Knows(1) => Answering \/ ((Underway(2, "answer") \/ Knows(2)) /\ Reaches(2))

BeforeOffer == ~Underway(1, "offer") /\ ~Underway(2, "answer") /\ ~Knows(1)
Dialer ==
  /\ \A k \in Polls[2] : poll[2][k].step \notin {"setLocal", "post"}
  /\ \/ ~Has(2) /\ BeforeOffer
     \/ /\ Has(2) /\ slot[2].signaling = "stable" /\ slot[2].remote = 0 /\ BeforeOffer
        /\ slot[2].making = (IF slot[2].needed THEN "no" ELSE "creating")
     \/ /\ Has(2) /\ ~slot[2].needed /\ slot[2].making # "creating"
        /\ slot[2].signaling = (IF Knows(2) THEN "stable" ELSE "have-local-offer")
        /\ Underway(1, "offer") \/ Knows(1)
        /\ Reaches(1)

Undisturbed == FirstOnly /\ Kinds /\ Alive /\ Receiver /\ Dialer
Early == PeerTypes /\ LastCreated /\ SignalsInOrder /\ CalmPeers /\ Undisturbed

\* When nothing is on its way there is nothing to negotiate.
LEMMA NoStall ==
  ASSUME Early, Quiet, NEW p \in Peers
  PROVE  ~Has(p)
<1>1. /\ \A q \in Peers : /\ outbox[q] = <<>> /\ cursor[q] = Len(relay[q])
                          /\ \A k \in Polls[q] : ~Busy(q, k)
                          /\ timer[q] => (Has(q) <=> Other(q) \in roster)
                          /\ Has(q) => /\ slot[q].making = "no"
                                       /\ ~(slot[q].needed /\ slot[q].signaling = "stable")
      /\ ~CanConnect
  BY DEF Quiet
<1>2. 1 \in Peers /\ 2 \in Peers /\ Other(1) = 2 /\ Other(2) = 1
  BY DEF Peers, Other
<1>3. ASSUME NEW q \in Peers, NEW kind PROVE ~Underway(q, kind)
  <2>1. Other(q) \in Peers /\ DOMAIN outbox[Other(q)] = {}
    BY <1>1, TwoPeers
  <2>2. \A i \in DOMAIN relay[q] : ~(i > cursor[q])
    <3>1. relay[q] \in Seq(Signals) /\ cursor[q] = Len(relay[q])
      BY <1>1 DEF Early, PeerTypes, SignalTypes
    <3>2. QED
      BY <3>1
  <2>3. QED
    BY <1>1, <2>1, <2>2 DEF Underway, Sends, Unread, Handles, Busy
<1>4. ~Answering
  BY <1>1, <1>2 DEF Answering, Busy
<1>5. ~Has(2)
  <2> SUFFICES ASSUME Has(2) PROVE FALSE
    OBVIOUS
  <2>1. /\ ~slot[2].needed /\ Knows(1) /\ Reaches(1)
    BY <1>1, <1>2, <1>3 DEF Early, Undisturbed, Dialer
  <2>2. Knows(2) /\ Reaches(2)
    BY <1>2, <1>3, <1>4, <2>1 DEF Early, Undisturbed, Receiver
  <2>3. \A q \in Peers : Knows(q) /\ 1 \in slot[q].candidates
    <3>1. 1 \in slot[1].candidates /\ 1 \in slot[2].candidates
      BY <1>2, <1>3, <2>1, <2>2 DEF Reaches, Knows
    <3>2. QED
      BY <2>1, <2>2, <3>1 DEF Peers
  <2>4. \A q \in Peers : slot[q].pc = 1 /\ slot[q].agreed = 1
    BY <2>3, Numbers DEF Early, Undisturbed, FirstOnly, FirstOf, Alive, Knows, LastCreated
  <2>5. CanConnect
    BY <2>3, <2>4, TwoPeers DEF CanConnect, Knows
  <2>6. QED
    BY <1>1, <2>5
<1>6. ~Has(1)
  <2> SUFFICES ASSUME Has(1) PROVE FALSE
    OBVIOUS
  <2>1. OnePoll(1) /\ Other(1) = 2
    BY <1>2 DEF Early, CalmPeers
  <2>2. 1 \in roster /\ 2 \in roster
    BY <2>1 DEF OnePoll
  <2>3. timer[2]
    BY <1>1, <1>2, <2>2 DEF Early, Undisturbed, Alive
  <2>4. QED
    BY <1>1, <1>2, <1>5, <2>2, <2>3
<1>7. QED
  BY <1>5, <1>6 DEF Peers

(***************************************************************************)
(* Signals and handlers that a step leaves alone.                          *)
(***************************************************************************)
LEMMA UnderwaySame ==
  ASSUME UNCHANGED <<outbox, relay, cursor, poll>>
  PROVE  /\ \A p, kind : Underway(p, kind)' <=> Underway(p, kind)
         /\ Answering' <=> Answering
         /\ Kinds' <=> Kinds
BY DEF Underway, Sends, Unread, Handles, Answering, Kinds, Fits

\* The negotiation, as long as both keep what they know and no signal is gained or lost.
SameTalk(p) ==
  /\ Has(p)' <=> Has(p)
  /\ Has(p) => /\ slot'[p].remote = slot[p].remote /\ slot'[p].needed = slot[p].needed
               /\ slot'[p].signaling = slot[p].signaling
               /\ slot'[p].candidates = slot[p].candidates
               /\ slot'[p].pending = slot[p].pending
               /\ \/ slot'[p].making = slot[p].making
                  \/ slot[p].making = "posting" /\ slot'[p].making = "no"

LEMMA TalkKept ==
  ASSUME Receiver, Dialer, SameTalk(1), SameTalk(2),
         \A p \in Peers : \A kind \in {"offer", "answer", "ice"} :
           Underway(p, kind)' <=> Underway(p, kind),
         Answering' <=> Answering,
         \A k \in Polls[2] : poll'[2][k].step \notin {"setLocal", "post"}
  PROVE  Receiver' /\ Dialer'
<1>1. 1 \in Peers /\ 2 \in Peers
  BY DEF Peers
<1>2. /\ (Knows(1)' <=> Knows(1)) /\ (Knows(2)' <=> Knows(2))
      /\ (Reaches(1)' <=> Reaches(1)) /\ (Reaches(2)' <=> Reaches(2))
      /\ BeforeOffer' <=> BeforeOffer
  BY <1>1 DEF SameTalk, Knows, Reaches, BeforeOffer
<1>3. Receiver'
  BY <1>1, <1>2 DEF Receiver, SameTalk, Knows
<1>4. Dialer'
  <2>1. CASE ~Has(2) /\ BeforeOffer
    BY <1>2, <2>1 DEF Dialer, SameTalk
  <2>2. CASE /\ Has(2) /\ slot[2].signaling = "stable" /\ slot[2].remote = 0 /\ BeforeOffer
             /\ slot[2].making = (IF slot[2].needed THEN "no" ELSE "creating")
    BY <1>2, <2>2 DEF Dialer, SameTalk
  <2>3. CASE /\ Has(2) /\ ~slot[2].needed /\ slot[2].making # "creating"
             /\ slot[2].signaling = (IF Knows(2) THEN "stable" ELSE "have-local-offer")
             /\ Underway(1, "offer") \/ Knows(1)
             /\ Reaches(1)
    BY <1>1, <1>2, <2>3 DEF Dialer, SameTalk
  <2>4. QED
    BY <2>1, <2>2, <2>3 DEF Dialer
<1>5. QED
  BY <1>3, <1>4

LEMMA TalkConnects ==
  ASSUME Early, NEW p \in Peers, Connects(p)
  PROVE  (Kinds /\ Alive /\ Receiver /\ Dialer)'
<1>1. /\ slot \in [Peers -> {NoSlot} \cup Slots] /\ Has(p) /\ slot[p] \in Slots
      /\ \A q \in Peers : Has(q) => slot[q] \in Slots
  BY HeldSlot DEF Early, PeerTypes, SlotTypes, Connects, CanConnect
<1>2. /\ slot' = [slot EXCEPT ![p].live = "connected", ![p].recovery = 0, ![p].terminal = FALSE]
      /\ UNCHANGED <<outbox, relay, cursor, poll, timer, roster>>
  BY DEF Connects
<1>3. Others(p) /\ Keeps(p)
  BY ConnectsDoes DEF Early
<1>4. ASSUME NEW q \in Peers
      PROVE  /\ SameTalk(q) /\ (Has(q)' <=> Has(q))
             /\ Has(q) => /\ slot'[q].agreed = slot[q].agreed
                          /\ slot'[q].live = slot[q].live \/ slot'[q].live = "connected"
  <2>1. CASE q = p
    <3>1. /\ slot'[p].remote = slot[p].remote /\ slot'[p].needed = slot[p].needed
          /\ slot'[p].signaling = slot[p].signaling /\ slot'[p].candidates = slot[p].candidates
          /\ slot'[p].pending = slot[p].pending /\ slot'[p].making = slot[p].making
          /\ slot'[p].agreed = slot[p].agreed /\ slot'[p].live = "connected"
      BY <1>1, <1>2 DEF Slots
    <3>2. Has(p)' <=> Has(p)
      BY <1>3 DEF Keeps, SameConnection
    <3>3. QED
      BY <2>1, <3>1, <3>2 DEF SameTalk
  <2>2. CASE q # p
    BY <1>3, <2>2 DEF Others, SameTalk
  <2>3. QED
    BY <2>1, <2>2
<1>5. Alive'
  <2> SUFFICES ASSUME NEW q \in Peers
               PROVE  /\ q \in roster' => timer'[q] \/ \E k \in Polls[q] : Busy(q, k)'
                      /\ \A k \in Polls[q] : Busy(q, k)' => Has(q)'
                      /\ Has(q)' => slot'[q].agreed = slot'[q].remote /\ slot'[q].live # "failed"
    BY DEF Alive
  <2>1. /\ Has(q)' <=> Has(q)
        /\ Has(q) => /\ slot'[q].agreed = slot[q].agreed /\ slot'[q].remote = slot[q].remote
                     /\ slot'[q].live = slot[q].live \/ slot'[q].live = "connected"
    BY <1>4 DEF SameTalk
  <2>2. QED
    BY <1>2, <2>1 DEF Early, Undisturbed, Alive, Busy
<1>6. 1 \in Peers /\ 2 \in Peers
  BY DEF Peers
<1>7. Receiver' /\ Dialer'
  BY <1>2, <1>4, <1>6, UnderwaySame, TalkKept DEF Early, Undisturbed, Dialer
<1>8. QED
  BY <1>2, <1>5, <1>7, UnderwaySame DEF Early, Undisturbed

LEMMA TalkNeeded ==
  ASSUME Early, NEW p \in Peers, NegotiationNeeded(p)
  PROVE  (Kinds /\ Alive /\ Receiver /\ Dialer)'
<1>1. /\ Has(p) /\ slot[p].needed /\ slot[p].making = "no" /\ slot[p].signaling = "stable"
      /\ slot' = [slot EXCEPT ![p].needed = FALSE, ![p].making = "creating"]
      /\ UNCHANGED <<outbox, relay, cursor, poll, timer, roster>>
  BY DEF NegotiationNeeded
<1>2. p = 2 /\ 1 \in Peers /\ 2 \in Peers
  BY <1>1 DEF Early, Undisturbed, Receiver, Peers
<1>3. slot \in [Peers -> {NoSlot} \cup Slots] /\ slot[2] \in Slots
  BY <1>1, <1>2, HeldSlot DEF Early, PeerTypes, SlotTypes
<1>4. Others(p) /\ Keeps(p)
  BY NegotiationNeededDoes DEF Early
<1>5. slot'[1] = slot[1] /\ (Has(1)' <=> Has(1)) /\ Has(2)'
  <2>1. 1 # p /\ Has(p)'
    BY <1>1, <1>2, <1>4 DEF Keeps, SameConnection
  <2>2. QED
    BY <1>2, <1>4, <2>1 DEF Others
<1>6. /\ slot'[2].remote = slot[2].remote /\ ~slot'[2].needed /\ slot'[2].making = "creating"
      /\ slot'[2].signaling = slot[2].signaling /\ slot'[2].candidates = slot[2].candidates
      /\ slot'[2].pending = slot[2].pending
      /\ slot'[2].agreed = slot[2].agreed /\ slot'[2].live = slot[2].live
  BY <1>1, <1>2, <1>3 DEF Slots
<1>7. Alive'
  <2> SUFFICES ASSUME NEW q \in Peers
               PROVE  /\ q \in roster' => timer'[q] \/ \E k \in Polls[q] : Busy(q, k)'
                      /\ \A k \in Polls[q] : Busy(q, k)' => Has(q)'
                      /\ Has(q)' => slot'[q].agreed = slot'[q].remote /\ slot'[q].live # "failed"
    BY DEF Alive
  <2>1. Has(q)' <=> Has(q)
    BY <1>1, <1>2, <1>5 DEF Peers
  <2>2. Has(q) => slot'[q].agreed = slot[q].agreed /\ slot'[q].remote = slot[q].remote
                  /\ slot'[q].live = slot[q].live
    BY <1>5, <1>6 DEF Peers
  <2>3. QED
    BY <1>1, <2>1, <2>2 DEF Early, Undisturbed, Alive, Busy
<1>8. BeforeOffer /\ slot[2].remote = 0
  BY <1>1, <1>2 DEF Early, Undisturbed, Dialer
<1>9. BeforeOffer' /\ ~Knows(2)' /\ ~Knows(2) /\ ~Knows(1)' /\ ~Answering'
  BY <1>1, <1>5, <1>6, <1>8, UnderwaySame DEF BeforeOffer, Knows, Early, Undisturbed, Receiver
<1>10. Receiver'
  BY <1>5, <1>9 DEF Early, Undisturbed, Receiver
<1>11. Dialer'
  BY <1>1, <1>2, <1>5, <1>6, <1>8, <1>9 DEF Early, Undisturbed, Dialer
<1>12. QED
  BY <1>1, <1>7, <1>10, <1>11, UnderwaySame DEF Early, Undisturbed

\* Signals that are added to a queue.
LEMMA MoreSends ==
  ASSUME PeerTypes, NEW p \in Peers, NEW a \in Signals, NEW b \in Signals,
         outbox' = [outbox EXCEPT ![p] = @ \o <<a, b>>]
  PROVE  /\ \A kind : Sends(p, kind)' <=> Sends(p, kind) \/ kind \in {a.kind, b.kind}
         /\ \A i \in DOMAIN outbox'[p] : \/ outbox'[p][i] \in {a, b}
                                         \/ \E j \in DOMAIN outbox[p] : outbox'[p][i] = outbox[p][j]
<1>1. outbox[p] \in Seq(Signals) /\ outbox'[p] = outbox[p] \o <<a, b>>
  BY DEF PeerTypes, SignalTypes
<1>2. /\ outbox'[p] \in Seq(Signals) /\ Len(outbox'[p]) = Len(outbox[p]) + 2 /\ Len(outbox[p]) \in Nat
      /\ \A i \in 1..Len(outbox[p]) : outbox'[p][i] = outbox[p][i]
      /\ outbox'[p][Len(outbox[p]) + 1] = a /\ outbox'[p][Len(outbox[p]) + 2] = b
      /\ \A i \in DOMAIN outbox'[p] : i \in 1..Len(outbox[p]) \/ outbox'[p][i] \in {a, b}
  BY <1>1, TwoMore
<1>3. DOMAIN outbox[p] = 1..Len(outbox[p]) /\ DOMAIN outbox'[p] = 1..(Len(outbox[p]) + 2)
  BY <1>1, <1>2
<1>4. /\ \A i \in DOMAIN outbox[p] : i \in DOMAIN outbox'[p]
      /\ Len(outbox[p]) + 1 \in DOMAIN outbox'[p] /\ Len(outbox[p]) + 2 \in DOMAIN outbox'[p]
  BY <1>2, <1>3
<1>5. QED
  BY <1>2, <1>3, <1>4 DEF Sends

LEMMA TalkOffers ==
  ASSUME Early, NEW p \in Peers, CreateOffer(p)
  PROVE  (Kinds /\ Alive /\ Receiver /\ Dialer)'
<1> DEFINE a == Signal("offer", "offer", slot[p].pc)
           b == Signal("ice", "ice", slot[p].pc)
<1>1. /\ Has(p) /\ slot[p].making = "creating"
      /\ slot' = [slot EXCEPT ![p].making = "posting", ![p].signaling = "have-local-offer"]
      /\ outbox' = [outbox EXCEPT ![p] = @ \o <<a, b>>]
      /\ UNCHANGED <<relay, cursor, poll, timer, roster>>
  BY DEF CreateOffer
<1>2. p = 2 /\ 1 \in Peers /\ 2 \in Peers /\ Other(1) = 2 /\ Other(2) = 1
  BY <1>1 DEF Early, Undisturbed, Receiver, Peers, Other
<1>3. slot \in [Peers -> {NoSlot} \cup Slots] /\ slot[2] \in Slots /\ slot[p].pc \in Nat
  BY <1>1, <1>2, HeldSlot, Numbers DEF Early, PeerTypes, SlotTypes
<1>4. Others(p) /\ Keeps(p)
  BY CreateOfferDoes DEF Early
<1>5. /\ a \in Signals /\ b \in Signals /\ a.kind = "offer" /\ b.kind = "ice" /\ a.type = "offer"
      /\ Fits(p, a) /\ Fits(p, b)
  BY <1>2, <1>3 DEF Signal, Signals, Fits
<1> HIDE DEF a, b
<1>6. slot'[1] = slot[1] /\ (Has(1)' <=> Has(1)) /\ Has(2)' /\ outbox'[1] = outbox[1]
  <2>1. 1 # p /\ Has(p)'
    BY <1>1, <1>2, <1>4 DEF Keeps, SameConnection
  <2>2. QED
    BY <1>2, <1>4, <2>1 DEF Others
<1>7. /\ slot'[2].remote = slot[2].remote /\ slot'[2].needed = slot[2].needed
      /\ slot'[2].making = "posting" /\ slot'[2].signaling = "have-local-offer"
      /\ slot'[2].candidates = slot[2].candidates /\ slot'[2].pending = slot[2].pending
      /\ slot'[2].agreed = slot[2].agreed /\ slot'[2].live = slot[2].live
  BY <1>1, <1>2, <1>3 DEF Slots
<1>8. Alive'
  <2> SUFFICES ASSUME NEW q \in Peers
               PROVE  /\ q \in roster' => timer'[q] \/ \E k \in Polls[q] : Busy(q, k)'
                      /\ \A k \in Polls[q] : Busy(q, k)' => Has(q)'
                      /\ Has(q)' => slot'[q].agreed = slot'[q].remote /\ slot'[q].live # "failed"
    BY DEF Alive
  <2>1. Has(q)' <=> Has(q)
    BY <1>1, <1>2, <1>6 DEF Peers
  <2>2. Has(q) => slot'[q].agreed = slot[q].agreed /\ slot'[q].remote = slot[q].remote
                  /\ slot'[q].live = slot[q].live
    BY <1>6, <1>7 DEF Peers
  <2>3. QED
    BY <1>1, <2>1, <2>2 DEF Early, Undisturbed, Alive, Busy
<1>9. /\ \A kind : Sends(p, kind)' <=> Sends(p, kind) \/ kind \in {a.kind, b.kind}
      /\ \A i \in DOMAIN outbox'[p] : \/ outbox'[p][i] \in {a, b}
                                      \/ \E j \in DOMAIN outbox[p] : outbox'[p][i] = outbox[p][j]
  BY <1>1, <1>5, MoreSends DEF Early
<1>10. Kinds'
  <2>1. \A q \in Peers : \A i \in DOMAIN outbox'[q] : Fits(q, outbox'[q][i])
    BY <1>2, <1>5, <1>6, <1>9 DEF Early, Undisturbed, Kinds, Peers
  <2>2. QED
    BY <1>1, <2>1 DEF Early, Undisturbed, Kinds, Fits
<1>11. /\ BeforeOffer /\ slot[2].remote = 0 /\ ~slot[2].needed
  BY <1>1, <1>2 DEF Early, Undisturbed, Dialer
<1>12. Underway(1, "offer")' /\ Underway(1, "ice")'
  BY <1>2, <1>5, <1>9 DEF Underway
<1>13. ~Knows(1)' /\ ~Knows(2)' /\ ~Answering' /\ Reaches(1)'
  BY <1>1, <1>6, <1>7, <1>11, <1>12
  DEF BeforeOffer, Knows, Early, Undisturbed, Receiver, Answering, Reaches
<1>14. Receiver'
  BY <1>6, <1>13 DEF Early, Undisturbed, Receiver
<1>15. Dialer'
  BY <1>1, <1>6, <1>7, <1>11, <1>12, <1>13 DEF Early, Undisturbed, Dialer
<1>16. QED
  BY <1>8, <1>10, <1>14, <1>15

LEMMA AliveStill ==
  ASSUME Alive,
         \A q \in Peers : /\ Has(q)' <=> Has(q)
                          /\ Has(q) => /\ slot'[q].live = slot[q].live
                                       /\ \/ slot'[q].agreed = slot'[q].remote
                                          \/ /\ slot'[q].agreed = slot[q].agreed
                                             /\ slot'[q].remote = slot[q].remote,
         \A q \in Peers : q \in roster' => timer'[q] \/ \E k \in Polls[q] : Busy(q, k)',
         \A q \in Peers : \A k \in Polls[q] : Busy(q, k)' => Busy(q, k)
  PROVE  Alive'
<1> SUFFICES ASSUME NEW q \in Peers
             PROVE  /\ q \in roster' => timer'[q] \/ \E k \in Polls[q] : Busy(q, k)'
                    /\ \A k \in Polls[q] : Busy(q, k)' => Has(q)'
                    /\ Has(q)' => slot'[q].agreed = slot'[q].remote /\ slot'[q].live # "failed"
  BY DEF Alive
<1>1. QED
  BY DEF Alive

LEMMA TalkPosts ==
  ASSUME Early, NEW p \in Peers, PostSignal(p), faults' = {}
  PROVE  (Kinds /\ Alive /\ Receiver /\ Dialer)'
<1> DEFINE q == Other(p)
           sig == Head(outbox[p])
<1>1. /\ q \in Peers /\ q # p /\ Other(q) = p /\ \A r \in Peers : r = p \/ r = q
      /\ 1 \in Peers /\ 2 \in Peers
  BY TwoPeers DEF Peers
<1>2. ~closed[q]
  BY <1>1 DEF Early, Undisturbed, FirstOnly, FirstOf
<1>3. /\ outbox[p] # <<>>
      /\ relay' = [relay EXCEPT ![q] = Append(@, sig)]
      /\ outbox' = [outbox EXCEPT ![p] = Tail(@)]
      /\ slot' = Made(p, sig)
      /\ UNCHANGED <<created, cursor, poll, timer, closed, roster>>
  BY <1>2 DEF PostSignal, Fault
<1>4. Others(p) /\ Keeps(p)
  BY PostSignalDoes DEF Early
<1>5. /\ relay \in [Peers -> Seq(Signals)] /\ outbox \in [Peers -> Seq(Signals)]
      /\ outbox[p] \in Seq(Signals) /\ relay[q] \in Seq(Signals) /\ cursor[q] \in Nat
      /\ cursor[q] <= Len(relay[q])
  BY <1>1, Numbers DEF Early, PeerTypes, SignalTypes, InRelay
<1>6. sig \in Signals /\ sig = outbox[p][1] /\ 1 \in DOMAIN outbox[p]
  BY <1>3, <1>5
<1> HIDE DEF sig, q
<1>7. /\ \A i \in DOMAIN outbox'[p] : \E j \in DOMAIN outbox[p] : outbox'[p][i] = outbox[p][j]
      /\ \A i \in DOMAIN outbox[p] : \/ i = 1
                                     \/ \E j \in DOMAIN outbox'[p] : outbox'[p][j] = outbox[p][i]
  <2>1. /\ outbox'[p] = Tail(outbox[p])
        /\ \A i \in DOMAIN outbox'[p] : i + 1 \in DOMAIN outbox[p] /\ outbox'[p][i] = outbox[p][i + 1]
    BY <1>3, <1>5
  <2>2. \A i \in DOMAIN outbox[p] : i = 1 \/ (i - 1 \in DOMAIN outbox'[p]
                                              /\ outbox'[p][i - 1] = outbox[p][i])
    BY <1>3, <1>5
  <2>3. QED
    BY <2>1, <2>2
<1>8. /\ relay'[q] = Append(relay[q], sig) /\ relay'[p] = relay[p] /\ outbox'[q] = outbox[q]
      /\ Len(relay[q]) + 1 \in DOMAIN relay'[q] /\ relay'[q][Len(relay[q]) + 1] = sig
      /\ Len(relay[q]) + 1 > cursor[q]
      /\ \A i \in DOMAIN relay[q] : i \in DOMAIN relay'[q] /\ relay'[q][i] = relay[q][i]
      /\ \A i \in DOMAIN relay'[q] : i \in DOMAIN relay[q] \/ relay'[q][i] = sig
  BY <1>1, <1>3, <1>5
<1>9. \A kind : /\ Sends(p, kind)' => Sends(p, kind)
                /\ Sends(p, kind) => Sends(p, kind)' \/ kind = sig.kind
  BY <1>6, <1>7 DEF Sends
<1>10. Sends(p, sig.kind)
  BY <1>6 DEF Sends
<1>11. \A kind : Unread(q, kind)' <=> Unread(q, kind) \/ kind = sig.kind
  BY <1>3, <1>8 DEF Unread
<1>12. \A k \in Polls[q] : poll[q][k].step = "setRemote" =>
                             relay'[q][poll[q][k].at] = relay[q][poll[q][k].at]
  <2> SUFFICES ASSUME NEW k \in Polls[q], poll[q][k].step = "setRemote"
               PROVE  relay'[q][poll[q][k].at] = relay[q][poll[q][k].at]
    OBVIOUS
  <2>1. poll[q][k].at \in DOMAIN relay[q]
    BY <1>1, HandlerAt DEF Busy, Early
  <2>2. QED
    BY <1>8, <2>1
<1>13. \A kind : /\ Handles(q, kind)' <=> Handles(q, kind)
                 /\ Handles(p, kind)' <=> Handles(p, kind)
                 /\ Unread(p, kind)' <=> Unread(p, kind)
                 /\ Sends(q, kind)' <=> Sends(q, kind)
  <2>1. poll' = poll /\ cursor' = cursor
    BY <1>3
  <2>2. \A kind : /\ Unread(p, kind)' <=> Unread(p, kind)
                  /\ Sends(q, kind)' <=> Sends(q, kind)
                  /\ Handles(p, kind)' <=> Handles(p, kind)
    BY <1>8, <2>1 DEF Handles, Unread, Sends
  <2>3. \A kind : Handles(q, kind)' <=> Handles(q, kind)
    BY <1>12, <2>1 DEF Handles
  <2>4. QED
    BY <2>2, <2>3
<1>14. \A r \in Peers : \A kind : Underway(r, kind)' <=> Underway(r, kind)
  <2>1. \A kind : Underway(q, kind)' <=> Underway(q, kind)
    BY <1>1, <1>9, <1>10, <1>11, <1>13 DEF Underway
  <2>2. \A kind : Underway(p, kind)' <=> Underway(p, kind)
    BY <1>1, <1>13 DEF Underway, q
  <2>3. QED
    BY <1>1, <2>1, <2>2
<1>15. Has(p) /\ sig.kind = "offer" => slot[p].making # "creating"
  <2> SUFFICES ASSUME Has(p), sig.kind = "offer", slot[p].making = "creating" PROVE FALSE
    OBVIOUS
  <2>1. Fits(p, sig)
    BY <1>6 DEF Early, Undisturbed, Kinds
  <2>2. p = 2
    BY <2>1 DEF Fits
  <2>3. Underway(1, "offer")
    BY <1>10, <2>2 DEF Underway, Other
  <2>4. QED
    BY <2>2, <2>3 DEF Early, Undisturbed, Dialer, BeforeOffer
<1>16. SameTalk(p) /\ (Has(p) => slot'[p].agreed = slot[p].agreed /\ slot'[p].live = slot[p].live)
  <2>1. Has(p)' <=> Has(p)
    BY <1>4 DEF Keeps, SameConnection
  <2>2. CASE slot' = slot
    BY <2>1, <2>2 DEF SameTalk
  <2>3. CASE /\ Has(p) /\ sig.kind = "offer" /\ slot' = [slot EXCEPT ![p].making = "no"]
    <3>1. slot \in [Peers -> {NoSlot} \cup Slots] /\ slot[p] \in Slots
      BY <2>3, HeldSlot DEF Early, PeerTypes, SlotTypes
    <3>2. slot[p].making \in {"no", "posting"}
      BY <1>15, <2>3, <3>1 DEF Slots
    <3>3. /\ slot'[p].remote = slot[p].remote /\ slot'[p].needed = slot[p].needed
          /\ slot'[p].signaling = slot[p].signaling /\ slot'[p].candidates = slot[p].candidates
          /\ slot'[p].pending = slot[p].pending /\ slot'[p].making = "no"
          /\ slot'[p].agreed = slot[p].agreed /\ slot'[p].live = slot[p].live
      BY <2>3, <3>1 DEF Slots
    <3>4. QED
      BY <2>1, <3>2, <3>3 DEF SameTalk
  <2>4. QED
    BY <1>3, <2>2, <2>3 DEF Made
<1>17. SameTalk(q) /\ slot'[q] = slot[q] /\ (Has(q)' <=> Has(q))
  BY <1>1, <1>4 DEF Others, SameTalk
<1>18. Alive'
  <2>1. \A r \in Peers : /\ Has(r)' <=> Has(r)
                         /\ Has(r) => /\ slot'[r].agreed = slot[r].agreed
                                      /\ slot'[r].remote = slot[r].remote
                                      /\ slot'[r].live = slot[r].live
    BY <1>1, <1>16, <1>17 DEF SameTalk
  <2>2. \A r \in Peers : /\ r \in roster' => timer'[r] \/ \E k \in Polls[r] : Busy(r, k)'
                         /\ \A k \in Polls[r] : Busy(r, k)' => Busy(r, k)
    BY <1>3 DEF Early, Undisturbed, Alive, Busy
  <2>3. QED
    BY <2>1, <2>2, AliveStill DEF Early, Undisturbed
<1>19. Receiver' /\ Dialer'
  <2>1. SameTalk(1) /\ SameTalk(2)
    BY <1>1, <1>16, <1>17
  <2>2. (Answering' <=> Answering) /\ \A k \in Polls[2] : poll'[2][k].step \notin {"setLocal", "post"}
    BY <1>3 DEF Answering, Early, Undisturbed, Dialer
  <2>3. QED
    BY <1>14, <2>1, <2>2, TalkKept DEF Early, Undisturbed
<1>20. Kinds'
  <2>1. Fits(p, sig)
    BY <1>6 DEF Early, Undisturbed, Kinds
  <2>2. ASSUME NEW r \in Peers
        PROVE  /\ \A i \in DOMAIN outbox'[r] : Fits(r, outbox'[r][i])
               /\ \A i \in DOMAIN relay'[r] : Fits(Other(r), relay'[r][i])
               /\ \A k \in Polls[r] : poll[r][k].step = "setRemote"
                                        => relay'[r][poll[r][k].at].kind # "ice"
    <3>1. CASE r = p
      BY <1>7, <1>8, <3>1 DEF Early, Undisturbed, Kinds
    <3>2. CASE r = q
      BY <1>1, <1>8, <1>12, <2>1, <3>2 DEF Early, Undisturbed, Kinds
    <3>3. QED
      BY <1>1, <3>1, <3>2
  <2>3. poll' = poll
    BY <1>3
  <2>4. (\A r \in Peers : \A i \in DOMAIN outbox[r] : Fits(r, outbox[r][i]))'
    BY <2>2 DEF Fits
  <2>5. (\A r \in Peers : \A i \in DOMAIN relay[r] : Fits(Other(r), relay[r][i]))'
    BY <2>2 DEF Fits
  <2>6. (\A r \in Peers : \A k \in Polls[r] :
           poll[r][k].step = "setRemote" => relay[r][poll[r][k].at].kind # "ice")'
    BY <2>2, <2>3
  <2>7. QED
    BY <2>4, <2>5, <2>6 DEF Kinds
<1>21. QED
  BY <1>18, <1>19, <1>20

\* A peer that is not in a handler, and that may get its connection.
LEMMA TalkBegins ==
  ASSUME Early, NEW p \in Peers, Others(p), UNCHANGED <<outbox, relay, cursor>>,
         \/ UNCHANGED slot /\ (Has(p)' <=> Has(p))
         \/ ~Has(p) /\ Has(p)' /\ slot'[p] = NewSlot(1, Initiator(p)),
         \A k \in Polls[p] : ~Busy(p, k),
         \A k \in Polls[p] : Busy(p, k)' => Has(p)' /\ poll'[p][k].step = "next",
         timer'[p] \/ \E k \in Polls[p] : Busy(p, k)',
         roster' \subseteq roster \cup {p}
  PROVE  (Kinds /\ Alive /\ Receiver /\ Dialer)'
<1>1. /\ 1 \in Peers /\ 2 \in Peers /\ Other(1) = 2 /\ Other(2) = 1 /\ (p = 1 \/ p = 2)
      /\ Initiator(p) <=> p = 2
  BY DEF Peers, Other, Initiator
<1> DEFINE q == Other(p)
<1>2. /\ q \in Peers /\ q # p /\ \A r \in Peers : r = p \/ r = q
      /\ slot'[q] = slot[q] /\ (Has(q)' <=> Has(q)) /\ poll'[q] = poll[q] /\ timer'[q] = timer[q]
  BY TwoPeers DEF Others
<1> HIDE DEF q
<1>3. /\ \A k \in Polls[p] : poll[p][k].step = "idle"
      /\ \A k \in Polls[p] : poll'[p][k].step \in {"idle", "next"}
  BY DEF Busy
<1>4. \A r \in Peers : \A kind : Underway(r, kind)' <=> Underway(r, kind)
  <2>1. \A kind : ~Handles(p, kind) /\ ~Handles(p, kind)'
    BY <1>3 DEF Handles
  <2>2. \A kind : Handles(q, kind)' <=> Handles(q, kind)
    BY <1>2 DEF Handles
  <2>3. \A r, kind : (Sends(r, kind)' <=> Sends(r, kind)) /\ (Unread(r, kind)' <=> Unread(r, kind))
    BY DEF Sends, Unread
  <2>4. QED
    BY <1>2, <2>1, <2>2, <2>3 DEF Underway
<1>5. /\ Answering' <=> Answering
      /\ p = 1 => ~Answering
      /\ \A k \in Polls[2] : poll'[2][k].step \notin {"setLocal", "post"}
  <2>1. CASE p = 1
    BY <1>1, <1>2, <1>3, <2>1 DEF Answering, Early, Undisturbed, Dialer, q
  <2>2. CASE p = 2
    BY <1>1, <1>2, <1>3, <2>2 DEF Answering, q
  <2>3. QED
    BY <1>1, <2>1, <2>2
<1>6. Kinds'
  <2>1. ASSUME NEW r \in Peers, NEW k \in Polls[r], poll'[r][k].step = "setRemote"
        PROVE  relay'[r][poll'[r][k].at].kind # "ice"
    <3>1. r = q
      BY <1>2, <1>3, <2>1
    <3>2. QED
      BY <1>2, <2>1, <3>1 DEF Early, Undisturbed, Kinds
  <2>2. QED
    BY <2>1 DEF Early, Undisturbed, Kinds, Fits
<1>7. ASSUME Has(p)', ~Has(p)
      PROVE  /\ slot'[p].remote = 0 /\ slot'[p].agreed = 0 /\ slot'[p].live = "new"
             /\ slot'[p].candidates = {} /\ slot'[p].pending = {}
             /\ slot'[p].making = "no" /\ slot'[p].signaling = "stable"
             /\ p = 2 => slot'[p].needed
             /\ p = 1 => ~slot'[p].needed
  <2>1. slot'[p] = NewSlot(1, Initiator(p))
    BY <1>7
  <2>2. CASE p = 1
    <3>1. Initiator(p) = FALSE
      BY <2>2 DEF Initiator, Other
    <3>2. slot'[p] = NewSlot(1, FALSE)
      BY <2>1, <3>1
    <3>3. QED
      BY <2>2, <3>2 DEF NewSlot
  <2>3. CASE p = 2
    <3>1. Initiator(p) = TRUE
      BY <2>3 DEF Initiator, Other
    <3>2. slot'[p] = NewSlot(1, TRUE)
      BY <2>1, <3>1
    <3>3. QED
      BY <2>3, <3>2 DEF NewSlot
  <2>4. QED
    BY <1>1, <2>2, <2>3
<1>8. Alive'
  <2> SUFFICES ASSUME NEW r \in Peers
               PROVE  /\ r \in roster' => timer'[r] \/ \E k \in Polls[r] : Busy(r, k)'
                      /\ \A k \in Polls[r] : Busy(r, k)' => Has(r)'
                      /\ Has(r)' => slot'[r].agreed = slot'[r].remote /\ slot'[r].live # "failed"
    BY DEF Alive
  <2>1. CASE r = p
    BY <1>7, <2>1 DEF Early, Undisturbed, Alive
  <2>2. CASE r = q
    BY <1>2, <2>2 DEF Early, Undisturbed, Alive, Busy
  <2>3. QED
    BY <1>2, <2>1, <2>2
<1>9. Receiver' /\ Dialer'
  <2>1. CASE UNCHANGED slot /\ (Has(p)' <=> Has(p))
    <3>1. SameTalk(1) /\ SameTalk(2)
      BY <1>1, <1>2, <2>1 DEF SameTalk
    <3>2. QED
      BY <1>4, <1>5, <3>1, TalkKept DEF Early, Undisturbed
  <2>2. CASE ~Has(p) /\ Has(p)' /\ p = 1
    <3>1. q = 2 /\ ~Knows(1) /\ ~Knows(1)' /\ (Knows(2)' <=> Knows(2))
      BY <1>1, <1>2, <1>7, <2>2 DEF Knows, q
    <3>2. Reaches(1)' <=> Reaches(1)
      BY <1>1, <1>4, <1>7, <2>2 DEF Reaches
    <3>3. BeforeOffer' <=> BeforeOffer
      BY <1>1, <1>4, <3>1 DEF BeforeOffer
    <3>4. Receiver'
      <4>1. ~Answering'
        BY <1>5, <2>2
      <4>2. ~slot'[1].needed /\ slot'[1].making = "no"
        BY <1>7, <2>2
      <4>3. QED
        BY <3>1, <4>1, <4>2 DEF Receiver
    <3>5. slot'[2] = slot[2] /\ (Has(2)' <=> Has(2))
      BY <1>2, <3>1
    <3>6. Dialer
      BY DEF Early, Undisturbed
    <3>7. Dialer'
      <4>1. CASE ~Has(2) /\ BeforeOffer
        BY <1>5, <3>3, <3>5, <4>1 DEF Dialer
      <4>2. CASE /\ Has(2) /\ slot[2].signaling = "stable" /\ slot[2].remote = 0 /\ BeforeOffer
                 /\ slot[2].making = (IF slot[2].needed THEN "no" ELSE "creating")
        BY <1>5, <3>3, <3>5, <4>2 DEF Dialer
      <4>3. CASE /\ Has(2) /\ ~slot[2].needed /\ slot[2].making # "creating"
                 /\ slot[2].signaling = (IF Knows(2) THEN "stable" ELSE "have-local-offer")
                 /\ Underway(1, "offer") \/ Knows(1)
                 /\ Reaches(1)
        BY <1>1, <1>4, <1>5, <3>1, <3>2, <3>5, <4>3 DEF Dialer
      <4>4. QED
        BY <3>6, <4>1, <4>2, <4>3 DEF Dialer
    <3>8. QED
      BY <3>4, <3>7
  <2>3. CASE ~Has(p) /\ Has(p)' /\ p = 2
    <3>1. q = 1 /\ slot'[1] = slot[1] /\ (Has(1)' <=> Has(1)) /\ (Knows(1)' <=> Knows(1))
      BY <1>1, <1>2, <2>3 DEF Knows, q
    <3>2. BeforeOffer /\ BeforeOffer'
      BY <1>1, <1>4, <2>3, <3>1 DEF BeforeOffer, Early, Undisturbed, Dialer
    <3>3. ~Knows(1) /\ ~Knows(1)' /\ ~Answering /\ ~Answering'
      BY <1>5, <3>1, <3>2 DEF BeforeOffer, Early, Undisturbed, Receiver
    <3>4. Receiver'
      BY <3>1, <3>3 DEF Early, Undisturbed, Receiver
    <3>5. Dialer'
      BY <1>5, <1>7, <2>3, <3>2 DEF Dialer
    <3>6. QED
      BY <3>4, <3>5
  <2>4. QED
    BY <1>1, <2>1, <2>2, <2>3
<1>10. QED
  BY <1>6, <1>8, <1>9

\* What is in the relay was sent by a peer that is still there.
LEMMA SenderListed ==
  ASSUME Early, NEW p \in Peers, cursor[p] < Len(relay[p])
  PROVE  Other(p) \in roster
<1> DEFINE q == Other(p)
<1>1. q \in Peers /\ Other(q) = p /\ created[q] \in Nat
  BY Numbers DEF Early
<1>2. relay[p] \in Seq(Signals) /\ cursor[p] \in Nat
  BY Numbers DEF Early, PeerTypes, SignalTypes
<1>3. 1 \in DOMAIN relay[p]
  BY <1>2
<1>4. relay[p][1].pc = 1
  BY <1>3 DEF Early, Undisturbed, FirstOnly, FirstOf
<1>5. relay[p][1].pc <= created[q]
  BY <1>1, <1>3 DEF Early, SignalsInOrder, InOrder
<1>6. Has(q)
  BY <1>1, <1>4, <1>5 DEF Early, Undisturbed, FirstOnly, FirstOf
<1>7. QED
  BY <1>1, <1>6 DEF Early, CalmPeers, OnePoll

LEMMA TalkJoins ==
  ASSUME Early, NEW p \in Peers, Join(p)
  PROVE  (Kinds /\ Alive /\ Receiver /\ Dialer)'
<1>1. /\ Others(p) /\ p \notin roster /\ roster' = roster \cup {p}
      /\ UNCHANGED <<outbox, relay, cursor, poll>>
      /\ timer' = [timer EXCEPT ![p] = TRUE]
      /\ Reconcile(p, Other(p) \in roster)
  BY JoinDoes DEF Join, Joined, Early
<1>2. ~Has(p) /\ \A k \in Polls[p] : ~Busy(p, k)
  BY <1>1 DEF Early, CalmPeers, OnePoll
<1>3. timer'[p]
  BY <1>1 DEF Early, PeerTypes, RoomTypes
<1>4. created[p] = 0 /\ SlotTypes
  BY <1>2, Numbers DEF Early, Undisturbed, FirstOnly, FirstOf, PeerTypes
<1>5. \/ UNCHANGED slot /\ (Has(p)' <=> Has(p))
      \/ Has(p)' /\ slot'[p] = NewSlot(1, Initiator(p))
  <2>1. CASE Other(p) \in roster
    <3>1. slot' = [slot EXCEPT ![p] = NewSlot(1, Initiator(p))]
      BY <1>1, <1>2, <1>4, <2>1 DEF Reconcile, Connect
    <3>2. Has(p)'
      BY <1>1, <1>2, <1>4, <2>1, ReconcileTypes
    <3>3. QED
      BY <1>4, <3>1, <3>2 DEF SlotTypes
  <2>2. CASE Other(p) \notin roster
    <3>1. UNCHANGED slot
      BY <1>1, <1>2, <2>2 DEF Reconcile
    <3>2. QED
      BY <3>1 DEF Has
  <2>3. QED
    BY <2>1, <2>2
<1>6. \A k \in Polls[p] : ~Busy(p, k)'
  BY <1>1, <1>2 DEF Busy
<1>7. QED
  BY <1>1, <1>2, <1>3, <1>5, <1>6, TalkBegins

LEMMA TalkPolls ==
  ASSUME Early, NEW p \in Peers, NEW k \in Polls[p], Poll(p, k)
  PROVE  (Kinds /\ Alive /\ Receiver /\ Dialer)'
<1> DEFINE listed == Other(p) \in roster
           news == cursor[p] < Len(relay[p])
<1>1. /\ Others(p) /\ timer[p] /\ ~Busy(p, k)
      /\ \/ poll' = poll /\ timer'[p]
         \/ /\ poll'[p][k].step = "next"
            /\ \A j \in Polls[p] : j # k => poll'[p][j] = poll[p][j]
  BY PollDoes DEF Early
<1>2. /\ UNCHANGED <<outbox, relay, cursor, roster>> /\ Reconcile(p, listed)
      /\ poll' = poll \/ news
  BY DEF Poll
<1>3. \A j \in Polls[p] : ~Busy(p, j)
  BY <1>1 DEF Early, CalmPeers, OnePoll, Alone
<1>4. (Has(p) => listed) /\ SlotTypes
  BY DEF Early, CalmPeers, OnePoll, PeerTypes
<1>5. \/ UNCHANGED slot /\ (Has(p)' <=> Has(p)) /\ (listed => Has(p))
      \/ ~Has(p) /\ Has(p)' /\ slot'[p] = NewSlot(1, Initiator(p))
  <2>1. CASE listed /\ ~Has(p)
    <3>1. created[p] = 0
      BY <2>1, Numbers DEF Early, Undisturbed, FirstOnly, FirstOf
    <3>2. slot' = [slot EXCEPT ![p] = NewSlot(1, Initiator(p))]
      BY <1>2, <2>1, <3>1 DEF Reconcile, Connect
    <3>3. Has(p)'
      BY <1>2, <1>4, <2>1, ReconcileTypes
    <3>4. QED
      BY <1>4, <2>1, <3>2, <3>3 DEF SlotTypes
  <2>2. CASE listed <=> Has(p)
    <3>1. UNCHANGED slot
      BY <1>2, <2>2 DEF Reconcile
    <3>2. QED
      BY <2>2, <3>1 DEF Has
  <2>3. QED
    BY <1>4, <2>1, <2>2
<1>6. news => Has(p)'
  BY <1>5, SenderListed
<1>7. \A j \in Polls[p] : Busy(p, j)' => Has(p)' /\ poll'[p][j].step = "next"
  BY <1>1, <1>2, <1>3, <1>6 DEF Busy
<1>8. timer'[p] \/ \E j \in Polls[p] : Busy(p, j)'
  BY <1>1 DEF Busy
<1>9. QED
  BY <1>1, <1>2, <1>3, <1>5, <1>7, <1>8, TalkBegins

\* A handler that goes on: the other polls of the peer are idle, and the other
\* end's signals and polls stay as they are.
LEMMA OtherSignals ==
  ASSUME NEW p \in Peers, Others(p), \A q \in Peers : q # p => relay'[q] = relay[q]
  PROVE  LET q == Other(p) IN
         /\ q \in Peers /\ q # p /\ Other(q) = p /\ \A r \in Peers : r = p \/ r = q
         /\ slot'[q] = slot[q] /\ (Has(q)' <=> Has(q)) /\ poll'[q] = poll[q] /\ SameTalk(q)
         /\ timer'[q] = timer[q]
         /\ \A kind : /\ Sends(q, kind)' <=> Sends(q, kind)
                      /\ Unread(q, kind)' <=> Unread(q, kind)
                      /\ Handles(q, kind)' <=> Handles(q, kind)
<1> DEFINE q == Other(p)
<1>1. q \in Peers /\ q # p /\ Other(q) = p /\ \A r \in Peers : r = p \/ r = q
  BY TwoPeers
<1> HIDE DEF q
<1>2. /\ slot'[q] = slot[q] /\ (Has(q)' <=> Has(q)) /\ poll'[q] = poll[q] /\ timer'[q] = timer[q]
      /\ outbox'[q] = outbox[q] /\ relay'[q] = relay[q] /\ cursor'[q] = cursor[q]
  BY <1>1 DEF Others
<1>3. \A kind : /\ Sends(q, kind)' <=> Sends(q, kind)
                /\ Unread(q, kind)' <=> Unread(q, kind)
                /\ Handles(q, kind)' <=> Handles(q, kind)
  BY <1>2 DEF Sends, Unread, Handles
<1>4. SameTalk(q)
  BY <1>2 DEF SameTalk
<1>5. QED
  BY <1>1, <1>2, <1>3, <1>4 DEF q

LEMMA OnlyPoll ==
  ASSUME Early, NEW p \in Peers, NEW k \in Polls[p], Busy(p, k)
  PROVE  /\ \A j \in Polls[p] : j # k => poll[p][j].step = "idle"
         /\ Has(p) /\ slot[p] \in Slots /\ created[p] = 1 /\ slot[p].remote \in {0, 1}
         /\ poll[p][k].at = cursor[p] /\ ~closed[p]
<1>1. Has(p)
  BY DEF Early, Undisturbed, Alive
<1>2. slot[p] \in Slots
  BY <1>1, HeldSlot DEF Early, PeerTypes
<1>3. \A j \in Polls[p] : j # k => poll[p][j].step = "idle"
  BY DEF Early, CalmPeers, OnePoll, Busy
<1>4. created[p] \in Nat /\ created[p] <= 1 /\ created[p] >= 1
  BY <1>1, Numbers DEF Early, Undisturbed, FirstOnly, FirstOf, LastCreated
<1>5. QED
  BY <1>1, <1>2, <1>3, <1>4 DEF Early, Undisturbed, FirstOnly, FirstOf, CalmPeers, OnePoll

\* Posted and EndPoll: what the peer knows and what is on its way stay.
LEMMA TalkPauses ==
  ASSUME Early, NEW p \in Peers, NEW k \in Polls[p], Others(p), Posted(p, k) \/ EndPoll(p, k)
  PROVE  (Kinds /\ Alive /\ Receiver /\ Dialer)'
<1> DEFINE q == Other(p)
<1>1. /\ Busy(p, k) /\ poll[p][k].step \in {"next", "post"}
      /\ UNCHANGED <<slot, outbox, roster>>
  BY DEF Posted, EndPoll, Busy
<1>2. /\ \A j \in Polls[p] : j # k => poll[p][j].step = "idle"
      /\ Has(p) /\ ~closed[p]
  BY <1>1, OnlyPoll
<1>3. /\ \A j \in Polls[p] : j # k => poll'[p][j] = poll[p][j]
      /\ poll'[p][k].step \in {"idle", "next"}
      /\ timer'[p] \/ poll'[p][k].step = "next"
      /\ \A r \in Peers : r # p => relay'[r] = relay[r]
      /\ \/ relay'[p] = relay[p] /\ cursor'[p] = cursor[p]
         \/ /\ relay'[p] = <<>> /\ cursor[p] = Len(relay[p])
  <2>1. CASE Posted(p, k)
    <3>1. /\ poll'[p][k] = [poll[p][k] EXCEPT !.step = "next"] /\ poll[p][k] \in PollStates
          /\ \A j \in Polls[p] : j # k => poll'[p][j] = poll[p][j]
      BY <2>1, PostedDoes, PollOf DEF Early, PeerTypes
    <3>2. poll'[p][k].step = "next"
      BY <3>1 DEF PollStates
    <3>3. UNCHANGED <<relay, cursor, timer>>
      BY <2>1 DEF Posted
    <3>4. QED
      BY <3>1, <3>2, <3>3
  <2>2. CASE EndPoll(p, k)
    <3>1. /\ poll'[p][k] = NoPoll /\ \A j \in Polls[p] : j # k => poll'[p][j] = poll[p][j]
          /\ \A r \in Peers : r # p => relay'[r] = relay[r]
      BY <2>2, EndPollDoes DEF Early
    <3>2. timer'[p]
      BY <1>2, <2>2 DEF EndPoll, Early, PeerTypes, RoomTypes
    <3>3. \/ relay'[p] = relay[p] /\ cursor'[p] = cursor[p]
          \/ /\ relay'[p] = <<>> /\ cursor[p] = Len(relay[p])
      <4>1. relay \in [Peers -> Seq(Signals)] /\ cursor \in [Peers -> Nat]
        BY DEF Early, PeerTypes, SignalTypes, PollTypes
      <4>2. QED
        BY <2>2, <4>1 DEF EndPoll
    <3>4. QED
      BY <3>1, <3>2, <3>3 DEF NoPoll
  <2>3. QED
    BY <2>1, <2>2
<1>4. /\ q \in Peers /\ q # p /\ Other(q) = p /\ \A r \in Peers : r = p \/ r = q
      /\ slot'[q] = slot[q] /\ (Has(q)' <=> Has(q)) /\ poll'[q] = poll[q] /\ SameTalk(q)
      /\ timer'[q] = timer[q]
      /\ \A kind : /\ Sends(q, kind)' <=> Sends(q, kind)
                   /\ Unread(q, kind)' <=> Unread(q, kind)
                   /\ Handles(q, kind)' <=> Handles(q, kind)
  BY <1>3, OtherSignals
<1> HIDE DEF q
<1>5. \A kind : /\ ~Handles(p, kind) /\ ~Handles(p, kind)'
                /\ Unread(p, kind)' <=> Unread(p, kind)
                /\ Sends(p, kind)' <=> Sends(p, kind)
  <2>1. \A kind : ~Handles(p, kind)
    BY <1>1, <1>2 DEF Handles
  <2>2. \A kind : ~Handles(p, kind)'
    BY <1>2, <1>3 DEF Handles
  <2>3. \A kind : Sends(p, kind)' <=> Sends(p, kind)
    BY <1>1 DEF Sends
  <2>4. ASSUME NEW kind PROVE Unread(p, kind)' <=> Unread(p, kind)
    <3>1. CASE relay'[p] = relay[p] /\ cursor'[p] = cursor[p]
      BY <3>1 DEF Unread
    <3>2. CASE relay'[p] = <<>> /\ cursor[p] = Len(relay[p])
      <4>1. DOMAIN relay'[p] = {}
        BY <3>2
      <4>2. relay[p] \in Seq(Signals)
        BY DEF Early, PeerTypes, SignalTypes
      <4>3. ~\E i \in DOMAIN relay[p] : i > cursor[p]
        BY <3>2, <4>2
      <4>4. QED
        BY <4>1, <4>3 DEF Unread
    <3>3. QED
      BY <1>3, <3>1, <3>2
  <2>5. QED
    BY <2>1, <2>2, <2>3, <2>4
<1>6. \A r \in Peers : \A kind : Underway(r, kind)' <=> Underway(r, kind)
  <2>1. \A kind : Underway(p, kind)' <=> Underway(p, kind)
    BY <1>4, <1>5 DEF Underway, q
  <2>2. \A kind : Underway(q, kind)' <=> Underway(q, kind)
    BY <1>4, <1>5 DEF Underway
  <2>3. QED
    BY <1>4, <2>1, <2>2
<1>7. SameTalk(p) /\ (Has(p)' <=> Has(p))
  BY <1>1 DEF SameTalk, Has
<1>8. 1 \in Peers /\ 2 \in Peers /\ (p = 1 \/ p = 2)
  BY DEF Peers
<1>9. (Answering' <=> Answering) /\ \A j \in Polls[2] : poll'[2][j].step \notin {"setLocal", "post"}
  <2>1. CASE p = 1
    <3>1. q = 2 /\ poll'[2] = poll[2]
      BY <1>4, <1>8, <2>1
    <3>2. ~Answering /\ ~Answering'
      BY <1>1, <1>2, <1>3, <2>1 DEF Answering
    <3>3. QED
      BY <3>1, <3>2 DEF Early, Undisturbed, Dialer
  <2>2. CASE p = 2
    <3>1. q = 1 /\ poll'[1] = poll[1]
      BY <1>4, <1>8, <2>2
    <3>2. Answering' <=> Answering
      BY <3>1 DEF Answering
    <3>3. \A j \in Polls[2] : poll'[2][j].step \notin {"setLocal", "post"}
      BY <1>2, <1>3, <2>2
    <3>4. QED
      BY <3>2, <3>3
  <2>3. QED
    BY <1>8, <2>1, <2>2
<1>10. Receiver' /\ Dialer'
  <2>1. SameTalk(1) /\ SameTalk(2)
    BY <1>4, <1>7, <1>8
  <2>2. QED
    BY <1>6, <1>9, <2>1, TalkKept DEF Early, Undisturbed
<1>11. Kinds'
  <2>1. ASSUME NEW r \in Peers
        PROVE  /\ (\A i \in DOMAIN outbox[r] : Fits(r, outbox[r][i]))'
               /\ (\A i \in DOMAIN relay[r] : Fits(Other(r), relay[r][i]))'
               /\ (\A j \in Polls[r] : poll[r][j].step = "setRemote"
                                         => relay[r][poll[r][j].at].kind # "ice")'
    <3>1. (\A i \in DOMAIN outbox[r] : Fits(r, outbox[r][i]))'
      BY <1>1 DEF Early, Undisturbed, Kinds, Fits
    <3>2. (\A i \in DOMAIN relay[r] : Fits(Other(r), relay[r][i]))'
      <4>1. relay'[r] = relay[r] \/ DOMAIN relay'[r] = {}
        BY <1>3
      <4>2. QED
        BY <4>1 DEF Early, Undisturbed, Kinds, Fits
    <3>3. (\A j \in Polls[r] : poll[r][j].step = "setRemote"
                                 => relay[r][poll[r][j].at].kind # "ice")'
      <4>1. CASE r = p
        BY <1>2, <1>3, <4>1
      <4>2. CASE r = q
        BY <1>3, <1>4, <4>2 DEF Early, Undisturbed, Kinds
      <4>3. QED
        BY <1>4, <4>1, <4>2
    <3>4. QED
      BY <3>1, <3>2, <3>3
  <2>2. QED
    BY <2>1 DEF Kinds
<1>12. Alive'
  <2>1. \A r \in Peers : r \in roster' => timer'[r] \/ \E j \in Polls[r] : Busy(r, j)'
    <3>1. timer'[p] \/ \E j \in Polls[p] : Busy(p, j)'
      BY <1>3 DEF Busy
    <3>2. q \in roster' => timer'[q] \/ \E j \in Polls[q] : Busy(q, j)'
      BY <1>1, <1>4 DEF Early, Undisturbed, Alive, Busy
    <3>3. QED
      BY <1>4, <3>1, <3>2
  <2>2. \A r \in Peers : \A j \in Polls[r] : Busy(r, j)' => Busy(r, j)
    <3>1. \A j \in Polls[p] : Busy(p, j)' => Busy(p, j)
      BY <1>1, <1>3 DEF Busy
    <3>2. \A j \in Polls[q] : Busy(q, j)' => Busy(q, j)
      BY <1>4 DEF Busy
    <3>3. QED
      BY <1>4, <3>1, <3>2
  <2>3. \A r \in Peers : /\ Has(r)' <=> Has(r)
                         /\ Has(r) => /\ slot'[r].agreed = slot[r].agreed
                                      /\ slot'[r].remote = slot[r].remote
                                      /\ slot'[r].live = slot[r].live
    BY <1>1 DEF Has
  <2>4. QED
    BY <2>1, <2>2, <2>3, AliveStill DEF Early, Undisturbed
<1>13. QED
  BY <1>10, <1>11, <1>12

LEMMA GoesOn ==
  ASSUME Early, NEW p \in Peers, NEW k \in Polls[p], Busy(p, k), Others(p),
         UNCHANGED <<relay, timer, roster>>,
         \A j \in Polls[p] : j # k => poll'[p][j] = poll[p][j],
         poll'[p][k].step # "idle",
         poll'[p][k].step = "setRemote" => relay[p][poll'[p][k].at].kind # "ice",
         \A i \in DOMAIN outbox'[p] : Fits(p, outbox'[p][i]),
         Has(p)', slot'[p].agreed = slot'[p].remote, slot'[p].live = slot[p].live
  PROVE  Kinds' /\ Alive'
<1> DEFINE q == Other(p)
<1>1. /\ q \in Peers /\ q # p /\ Other(q) = p /\ \A r \in Peers : r = p \/ r = q
      /\ slot'[q] = slot[q] /\ (Has(q)' <=> Has(q)) /\ poll'[q] = poll[q]
  BY OtherSignals
<1> HIDE DEF q
<1>2. /\ \A j \in Polls[p] : j # k => poll[p][j].step = "idle"
      /\ Has(p) /\ outbox'[q] = outbox[q]
  BY <1>1, OnlyPoll DEF Others
<1>3. Kinds'
  <2>1. ASSUME NEW r \in Peers
        PROVE  /\ (\A i \in DOMAIN outbox[r] : Fits(r, outbox[r][i]))'
               /\ (\A i \in DOMAIN relay[r] : Fits(Other(r), relay[r][i]))'
               /\ (\A j \in Polls[r] : poll[r][j].step = "setRemote"
                                         => relay[r][poll[r][j].at].kind # "ice")'
    <3>1. (\A i \in DOMAIN outbox[r] : Fits(r, outbox[r][i]))'
      <4>1. CASE r = p
        BY <4>1 DEF Fits
      <4>2. CASE r = q
        BY <1>2, <4>2 DEF Early, Undisturbed, Kinds, Fits
      <4>3. QED
        BY <1>1, <4>1, <4>2
    <3>2. (\A i \in DOMAIN relay[r] : Fits(Other(r), relay[r][i]))'
      BY DEF Early, Undisturbed, Kinds, Fits
    <3>3. (\A j \in Polls[r] : poll[r][j].step = "setRemote"
                                 => relay[r][poll[r][j].at].kind # "ice")'
      <4>1. CASE r = p
        BY <1>2, <4>1
      <4>2. CASE r = q
        BY <1>1, <4>2 DEF Early, Undisturbed, Kinds
      <4>3. QED
        BY <1>1, <4>1, <4>2
    <3>4. QED
      BY <3>1, <3>2, <3>3
  <2>2. QED
    BY <2>1 DEF Kinds
<1>4. Alive'
  <2>1. \A r \in Peers : r \in roster' => timer'[r] \/ \E j \in Polls[r] : Busy(r, j)'
    <3>1. \E j \in Polls[p] : Busy(p, j)'
      BY DEF Busy
    <3>2. q \in roster' => timer'[q] \/ \E j \in Polls[q] : Busy(q, j)'
      BY <1>1 DEF Early, Undisturbed, Alive, Busy
    <3>3. QED
      BY <1>1, <3>1, <3>2
  <2>2. \A r \in Peers : \A j \in Polls[r] : Busy(r, j)' => Busy(r, j)
    <3>1. \A j \in Polls[p] : Busy(p, j)' => Busy(p, j)
      BY DEF Busy
    <3>2. \A j \in Polls[q] : Busy(q, j)' => Busy(q, j)
      BY <1>1 DEF Busy
    <3>3. QED
      BY <1>1, <3>1, <3>2
  <2>3. \A r \in Peers : /\ Has(r)' <=> Has(r)
                         /\ Has(r) => /\ slot'[r].live = slot[r].live
                                      /\ \/ slot'[r].agreed = slot'[r].remote
                                         \/ /\ slot'[r].agreed = slot[r].agreed
                                            /\ slot'[r].remote = slot[r].remote
    BY <1>1, <1>2
  <2>4. QED
    BY <2>1, <2>2, <2>3, AliveStill DEF Early, Undisturbed
<1>5. QED
  BY <1>3, <1>4

\* The signal that a handler takes or works on.
LEMMA HandledSignal ==
  ASSUME Early, NEW p \in Peers, NEW n \in DOMAIN relay[p]
  PROVE  LET sig == relay[p][n] IN
         /\ sig \in Signals /\ sig.pc = 1 /\ (sig.kind = "offer" => sig.type = "offer")
         /\ p = 1 => sig.kind \in {"offer", "ice"}
         /\ p = 2 => sig.kind = "ice" \/ (sig.kind = "answer" /\ sig.type = "answer")
<1> DEFINE sig == relay[p][n]
<1>1. sig \in Signals /\ (sig.kind = "offer" => sig.type = "offer")
  BY DEF Early, PeerTypes, SignalTypes
<1>2. sig.pc = 1 /\ Fits(Other(p), sig)
  BY DEF Early, Undisturbed, FirstOnly, FirstOf, Kinds
<1>3. (p = 1 => Other(p) = 2) /\ (p = 2 => Other(p) = 1)
  BY DEF Other
<1>4. QED
  BY <1>1, <1>2, <1>3 DEF Fits

LEMMA TalkTakes ==
  ASSUME Early, NEW p \in Peers, NEW k \in Polls[p], Take(p, k)
  PROVE  (Kinds /\ Alive /\ Receiver /\ Dialer)'
<1> DEFINE q == Other(p)
           n == poll[p][k].at + 1
           sig == relay[p][n]
           s == slot[p]
           here == [poll[p][k] EXCEPT !.at = @ + 1]
<1>1. /\ Others(p) /\ Busy(p, k) /\ poll[p][k].step = "next"
      /\ n \in DOMAIN relay[p]
      /\ poll'[p][k].at = n
      /\ \A j \in Polls[p] : j # k => poll'[p][j] = poll[p][j]
      /\ Keeps(p) \/ ~Has(p)
  BY TakeDoes DEF Early
<1>2. /\ \A j \in Polls[p] : j # k => poll[p][j].step = "idle"
      /\ Has(p) /\ s \in Slots /\ s.remote \in {0, 1} /\ s.agreed = s.remote
      /\ poll[p][k].at = cursor[p] /\ cursor[p] \in Nat
      /\ poll[p][k] \in PollStates /\ PollTypes
  BY <1>1, OnlyPoll, Numbers, PollOf DEF Early, Undisturbed, Alive, PeerTypes
<1>3. /\ UNCHANGED <<outbox, relay, timer, roster>>
      /\ Handle(p, k, sig, s)
  BY <1>2 DEF Take
<1>4. cursor'[p] = n /\ n = cursor[p] + 1 /\ Has(p)'
  BY <1>1, <1>2, TakeDoes DEF Early, Keeps, SameConnection
<1>5. /\ q \in Peers /\ q # p /\ Other(q) = p /\ \A r \in Peers : r = p \/ r = q
      /\ slot'[q] = slot[q] /\ (Has(q)' <=> Has(q)) /\ poll'[q] = poll[q] /\ SameTalk(q)
      /\ \A kind : /\ Sends(q, kind)' <=> Sends(q, kind)
                   /\ Unread(q, kind)' <=> Unread(q, kind)
                   /\ Handles(q, kind)' <=> Handles(q, kind)
  BY <1>1, <1>3, OtherSignals
<1>6. /\ sig \in Signals /\ sig.pc = 1
      /\ p = 1 => sig.kind \in {"offer", "ice"}
      /\ p = 2 => sig.kind = "ice" \/ sig.kind = "answer"
      /\ p = 1 \/ p = 2
  BY <1>1, HandledSignal DEF Peers
<1>7. \A kind : Unread(p, kind) <=> Unread(p, kind)' \/ kind = sig.kind
  <2>1. relay'[p] = relay[p] /\ \A i \in DOMAIN relay[p] : i \in Nat
    BY <1>3, Numbers DEF Early
  <2>2. \A i \in DOMAIN relay[p] : i > cursor[p] <=> i > cursor'[p] \/ i = n
    BY <1>2, <1>4, <2>1
  <2>3. n > cursor[p] /\ n \in DOMAIN relay[p]
    BY <1>1, <1>2, <1>4
  <2> HIDE DEF n
  <2>4. QED
    BY <2>1, <2>2, <2>3 DEF Unread
<1> DEFINE held == [s EXCEPT !.pending = IF s.remote = 0 THEN @ \cup {sig.pc} ELSE @,
                             !.candidates = IF s.remote = sig.pc THEN @ \cup {sig.pc} ELSE @]
<1>8. \/ /\ sig.kind = "ice" /\ poll'[p][k].step = "next"
         /\ slot' = [slot EXCEPT ![p] = held]
      \/ /\ sig.kind # "ice" /\ poll'[p][k].step = "setRemote"
         /\ slot' = [slot EXCEPT ![p] = s]
  <2>1. CASE sig.kind = "ice"
    <3>1. poll' = [poll EXCEPT ![p][k] = here] /\ slot' = [slot EXCEPT ![p] = held]
      BY <1>3, <2>1 DEF Handle
    <3>2. here \in PollStates /\ here.step = "next"
      BY <1>1, <1>2 DEF PollStates
    <3> HIDE DEF here
    <3>3. poll'[p][k] = here
      BY <1>2, <3>1, <3>2, PollSet
    <3>4. QED
      BY <2>1, <3>1, <3>2, <3>3
  <2>2. CASE sig.kind # "ice"
    <3> DEFINE waits == [here EXCEPT !.step = "setRemote", !.pc = s.pc, !.recovery = s.recovery,
                                     !.spent = s.recreated]
    <3>1. sig.kind = "offer" => Polite(p)
      BY <1>6 DEF Polite, Other
    <3>2. poll' = [poll EXCEPT ![p][k] = waits] /\ slot' = [slot EXCEPT ![p] = s]
      BY <1>3, <2>2, <3>1 DEF Handle
    <3>3. waits \in PollStates /\ waits.step = "setRemote"
      <4>1. here \in PollStates
        BY <1>2 DEF PollStates
      <4>2. s.pc \in Nat /\ s.recovery \in Nat /\ s.recreated \in BOOLEAN
        BY <1>2 DEF Slots
      <4> HIDE DEF here, s
      <4>3. QED
        BY <4>1, <4>2 DEF PollStates
    <3> HIDE DEF waits
    <3>4. poll'[p][k] = waits
      BY <1>2, <3>2, <3>3, PollSet
    <3>5. QED
      BY <2>2, <3>2, <3>3, <3>4
  <2>3. QED
    BY <2>1, <2>2
<1>9. /\ slot'[p].remote = s.remote /\ slot'[p].needed = s.needed /\ slot'[p].making = s.making
      /\ slot'[p].signaling = s.signaling /\ slot'[p].agreed = s.agreed /\ slot'[p].live = s.live
      /\ sig.kind # "ice" => slot'[p] = s
      /\ sig.kind = "ice" => /\ s.remote = 0 => 1 \in slot'[p].pending
                             /\ s.remote = 1 => 1 \in slot'[p].candidates
  <2>1. slot \in [Peers -> {NoSlot} \cup Slots]
    BY DEF Early, PeerTypes, SlotTypes
  <2>2. CASE sig.kind = "ice"
    <3>1. slot'[p] = held
      BY <1>8, <2>1, <2>2
    <3>2. QED
      BY <1>2, <1>6, <2>2, <3>1 DEF Slots
  <2>3. CASE sig.kind # "ice"
    BY <1>8, <2>1, <2>3
  <2>4. QED
    BY <2>2, <2>3
<1>10. \A kind : /\ ~Handles(p, kind)
                 /\ sig.kind = "ice" => ~Handles(p, kind)'
                 /\ sig.kind # "ice" => (Handles(p, kind)' <=> kind = sig.kind)
  <2>1. \A kind : ~Handles(p, kind)
    BY <1>1, <1>2 DEF Handles
  <2>2. \A j \in Polls[p] : j # k => poll'[p][j].step = "idle"
    BY <1>1, <1>2
  <2>3. poll'[p][k].at = n /\ relay'[p][n] = sig
    BY <1>1, <1>3
  <2>4. ASSUME NEW kind, sig.kind = "ice" PROVE ~Handles(p, kind)'
    BY <1>8, <2>2, <2>4 DEF Handles
  <2> HIDE DEF sig, n, here, held
  <2>5. ASSUME NEW kind, sig.kind # "ice" PROVE Handles(p, kind)' <=> kind = sig.kind
    <3>1. poll'[p][k].step = "setRemote"
      BY <1>8, <2>5
    <3>2. QED
      BY <2>2, <2>3, <3>1 DEF Handles
  <2>6. QED
    BY <2>1, <2>4, <2>5
<1> HIDE DEF sig, n, here, held
<1>11. Kinds' /\ Alive'
  <2>1. \A i \in DOMAIN outbox'[p] : Fits(p, outbox'[p][i])
    BY <1>3 DEF Early, Undisturbed, Kinds, Fits
  <2>2. poll'[p][k].step # "idle"
    BY <1>8
  <2>3. poll'[p][k].step = "setRemote" => relay[p][poll'[p][k].at].kind # "ice"
    BY <1>1, <1>8 DEF sig
  <2>4. slot'[p].agreed = slot'[p].remote /\ slot'[p].live = slot[p].live
    BY <1>2, <1>9
  <2>5. QED
    BY <1>1, <1>3, <1>4, <2>1, <2>2, <2>3, <2>4, GoesOn
<1>12. \A kind : /\ Underway(q, kind)' <=> Underway(q, kind)
                 /\ kind # "ice" => (Underway(p, kind)' <=> Underway(p, kind))
                 /\ sig.kind # "ice" => (Underway(p, kind)' <=> Underway(p, kind))
  <2>1. \A kind : Sends(p, kind)' <=> Sends(p, kind)
    BY <1>3 DEF Sends
  <2>2. \A kind : Underway(q, kind)' <=> Underway(q, kind)
    BY <1>5, <2>1 DEF Underway
  <2>3. ASSUME NEW kind, kind # "ice" \/ sig.kind # "ice"
        PROVE  Underway(p, kind)' <=> Underway(p, kind)
    BY <1>5, <1>7, <1>10, <2>3 DEF Underway, q
  <2>4. QED
    BY <2>2, <2>3
<1>13. /\ 1 \in Peers /\ 2 \in Peers /\ (Answering' <=> Answering)
       /\ \A j \in Polls[2] : poll'[2][j].step \notin {"setLocal", "post"}
  <2>1. 1 \in Peers /\ 2 \in Peers
    BY DEF Peers
  <2>2. CASE p = 1
    <3>1. poll'[2] = poll[2]
      BY <1>5, <2>1, <2>2
    <3>2. ~Answering /\ ~Answering'
      BY <1>1, <1>2, <1>8, <2>2 DEF Answering
    <3>3. QED
      BY <2>1, <3>1, <3>2 DEF Early, Undisturbed, Dialer
  <2>3. CASE p = 2
    <3>1. poll'[1] = poll[1]
      BY <1>5, <2>1, <2>3
    <3>2. \A j \in Polls[2] : poll'[2][j].step \notin {"setLocal", "post"}
      BY <1>1, <1>2, <1>8, <2>3
    <3>3. Answering' <=> Answering
      BY <3>1 DEF Answering
    <3>4. QED
      BY <2>1, <3>2, <3>3
  <2>4. QED
    BY <1>6, <2>2, <2>3
<1>14. CASE sig.kind # "ice"
  <2>1. SameTalk(p)
    BY <1>2, <1>4, <1>9, <1>14 DEF SameTalk
  <2>2. SameTalk(1) /\ SameTalk(2)
    BY <1>5, <1>13, <2>1
  <2>3. \A r \in Peers : \A kind : Underway(r, kind)' <=> Underway(r, kind)
    BY <1>5, <1>12, <1>14
  <2>4. QED
    BY <1>11, <1>13, <2>2, <2>3, TalkKept DEF Early, Undisturbed
<1>15. CASE sig.kind = "ice"
  <2>1. Reaches(p)'
    BY <1>2, <1>4, <1>9, <1>15 DEF Reaches
  <2>2. /\ \A r \in Peers : /\ Underway(r, "offer")' <=> Underway(r, "offer")
                            /\ Underway(r, "answer")' <=> Underway(r, "answer")
                            /\ Knows(r)' <=> Knows(r)
                            /\ Reaches(r) => Reaches(r)'
                            /\ Has(r)' <=> Has(r)
                            /\ Has(r) => /\ slot'[r].needed = slot[r].needed
                                         /\ slot'[r].making = slot[r].making
                                         /\ slot'[r].signaling = slot[r].signaling
                                         /\ slot'[r].remote = slot[r].remote
    <3>1. \A r \in Peers : /\ Underway(r, "offer")' <=> Underway(r, "offer")
                           /\ Underway(r, "answer")' <=> Underway(r, "answer")
      BY <1>5, <1>12
    <3>2. \A r \in Peers : /\ Has(r)' <=> Has(r)
                           /\ Has(r) => /\ slot'[r].needed = slot[r].needed
                                        /\ slot'[r].making = slot[r].making
                                        /\ slot'[r].signaling = slot[r].signaling
                                        /\ slot'[r].remote = slot[r].remote
      BY <1>2, <1>4, <1>5, <1>9
    <3>3. Reaches(q) => Reaches(q)'
      BY <1>5, <1>12 DEF Reaches
    <3>4. \A r \in Peers : Knows(r)' <=> Knows(r)
      BY <3>2 DEF Knows
    <3>5. QED
      BY <1>5, <2>1, <3>1, <3>2, <3>3, <3>4
  <2>3. Receiver'
    <3>1. /\ Has(1)' <=> Has(1)
          /\ Has(1) => /\ slot'[1].needed = slot[1].needed
                       /\ slot'[1].making = slot[1].making
                       /\ slot'[1].signaling = slot[1].signaling
          /\ (Knows(1)' <=> Knows(1)) /\ (Knows(2)' <=> Knows(2))
          /\ (Underway(2, "answer")' <=> Underway(2, "answer"))
          /\ Reaches(2) => Reaches(2)'
      BY <1>13, <2>2
    <3>2. Receiver /\ (Knows(1) => Has(1))
      BY DEF Early, Undisturbed, Knows
    <3>3. QED
      BY <1>13, <3>1, <3>2 DEF Receiver
  <2>4. BeforeOffer' <=> BeforeOffer
    BY <1>13, <2>2 DEF BeforeOffer
  <2>5. Dialer'
    <3>1. Dialer
      BY DEF Early, Undisturbed
    <3>2. CASE ~Has(2) /\ BeforeOffer
      BY <1>13, <2>2, <2>4, <3>2 DEF Dialer
    <3>3. CASE /\ Has(2) /\ slot[2].signaling = "stable" /\ slot[2].remote = 0 /\ BeforeOffer
               /\ slot[2].making = (IF slot[2].needed THEN "no" ELSE "creating")
      BY <1>13, <2>2, <2>4, <3>3 DEF Dialer
    <3>4. CASE /\ Has(2) /\ ~slot[2].needed /\ slot[2].making # "creating"
               /\ slot[2].signaling = (IF Knows(2) THEN "stable" ELSE "have-local-offer")
               /\ Underway(1, "offer") \/ Knows(1)
               /\ Reaches(1)
      BY <1>13, <2>2, <3>4 DEF Dialer
    <3>5. QED
      BY <3>1, <3>2, <3>3, <3>4 DEF Dialer
  <2>6. QED
    BY <1>11, <2>3, <2>5
<1>16. QED
  BY <1>14, <1>15

LEMMA TalkLearns ==
  ASSUME Early, NEW p \in Peers, NEW k \in Polls[p], SetRemote(p, k)
  PROVE  (Kinds /\ Alive /\ Receiver /\ Dialer)'
<1> DEFINE q == Other(p)
           sig == relay[p][poll[p][k].at]
           s == slot[p]
           c == (IF s.remote = sig.pc THEN s.candidates ELSE {}) \cup (s.pending \cap {sig.pc})
           step == IF sig.kind = "offer" THEN "setLocal" ELSE "next"
<1>1. /\ Others(p) /\ SameConnection(p) /\ Busy(p, k) /\ poll[p][k].step = "setRemote"
      /\ \A j \in Polls[p] : j # k => poll'[p][j] = poll[p][j]
  BY SetRemoteDoes DEF Early
<1>2. /\ \A j \in Polls[p] : j # k => poll[p][j].step = "idle"
      /\ Has(p) /\ s \in Slots /\ s.remote \in {0, 1}
      /\ poll[p][k] \in PollStates /\ PollTypes /\ Has(p)'
  BY <1>1, OnlyPoll, PollOf DEF Early, PeerTypes, SameConnection
<1>3. /\ UNCHANGED <<outbox, relay, cursor, timer, roster>>
      /\ slot' = [slot EXCEPT ![p] = [s EXCEPT
           !.signaling = IF sig.type = "offer" THEN "have-remote-offer" ELSE "stable",
           !.remote = sig.pc, !.agreed = sig.pc,
           !.candidates = (IF s.remote = sig.pc THEN @ ELSE {}) \cup (s.pending \cap {sig.pc}),
           !.pending = {}]]
      /\ poll' = [poll EXCEPT ![p][k].step = step]
  BY DEF SetRemote, Step
<1>4. /\ poll[p][k].at \in DOMAIN relay[p]
  BY <1>1, HandlerAt DEF Early
<1>5. /\ sig \in Signals /\ sig.pc = 1 /\ sig.kind # "ice"
      /\ p = 1 => sig.kind = "offer" /\ sig.type = "offer"
      /\ p = 2 => sig.kind = "answer" /\ sig.type = "answer"
      /\ p = 1 \/ p = 2
  <2>1. sig.kind # "ice"
    BY <1>1 DEF Early, Undisturbed, Kinds
  <2>2. QED
    BY <1>4, <2>1, HandledSignal DEF Peers
<1>6. /\ q \in Peers /\ q # p /\ Other(q) = p /\ \A r \in Peers : r = p \/ r = q
      /\ slot'[q] = slot[q] /\ (Has(q)' <=> Has(q)) /\ poll'[q] = poll[q]
      /\ \A kind : /\ Sends(q, kind)' <=> Sends(q, kind)
                   /\ Unread(q, kind)' <=> Unread(q, kind)
                   /\ Handles(q, kind)' <=> Handles(q, kind)
  BY <1>1, <1>3, OtherSignals
<1>7. /\ slot'[p].remote = 1 /\ slot'[p].agreed = 1 /\ slot'[p].live = s.live
      /\ slot'[p].needed = s.needed /\ slot'[p].making = s.making
      /\ slot'[p].signaling = (IF p = 1 THEN "have-remote-offer" ELSE "stable")
      /\ slot'[p].candidates = c
  <2>1. slot \in [Peers -> {NoSlot} \cup Slots]
    BY DEF Early, PeerTypes, SlotTypes
  <2>2. slot'[p] = [s EXCEPT
           !.signaling = IF sig.type = "offer" THEN "have-remote-offer" ELSE "stable",
           !.remote = sig.pc, !.agreed = sig.pc,
           !.candidates = (IF s.remote = sig.pc THEN @ ELSE {}) \cup (s.pending \cap {sig.pc}),
           !.pending = {}]
    BY <1>3, <2>1
  <2> HIDE DEF sig
  <2>3. QED
    BY <1>2, <1>5, <2>2 DEF Slots
<1>8. poll'[p][k].step = step /\ step = (IF p = 1 THEN "setLocal" ELSE "next")
  <2>1. step = (IF p = 1 THEN "setLocal" ELSE "next")
    BY <1>5
  <2> HIDE DEF step
  <2>2. poll'[p][k].step = step
    BY <1>2, <1>3 DEF PollTypes, PollStates
  <2>3. QED
    BY <2>1, <2>2
<1>9. c = (IF s.remote = 1 THEN s.candidates ELSE {}) \cup (s.pending \cap {1})
  BY <1>5
<1> HIDE DEF sig, step, c, q
<1>10. Kinds' /\ Alive'
  <2>1. \A i \in DOMAIN outbox'[p] : Fits(p, outbox'[p][i])
    BY <1>3 DEF Early, Undisturbed, Kinds, Fits
  <2>2. poll'[p][k].step # "idle" /\ poll'[p][k].step # "setRemote"
    BY <1>8
  <2>3. slot'[p].agreed = slot'[p].remote /\ slot'[p].live = slot[p].live
    BY <1>7
  <2>4. QED
    BY <1>1, <1>2, <1>3, <2>1, <2>2, <2>3, GoesOn
<1>11. /\ \A kind : Underway(q, kind)' <=> Underway(q, kind)
       /\ Underway(p, "ice")' <=> Underway(p, "ice")
  <2>1. \A kind : (Sends(p, kind)' <=> Sends(p, kind)) /\ (Unread(p, kind)' <=> Unread(p, kind))
    BY <1>3 DEF Sends, Unread
  <2>2. ~Handles(p, "ice")
    BY DEF Handles, Early, Undisturbed, Kinds
  <2>3. ~Handles(p, "ice")'
    BY <1>10 DEF Handles, Kinds
  <2>4. QED
    BY <1>6, <2>1, <2>2, <2>3 DEF Underway, q
<1>12. Knows(p)' /\ (Reaches(p) => Reaches(p)') /\ (Reaches(q)' <=> Reaches(q))
       /\ (Knows(q)' <=> Knows(q))
  <2>1. Knows(p)'
    BY <1>2, <1>7 DEF Knows
  <2>2. Reaches(p) => Reaches(p)'
    BY <1>2, <1>7, <1>9, <1>11 DEF Reaches
  <2>3. QED
    BY <1>6, <1>11, <2>1, <2>2 DEF Reaches, Knows
<1>13. 1 \in Peers /\ 2 \in Peers /\ Handles(p, IF p = 1 THEN "offer" ELSE "answer")
  BY <1>1, <1>5 DEF Handles, sig, Peers
<1>14. CASE p = 1
  <2>1. q = 2 /\ poll'[2] = poll[2] /\ slot'[2] = slot[2] /\ (Has(2)' <=> Has(2))
    BY <1>6, <1>13, <1>14
  <2>2. Answering' /\ Underway(1, "offer")
    <3>1. Answering'
      BY <1>8, <1>14 DEF Answering
    <3>2. QED
      BY <1>13, <1>14, <3>1 DEF Underway
  <2>3. Receiver'
    <3>1. Receiver /\ Has(1)
      BY <1>2, <1>14 DEF Early, Undisturbed
    <3>2. slot'[1].needed = slot[1].needed /\ slot'[1].making = slot[1].making
          /\ slot'[1].signaling = "have-remote-offer" /\ Knows(1)'
      BY <1>7, <1>12, <1>14
    <3>3. QED
      BY <2>2, <3>1, <3>2 DEF Receiver
  <2>4. Dialer'
    <3>1. Dialer /\ ~BeforeOffer
      BY <2>2 DEF Early, Undisturbed, BeforeOffer
    <3>2. /\ Has(2) /\ ~slot[2].needed /\ slot[2].making # "creating"
          /\ slot[2].signaling = (IF Knows(2) THEN "stable" ELSE "have-local-offer")
          /\ Reaches(1) /\ \A j \in Polls[2] : poll[2][j].step \notin {"setLocal", "post"}
      BY <3>1 DEF Dialer
    <3>3. Knows(1)' /\ Reaches(1)' /\ (Knows(2)' <=> Knows(2))
      BY <1>12, <1>14, <2>1, <3>2
    <3>4. QED
      BY <2>1, <3>2, <3>3 DEF Dialer
  <2>5. QED
    BY <1>10, <2>3, <2>4
<1>15. CASE p = 2
  <2>1. q = 1 /\ poll'[1] = poll[1] /\ slot'[1] = slot[1] /\ (Has(1)' <=> Has(1))
    BY <1>6, <1>13, <1>15
  <2>2. Underway(2, "answer") /\ (Answering' <=> Answering)
    BY <1>13, <1>15, <2>1 DEF Underway, Answering
  <2>3. Receiver'
    <3>1. Receiver
      BY DEF Early, Undisturbed
    <3>2. Knows(2)' /\ (Knows(1)' <=> Knows(1)) /\ (Reaches(2) => Reaches(2)')
      BY <1>12, <1>15, <2>1
    <3>3. QED
      BY <2>1, <2>2, <3>1, <3>2 DEF Receiver
  <2>4. Dialer'
    <3>1. Dialer /\ ~BeforeOffer
      BY <2>2 DEF Early, Undisturbed, BeforeOffer
    <3>2. /\ Has(2) /\ ~slot[2].needed /\ slot[2].making # "creating"
          /\ Underway(1, "offer") \/ Knows(1)
          /\ Reaches(1)
      BY <3>1 DEF Dialer
    <3>3. \A j \in Polls[2] : poll'[2][j].step \notin {"setLocal", "post"}
      BY <1>1, <1>2, <1>8, <1>15
    <3>4. /\ ~slot'[2].needed /\ slot'[2].making # "creating" /\ slot'[2].signaling = "stable"
          /\ Knows(2)' /\ Has(2)' /\ Reaches(1)' /\ (Knows(1)' <=> Knows(1))
          /\ (Underway(1, "offer")' <=> Underway(1, "offer"))
      BY <1>2, <1>7, <1>11, <1>12, <1>15, <2>1, <3>2
    <3>5. QED
      BY <3>2, <3>3, <3>4 DEF Dialer
  <2>5. QED
    BY <1>10, <2>3, <2>4
<1>16. QED
  BY <1>5, <1>14, <1>15

\* Only an answer that comes again is refused.
LEMMA TalkRefuses ==
  ASSUME Early, NEW p \in Peers, NEW k \in Polls[p], RejectRemote(p, k)
  PROVE  (Kinds /\ Alive /\ Receiver /\ Dialer)'
<1> DEFINE q == Other(p)
           sig == relay[p][poll[p][k].at]
<1>1. /\ Others(p) /\ Busy(p, k) /\ poll[p][k].step = "setRemote"
      /\ \A j \in Polls[p] : j # k => poll'[p][j] = poll[p][j]
      /\ Rejects(p, k)
  BY RejectRemoteDoes DEF Early, RejectRemote
<1>2. /\ \A j \in Polls[p] : j # k => poll[p][j].step = "idle"
      /\ Has(p) /\ slot[p] \in Slots /\ slot[p].remote \in {0, 1} /\ ~closed[p]
      /\ Current(p, k)
  BY <1>1, OnlyPoll DEF Early, Undisturbed, FirstOnly, FirstOf
<1>3. poll[p][k].at \in DOMAIN relay[p] /\ sig.kind # "ice"
  BY <1>1, HandlerAt DEF Early, Undisturbed, Kinds
<1>4. /\ sig.pc = 1 /\ p \in {1, 2}
      /\ p = 1 => sig.kind = "offer" /\ sig.type = "offer"
      /\ p = 2 => sig.kind = "answer" /\ sig.type = "answer"
  BY <1>3, HandledSignal DEF Peers
<1>5. p = 2 /\ slot[2].signaling # "have-local-offer"
  BY <1>1, <1>2, <1>4 DEF Rejects
<1>6. /\ UNCHANGED <<slot, outbox, relay, cursor, timer, roster>>
      /\ poll'[p][k].step = "next"
  <2>1. Step(p, k, "next") /\ UNCHANGED slot
    BY <1>4, <1>5 DEF RejectRemote, Rebuilds
  <2>2. PollTypes /\ poll[p][k] \in PollStates
    BY PollOf DEF Early, PeerTypes
  <2>3. poll'[p][k].step = "next"
    BY <2>1, <2>2 DEF Step, PollTypes, PollStates
  <2>4. QED
    BY <2>1, <2>3 DEF RejectRemote
<1>7. /\ q \in Peers /\ q # p /\ Other(q) = p /\ \A r \in Peers : r = p \/ r = q
      /\ poll'[q] = poll[q]
      /\ \A kind : /\ Sends(q, kind)' <=> Sends(q, kind)
                   /\ Unread(q, kind)' <=> Unread(q, kind)
                   /\ Handles(q, kind)' <=> Handles(q, kind)
  BY <1>1, <1>6, OtherSignals
<1>8. q = 1 /\ 1 \in Peers /\ 2 \in Peers /\ Other(1) = 2 /\ Other(2) = 1
  BY <1>5 DEF Other, Peers
<1>9. Underway(2, "answer")
  BY <1>1, <1>4, <1>5 DEF Underway, Handles
<1> HIDE DEF q, sig
<1>10. /\ Has(2) /\ ~slot[2].needed /\ slot[2].making # "creating"
       /\ slot[2].signaling = (IF Knows(2) THEN "stable" ELSE "have-local-offer")
       /\ Underway(1, "offer") \/ Knows(1)
       /\ Reaches(1) /\ Knows(2)
       /\ \A j \in Polls[2] : poll[2][j].step \notin {"setLocal", "post"}
  BY <1>5, <1>9 DEF Early, Undisturbed, Dialer, BeforeOffer
<1>11. Kinds' /\ Alive'
  <2>1. \A i \in DOMAIN outbox'[p] : Fits(p, outbox'[p][i])
    BY <1>6 DEF Early, Undisturbed, Kinds, Fits
  <2>2. slot'[p].agreed = slot'[p].remote /\ slot'[p].live = slot[p].live /\ Has(p)'
    BY <1>2, <1>6 DEF Early, Undisturbed, Alive, Has
  <2>3. QED
    BY <1>1, <1>2, <1>6, <2>1, <2>2, GoesOn
<1>12. /\ \A kind : Underway(1, kind)' <=> Underway(1, kind)
       /\ Underway(2, "ice")' <=> Underway(2, "ice")
  <2>1. \A kind : (Sends(p, kind)' <=> Sends(p, kind)) /\ (Unread(p, kind)' <=> Unread(p, kind))
    BY <1>6 DEF Sends, Unread
  <2>2. ~Handles(p, "ice")
    BY DEF Handles, Early, Undisturbed, Kinds
  <2>3. ~Handles(p, "ice")'
    BY <1>11 DEF Handles, Kinds
  <2>4. QED
    BY <1>5, <1>7, <1>8, <2>1, <2>2, <2>3 DEF Underway
<1>13. /\ \A r \in Peers : /\ (Has(r)' <=> Has(r)) /\ (Knows(r)' <=> Knows(r))
                           /\ (Reaches(r)' <=> Reaches(r))
       /\ Answering' <=> Answering
  <2>1. \A r \in Peers : (Has(r)' <=> Has(r)) /\ (Knows(r)' <=> Knows(r))
    BY <1>6 DEF Has, Knows
  <2>2. \A r \in Peers : Reaches(r)' <=> Reaches(r)
    BY <1>5, <1>6, <1>7, <1>8, <1>12, <2>1 DEF Reaches
  <2>3. Answering' <=> Answering
    BY <1>7, <1>8 DEF Answering
  <2>4. QED
    BY <2>1, <2>2, <2>3
<1>14. Receiver'
  <2>1. Receiver
    BY DEF Early, Undisturbed
  <2>2. QED
    BY <1>6, <1>8, <1>10, <1>13, <2>1 DEF Receiver
<1>15. Dialer'
  <2>1. \A j \in Polls[2] : poll'[2][j].step \notin {"setLocal", "post"}
    BY <1>1, <1>5, <1>6, <1>10
  <2>2. QED
    BY <1>6, <1>8, <1>10, <1>12, <1>13, <2>1 DEF Dialer
<1>16. QED
  BY <1>11, <1>14, <1>15

LEMMA TalkAnswers ==
  ASSUME Early, NEW p \in Peers, NEW k \in Polls[p], SetLocal(p, k)
  PROVE  (Kinds /\ Alive /\ Receiver /\ Dialer)'
<1> DEFINE a == Signal("answer", "answer", slot[p].pc)
           b == Signal("ice", "ice", slot[p].pc)
<1>1. /\ Others(p) /\ Keeps(p) /\ Busy(p, k) /\ poll[p][k].step = "setLocal"
      /\ \A j \in Polls[p] : j # k => poll'[p][j] = poll[p][j]
  BY SetLocalDoes DEF Early, SetLocal, Busy
<1>2. p = 1 /\ 1 \in Peers /\ 2 \in Peers /\ Other(1) = 2 /\ Other(2) = 1
  BY <1>1 DEF Early, Undisturbed, Dialer, Peers, Other
<1>3. /\ \A j \in Polls[p] : j # k => poll[p][j].step = "idle"
      /\ Has(p) /\ slot[p] \in Slots /\ ~closed[p] /\ Current(p, k) /\ Has(p)'
  BY <1>1, OnlyPoll DEF Early, Undisturbed, FirstOnly, FirstOf, Keeps, SameConnection
<1>4. Answering /\ Knows(1) /\ slot[1].signaling = "have-remote-offer" /\ ~slot[1].needed
      /\ slot[1].making = "no"
  BY <1>1, <1>2, <1>3 DEF Early, Undisturbed, Receiver, Answering
<1>5. /\ slot' = [slot EXCEPT ![p].signaling = "stable"]
      /\ outbox' = [outbox EXCEPT ![p] = @ \o <<a, b>>]
      /\ Step(p, k, "post")
      /\ UNCHANGED <<relay, cursor, timer, roster>>
  BY <1>2, <1>3, <1>4 DEF SetLocal
<1>6. poll'[p][k].step = "post"
  <2>1. PollTypes /\ poll[p][k] \in PollStates
    BY PollOf DEF Early, PeerTypes
  <2>2. QED
    BY <1>5, <2>1 DEF Step, PollTypes, PollStates
<1>7. /\ a \in Signals /\ b \in Signals /\ a.kind = "answer" /\ b.kind = "ice"
      /\ Fits(p, a) /\ Fits(p, b)
  <2>1. slot[p].pc \in Nat
    BY <1>3 DEF Slots
  <2>2. QED
    BY <1>2, <2>1 DEF Signal, Signals, Fits
<1> HIDE DEF a, b
<1>8. /\ \A kind : Sends(p, kind)' <=> Sends(p, kind) \/ kind \in {a.kind, b.kind}
      /\ \A i \in DOMAIN outbox'[p] : \/ outbox'[p][i] \in {a, b}
                                      \/ \E j \in DOMAIN outbox[p] : outbox'[p][i] = outbox[p][j]
  BY <1>5, <1>7, MoreSends DEF Early
<1>9. /\ slot'[1].signaling = "stable" /\ slot'[1].remote = slot[1].remote
      /\ slot'[1].needed = slot[1].needed /\ slot'[1].making = slot[1].making
      /\ slot'[1].agreed = slot[1].agreed /\ slot'[1].live = slot[1].live
      /\ slot'[1].candidates = slot[1].candidates /\ slot'[1].pending = slot[1].pending
  <2>1. slot \in [Peers -> {NoSlot} \cup Slots]
    BY DEF Early, PeerTypes, SlotTypes
  <2>2. QED
    BY <1>2, <1>3, <1>5, <2>1 DEF Slots
<1>10. /\ slot'[2] = slot[2] /\ (Has(2)' <=> Has(2)) /\ poll'[2] = poll[2]
       /\ \A kind : /\ Sends(2, kind)' <=> Sends(2, kind)
                    /\ Unread(2, kind)' <=> Unread(2, kind)
                    /\ Handles(2, kind)' <=> Handles(2, kind)
  BY <1>1, <1>2, <1>5, OtherSignals
<1>11. Kinds' /\ Alive'
  <2>1. \A i \in DOMAIN outbox'[p] : Fits(p, outbox'[p][i])
    BY <1>7, <1>8 DEF Early, Undisturbed, Kinds
  <2>2. slot'[p].agreed = slot'[p].remote /\ slot'[p].live = slot[p].live
    BY <1>2, <1>3, <1>9 DEF Early, Undisturbed, Alive
  <2>3. QED
    BY <1>1, <1>3, <1>5, <1>6, <2>1, <2>2, GoesOn
<1>12. /\ Knows(1)' /\ ~Answering' /\ (Knows(2)' <=> Knows(2))
       /\ Underway(2, "answer")' /\ Underway(2, "ice")'
  <2>1. Knows(1)' /\ (Knows(2)' <=> Knows(2))
    BY <1>2, <1>3, <1>4, <1>9, <1>10 DEF Knows
  <2>2. ~Answering'
    BY <1>1, <1>2, <1>3, <1>6 DEF Answering
  <2>3. QED
    BY <1>2, <1>7, <1>8, <2>1, <2>2 DEF Underway
<1>13. Receiver'
  BY <1>4, <1>9, <1>12 DEF Receiver, Reaches
<1>14. Underway(1, "ice") => Underway(1, "ice")'
  <2>1. Unread(1, "ice")' <=> Unread(1, "ice")
    BY <1>5 DEF Unread
  <2>2. ~Handles(1, "ice")
    BY <1>2 DEF Handles, Early, Undisturbed, Kinds
  <2>3. QED
    BY <1>2, <1>10, <2>1, <2>2 DEF Underway
<1>15. Dialer'
  <2>1. /\ Has(2) /\ ~slot[2].needed /\ slot[2].making # "creating"
        /\ slot[2].signaling = (IF Knows(2) THEN "stable" ELSE "have-local-offer")
        /\ Reaches(1) /\ \A j \in Polls[2] : poll[2][j].step \notin {"setLocal", "post"}
    BY <1>4 DEF Early, Undisturbed, Dialer, BeforeOffer
  <2>2. Reaches(1)'
    BY <1>2, <1>3, <1>9, <1>14, <2>1 DEF Reaches
  <2>3. QED
    BY <1>10, <1>12, <2>1, <2>2 DEF Dialer
<1>16. QED
  BY <1>11, <1>13, <1>15

(***************************************************************************)
(* A calm step.                                                            *)
(***************************************************************************)
\* A closed room stays closed and a fault is not taken back.
LEMMA CalmBefore ==
  ASSUME PeerTypes, RoomNext, Calm'
  PROVE  Calm /\ ~\E p \in Peers : Close(p) \/ Leaves(p)
<1>1. PICK p \in Peers : Join(p) \/ Runs(p) \/ Breaks(p) \/ Close(p)
  BY DEF RoomNext
<1>2. faults \subseteq faults'
  BY <1>1 DEF Join, Runs, Breaks, Close, NegotiationNeeded, CreateOffer, PostSignal, Connects, Loses,
     Watchdog, Leaves, Poll, Handler, Take, SetRemote, RejectRemote, SetLocal, Posted, EndPoll,
     Fault, NoFault
<1>3. closed' = closed \/ closed' = [closed EXCEPT ![p] = TRUE]
  BY <1>1 DEF Join, Runs, Breaks, Close, NegotiationNeeded, CreateOffer, PostSignal, Connects, Loses,
     Watchdog, Leaves, Poll, Handler, Take, SetRemote, RejectRemote, SetLocal, Posted, EndPoll
<1>4. \A q \in Peers : closed[q] => closed'[q]
  BY <1>3 DEF PeerTypes, RoomTypes
<1>5. Calm
  BY <1>2, <1>4 DEF Calm
<1>6. ASSUME NEW q \in Peers PROVE ~Close(q) /\ ~Leaves(q)
  <2>1. ~Close(q)
    BY CloseDoes DEF Calm
  <2>2. ~Leaves(q)
    BY <1>5 DEF Leaves, Calm
  <2>3. QED
    BY <2>1, <2>2
<1>7. QED
  BY <1>5, <1>6

LEMMA CalmKept ==
  ASSUME PeerTypes, LastCreated, SignalsInOrder, CalmPeers, RoomNext, Calm',
         Alone \/ ~Fault("breaks")
  PROVE  CalmPeers'
<1>1. Calm /\ ~\E p \in Peers : Close(p) \/ Leaves(p)
  BY CalmBefore
<1>2. PICK p \in Peers : Join(p) \/ Runs(p) \/ Breaks(p)
  BY <1>1 DEF RoomNext
<1>3. CASE Join(p)
  BY <1>1, <1>3, CalmJoin
<1>4. CASE PostSignal(p) \/ CreateOffer(p)
  BY <1>1, <1>4, CalmPosts
<1>5. CASE NegotiationNeeded(p) \/ Connects(p) \/ Loses(p) \/ Breaks(p)
  BY <1>1, <1>5, CalmEvents
<1>6. CASE Watchdog(p)
  BY <1>1, <1>6, CalmWatchdog
<1>7. ASSUME NEW k \in Polls[p], Poll(p, k) \/ Handler(p, k) PROVE CalmPeers'
  BY <1>1, <1>7, CalmPoll, CalmTake, CalmSetRemote, CalmReject, CalmSetLocal, CalmPosted, CalmEndPoll
  DEF Handler
<1>8. QED
  BY <1>1, <1>2, <1>3, <1>4, <1>5, <1>6, <1>7 DEF Runs

(***************************************************************************)
(* How the disturbances are counted.                                       *)
(***************************************************************************)
LEMMA FaultsGrow ==
  ASSUME RoomNext
  PROVE  \/ faults' = faults
         \/ \E kind \in Faults : Fault(kind)
<1>1. PICK p \in Peers : Join(p) \/ Runs(p) \/ Breaks(p) \/ Close(p)
  BY DEF RoomNext
<1>2. CASE PostSignal(p) \/ Breaks(p) \/ Watchdog(p) \/ Close(p)
  BY <1>2 DEF PostSignal, Breaks, Watchdog, Close, Fault, NoFault
<1>3. CASE \/ Join(p) \/ NegotiationNeeded(p) \/ CreateOffer(p) \/ Connects(p) \/ Loses(p)
           \/ Leaves(p) \/ \E k \in Polls[p] : Poll(p, k) \/ Handler(p, k)
  BY <1>3 DEF Join, NegotiationNeeded, CreateOffer, Connects, Loses, Leaves, Poll, Handler,
     Take, SetRemote, RejectRemote, SetLocal, Posted, EndPoll
<1>4. QED
  BY <1>1, <1>2, <1>3 DEF Runs

\* A fault happens while there have been fewer than MaxFaults.
LEMMA OnlyFault ==
  ASSUME IsFiniteSet(faults), MaxFaults <= 1, NEW kind, Fault(kind)
  PROVE  faults = {} /\ faults' = {kind}
<1>1. Cardinality(faults) \in Nat /\ MaxFaults \in Nat
  BY FS_CardinalityType, PeerAssumption
<1>2. Cardinality(faults) = 0
  BY <1>1 DEF Fault
<1>3. faults = {}
  BY <1>2, FS_EmptySet
<1>4. QED
  BY <1>3 DEF Fault

\* Nothing has happened: the two negotiate until they can connect.
LEMMA UndisturbedKept ==
  ASSUME Early, RoomNext, faults = {}, faults' = {}
  PROVE  Undisturbed'
<1>1. \A kind : ~Fault(kind)
  BY DEF Fault
<1>2. ASSUME NEW p \in Peers PROVE ~Watchdog(p) /\ ~Close(p) /\ ~Leaves(p) /\ ~Loses(p) /\ ~Breaks(p)
  <2>1. ~Close(p) /\ ~Breaks(p)
    BY <1>1 DEF Close, Breaks
  <2>2. ~Leaves(p)
    BY DEF Leaves, Early, Undisturbed, FirstOnly, FirstOf
  <2>3. ~Watchdog(p) /\ ~Loses(p)
    BY <1>1, NoStall DEF Watchdog, Loses
  <2>4. QED
    BY <2>1, <2>2, <2>3
<1>3. FirstOnly'
  <2>1. \A p \in Peers : Has(p) => p \in roster /\ Other(p) \in roster
    BY DEF Early, CalmPeers, OnePoll
  <2>2. FirstGoesOn
    BY <1>2, <2>1, FirstKept DEF Early, Undisturbed
  <2>3. QED
    BY <2>2 DEF FirstGoesOn
<1>4. PICK p \in Peers : Join(p) \/ Runs(p)
  BY <1>2 DEF RoomNext
<1>5. CASE \/ Join(p) \/ NegotiationNeeded(p) \/ CreateOffer(p) \/ PostSignal(p) \/ Connects(p)
  <2>1. (Kinds /\ Alive /\ Receiver /\ Dialer)'
    BY <1>5, TalkJoins, TalkNeeded, TalkOffers, TalkPosts, TalkConnects
  <2>2. QED
    BY <1>3, <2>1 DEF Undisturbed
<1>6. ASSUME NEW k \in Polls[p], Poll(p, k) \/ Handler(p, k) PROVE Undisturbed'
  <2>1. Posted(p, k) \/ EndPoll(p, k) => Others(p)
    BY PostedDoes, EndPollDoes DEF Early
  <2>2. (Kinds /\ Alive /\ Receiver /\ Dialer)'
    BY <1>6, <2>1, TalkPolls, TalkTakes, TalkLearns, TalkRefuses, TalkAnswers, TalkPauses
    DEF Handler
  <2>3. QED
    BY <1>3, <2>2 DEF Undisturbed
<1>7. QED
  BY <1>2, <1>4, <1>5, <1>6 DEF Runs

\* The path of the first connections has broken, and nothing else happens any more:
\* polls may overlap, but what they find is still the first connections.
OneBreak == faults = {"breaks"} /\ MaxFaults <= 1 /\ roster = Peers /\ FirstOnly

\* As soon as nothing is on its way, one poll at a time is answered again.
LEMMA QuietCalm ==
  ASSUME PeerTypes, LastCreated, OneBreak, Quiet
  PROVE  CalmPeers
<1> SUFFICES ASSUME NEW p \in Peers PROVE OnePoll(p) /\ UpToDate(p)
  BY DEF CalmPeers
<1>1. /\ \A q \in Peers : outbox[q] = <<>> /\ cursor[q] = Len(relay[q])
      /\ \A k \in Polls[p] : ~Busy(p, k)
  BY DEF Quiet
<1>2. Other(p) \in Peers /\ p \in roster /\ Other(p) \in roster
  BY TwoPeers DEF OneBreak
<1>3. OnePoll(p)
  BY <1>1, <1>2 DEF OnePoll
<1>4. DOMAIN outbox[Other(p)] = {}
  BY <1>1, <1>2
<1>5. \A i \in DOMAIN relay[p] : ~(i > cursor[p])
  <2>1. relay[p] \in Seq(Signals) /\ cursor[p] = Len(relay[p])
    BY <1>1 DEF PeerTypes, SignalTypes
  <2>2. QED
    BY <2>1
<1>6. Has(p) => slot[p].remote <= created[Other(p)] /\ slot[p].agreed \in {0, slot[p].remote}
  BY DEF OneBreak, FirstOnly, FirstOf
<1>7. UpToDate(p)
  BY <1>1, <1>4, <1>5, <1>6 DEF UpToDate, Busy
<1>8. QED
  BY <1>3, <1>7

(***************************************************************************)
(* The invariant.  Of the faults, a path that breaks sets the poll timer   *)
(* of a peer that polls already.  It is no harm where polls cannot         *)
(* overlap, nor if it is the only fault there is.                          *)
(***************************************************************************)
FewBreaks == "breaks" \notin Faults \/ Alone \/ MaxFaults <= 1

PeerInv ==
  /\ PeerTypes /\ LastCreated /\ SignalsInOrder /\ IsFiniteSet(faults)
  /\ Calm => CalmPeers \/ OneBreak
  /\ faults = {} => Undisturbed

LEMMA EarlyOn ==
  ASSUME PeerInv, faults = {}
  PROVE  Calm /\ Early
<1>1. Calm
  BY DEF PeerInv, Calm, Undisturbed, FirstOnly, FirstOf
<1>2. ~OneBreak
  BY DEF OneBreak
<1>3. QED
  BY <1>1, <1>2 DEF PeerInv, Early

LEMMA RoomStarts == RoomInit => PeerInv /\ faults = {} /\ CalmPeers
<1> SUFFICES ASSUME RoomInit PROVE PeerInv /\ faults = {} /\ CalmPeers
  OBVIOUS
<1>1. \A p \in Peers : /\ slot[p] = NoSlot /\ created[p] = 0 /\ outbox[p] = <<>> /\ relay[p] = <<>>
                       /\ cursor[p] = 0 /\ ~timer[p] /\ ~closed[p]
                       /\ poll[p] = [k \in Polls[p] |-> NoPoll]
  BY DEF RoomInit
<1>2. /\ <<>> \in Seq(Signals) /\ DOMAIN <<>> = {} /\ Len(<<>>) = 0
      /\ NoPoll \in PollStates /\ NoPoll.step = "idle"
  BY DEF NoPoll, PollStates
<1>3. SlotTypes /\ RoomTypes
  BY DEF RoomInit, SlotTypes, RoomTypes
<1>4. SignalTypes
  BY <1>1, <1>2 DEF RoomInit, SignalTypes
<1>5. PollTypes
  BY <1>1, <1>2 DEF RoomInit, PollTypes
<1>6. \A p \in Peers : InRelay(p)
  <2> TAKE p \in Peers
  <2>1. Len(relay[p]) = 0 /\ cursor[p] = 0 /\ \A k \in Polls[p] : poll[p][k].step = "idle"
    BY <1>1, <1>2
  <2>2. QED
    BY <2>1 DEF InRelay, Busy
<1>7. LastCreated
  BY <1>1 DEF RoomInit, LastCreated, Has
<1>8. SignalsInOrder
  <2> SUFFICES ASSUME NEW p \in Peers PROVE InOrder(p)
    BY DEF SignalsInOrder
  <2>1. DOMAIN outbox[p] = {} /\ DOMAIN relay[Other(p)] = {}
    BY <1>1, <1>2, TwoPeers
  <2>2. QED
    BY <2>1 DEF InOrder
<1>9. \A p \in Peers : OnePoll(p) /\ UpToDate(p)
  BY <1>1, <1>2 DEF RoomInit, OnePoll, UpToDate, Busy, Has
<1>10. IsFiniteSet(faults)
  BY FS_EmptySet DEF RoomInit
<1>11. Undisturbed
  <2>1. 1 \in Peers /\ 2 \in Peers /\ Other(1) = 2 /\ Other(2) = 1
    BY DEF Peers, Other
  <2>2. ASSUME NEW p \in Peers
        PROVE  /\ DOMAIN outbox[p] = {} /\ DOMAIN relay[p] = {} /\ ~Has(p)
               /\ \A k \in Polls[p] : poll[p][k].step = "idle"
    <3>1. outbox[p] = <<>> /\ relay[p] = <<>> /\ slot[p] = NoSlot
      BY <1>1
    <3>2. DOMAIN outbox[p] = {} /\ DOMAIN relay[p] = {}
      BY <1>2, <3>1, Zenon
    <3>3. ASSUME NEW k \in Polls[p] PROVE poll[p][k].step = "idle"
      <4>1. poll[p][k] = NoPoll
        BY <1>1
      <4>2. QED
        BY <1>2, <4>1, Zenon
    <3>4. ~Has(p)
      BY <3>1, Zenon DEF Has
    <3>5. QED
      BY <3>2, <3>3, <3>4, Zenon
  <2>3. FirstOnly
    <3> SUFFICES ASSUME NEW p \in Peers PROVE FirstOf(p)
      BY DEF FirstOnly
    <3>1. created[p] = 0 /\ ~closed[p]
      BY <1>1
    <3>2. /\ DOMAIN outbox[p] = {} /\ DOMAIN relay[p] = {} /\ ~Has(p)
          /\ \A k \in Polls[p] : poll[p][k].step = "idle"
      BY <2>2
    <3>3. QED
      BY <3>1, <3>2 DEF FirstOf
  <2>4. Kinds /\ Alive
    BY <1>1, <2>2 DEF Kinds, Alive, Busy, RoomInit
  <2>5. /\ ~Answering /\ ~Knows(1)
        /\ \A kind : ~Underway(1, kind) /\ ~Underway(2, kind)
    BY <2>1, <2>2 DEF Answering, Knows, Underway, Sends, Unread, Handles
  <2>6. Receiver /\ Dialer
    BY <2>1, <2>2, <2>5 DEF Receiver, Dialer, BeforeOffer
  <2>7. QED
    BY <2>3, <2>4, <2>6 DEF Undisturbed
<1>12. QED
  BY <1>3, <1>4, <1>5, <1>6, <1>7, <1>8, <1>9, <1>10, <1>11 DEF PeerInv, PeerTypes, CalmPeers, RoomInit

LEMMA TalkUnchanged ==
  ASSUME UNCHANGED roomVars
  PROVE  (Kinds' <=> Kinds) /\ (Alive' <=> Alive) /\ (Receiver' <=> Receiver) /\ (Dialer' <=> Dialer)
<1>1. /\ (Kinds' <=> Kinds) /\ (Answering' <=> Answering)
      /\ \A p, kind : Underway(p, kind)' <=> Underway(p, kind)
  BY UnderwaySame DEF roomVars
<1>2. (Alive' <=> Alive) /\ (Receiver' <=> Receiver) /\ (Dialer' <=> Dialer)
  BY <1>1 DEF roomVars, Alive, Receiver, Dialer, BeforeOffer, Reaches, Knows, Has, Busy
<1>3. QED
  BY <1>1, <1>2

LEMMA RoomUnchanged ==
  ASSUME PeerInv, UNCHANGED roomVars
  PROVE  PeerInv'
<1>1. /\ PeerTypes' /\ LastCreated' /\ SignalsInOrder' /\ IsFiniteSet(faults')
      /\ (Calm' <=> Calm) /\ (CalmPeers' <=> CalmPeers) /\ (FirstOnly' <=> FirstOnly)
  BY DEF PeerInv, roomVars, PeerTypes, SlotTypes, SignalTypes, PollTypes, RoomTypes, InRelay, Busy,
         LastCreated, Has, SignalsInOrder, InOrder, Calm, CalmPeers, OnePoll, Current, UpToDate,
         FirstOnly, FirstOf
<1>2. QED
  BY <1>1, TalkUnchanged DEF PeerInv, OneBreak, Undisturbed, roomVars

\* While the path has broken, and before anything stalls.
LEMMA BrokenKept ==
  ASSUME PeerInv, RoomNext, Calm, OneBreak
  PROVE  /\ faults' = faults
         /\ CalmPeers' \/ OneBreak'
         /\ Quiet \/ FirstGoesOn
<1>1. PeerTypes /\ LastCreated /\ SignalsInOrder /\ IsFiniteSet(faults)
  BY DEF PeerInv
<1>2. \A kind : ~Fault(kind)
  BY <1>1, OnlyFault DEF OneBreak
<1>3. faults' = faults
  BY <1>2, FaultsGrow
<1>4. CASE Quiet
  <2>1. CalmPeers /\ Calm' => CalmPeers'
    BY <1>1, <1>2, CalmKept
  <2>2. CalmPeers
    BY <1>1, <1>4, QuietCalm
  <2>3. \A p \in Peers : ~closed'[p]
    <3>1. PICK p \in Peers : Join(p) \/ Runs(p) \/ Breaks(p)
      BY <1>2 DEF RoomNext, Close
    <3>2. UNCHANGED closed
      BY <3>1 DEF Join, Runs, Breaks, NegotiationNeeded, CreateOffer, PostSignal, Connects, Loses,
         Watchdog, Leaves, Poll, Handler, Take, SetRemote, RejectRemote, SetLocal, Posted, EndPoll
    <3>3. QED
      BY <3>2 DEF Calm
  <2>4. QED
    BY <1>3, <1>4, <2>1, <2>2, <2>3 DEF Calm
<1>5. CASE ~Quiet
  <2>1. \A p \in Peers : ~Watchdog(p) /\ ~Close(p) /\ ~Leaves(p) /\ ~Join(p)
    BY <1>2, <1>5 DEF Watchdog, Close, Leaves, Join, Joined, Calm, OneBreak
  <2>2. FirstGoesOn
    BY <1>1, <2>1, TwoPeers, FirstKept DEF OneBreak
  <2>3. roster' = roster
    <3>1. PICK p \in Peers : Runs(p) \/ Breaks(p)
      BY <2>1 DEF RoomNext
    <3>2. QED
      BY <2>1, <3>1 DEF Runs, Breaks, NegotiationNeeded, CreateOffer, PostSignal, Connects, Loses,
         Poll, Handler, Take, SetRemote, RejectRemote, SetLocal, Posted, EndPoll
  <2>4. QED
    BY <1>3, <2>2, <2>3 DEF OneBreak, FirstGoesOn
<1>6. QED
  BY <1>4, <1>5

\* The path breaks while another poll may be under way.
LEMMA BreakBegins ==
  ASSUME PeerInv, RoomNext, Calm, CalmPeers, MaxFaults <= 1, Fault("breaks")
  PROVE  OneBreak'
<1>1. faults = {} /\ faults' = {"breaks"}
  BY OnlyFault DEF PeerInv
<1>2. Early
  BY <1>1, EarlyOn
<1>3. \A kind : Fault(kind) => kind = "breaks"
  BY <1>1 DEF Fault
<1>4. \A p \in Peers : ~Watchdog(p) /\ ~Close(p) /\ ~Leaves(p)
  BY <1>1, <1>3 DEF Watchdog, Close, Leaves, Calm, NoFault
<1>5. \A p \in Peers : Has(p) => p \in roster /\ Other(p) \in roster
  BY DEF CalmPeers, OnePoll
<1>6. FirstOnly'
  BY <1>2, <1>4, <1>5, FirstKept DEF Early, Undisturbed, FirstGoesOn
<1>7. PICK p \in Peers : Breaks(p)
  <2>1. PICK p \in Peers : Join(p) \/ Runs(p) \/ Breaks(p)
    BY <1>4 DEF RoomNext
  <2>2. ~Join(p) /\ ~Runs(p)
    BY <1>1, <1>3, <1>4 DEF Join, Runs, NegotiationNeeded, CreateOffer, PostSignal, Connects, Loses,
       Poll, Handler, Take, SetRemote, RejectRemote, SetLocal, Posted, EndPoll, NoFault
  <2>3. QED
    BY <2>1, <2>2
<1>8. roster' = roster /\ Has(p)
  BY <1>7 DEF Breaks, Connected
<1>9. roster' = Peers
  <2>1. p \in roster /\ Other(p) \in roster /\ roster \subseteq Peers
    BY <1>5, <1>8 DEF PeerInv, PeerTypes, RoomTypes
  <2>2. QED
    BY <1>8, <2>1, TwoPeers
<1>10. QED
  BY <1>1, <1>6, <1>9 DEF OneBreak

LEMMA RoomKept ==
  ASSUME FewBreaks, PeerInv, [RoomNext]_roomVars
  PROVE  PeerInv'
<1>1. CASE RoomNext
  <2>1. PeerTypes' /\ LastCreated' /\ SignalsInOrder'
    BY <1>1, PlainKept DEF PeerInv
  <2>2. IsFiniteSet(faults')
    <3>1. ASSUME NEW kind, Fault(kind) PROVE IsFiniteSet(faults')
      BY <3>1, FS_AddElement DEF Fault, PeerInv
    <3>2. QED
      BY <1>1, <3>1, FaultsGrow DEF PeerInv
  <2>3. ASSUME Calm' PROVE CalmPeers' \/ OneBreak'
    <3>1. Calm
      BY <1>1, <2>3, CalmBefore DEF PeerInv
    <3>2. CASE OneBreak
      BY <1>1, <3>1, <3>2, BrokenKept
    <3>3. CASE CalmPeers /\ (Alone \/ ~Fault("breaks"))
      BY <1>1, <2>3, <3>3, CalmKept DEF PeerInv
    <3>4. CASE CalmPeers /\ ~Alone /\ Fault("breaks")
      <4>1. MaxFaults <= 1
        BY <3>4 DEF FewBreaks, Fault
      <4>2. QED
        BY <1>1, <3>1, <3>4, <4>1, BreakBegins
    <3>5. QED
      BY <3>1, <3>2, <3>3, <3>4 DEF PeerInv
  <2>4. ASSUME faults' = {} PROVE Undisturbed'
    <3>1. faults = {}
      BY <1>1, <2>4, FaultsGrow DEF Fault
    <3>2. QED
      BY <1>1, <2>4, <3>1, EarlyOn, UndisturbedKept
  <2>5. QED
    BY <2>1, <2>2, <2>3, <2>4 DEF PeerInv
<1>2. QED
  BY <1>1, RoomUnchanged

LEMMA PeerInvariance == FewBreaks => (RoomSpec => []PeerInv)
<1> SUFFICES ASSUME FewBreaks PROVE RoomSpec => []PeerInv
  OBVIOUS
<1>1. PeerInv /\ [RoomNext]_roomVars => PeerInv'
  BY RoomKept
<1>2. QED
  BY <1>1, RoomStarts, PTL DEF RoomSpec

(***************************************************************************)
(* A healthy pair.                                                         *)
(***************************************************************************)
LEMMA HealthyCalm ==
  ASSUME PeerInv, CalmPeers, RoomNext, CanConnect, faults' = faults, "early" \notin faults,
         NEW p \in Peers
  PROVE  slot'[p].pc = slot[p].pc
<1>1. /\ PeerTypes /\ LastCreated /\ SignalsInOrder
      /\ \A q \in Peers : Has(q) /\ ~closed[q]
      /\ Calm /\ CalmPeers /\ "close" \notin faults
  BY DEF PeerInv, CanConnect, LastCreated, Calm
<1>2. ~Quiet /\ \A q \in Peers : ~Watchdog(q) /\ ~Close(q) /\ ~Join(q)
  <2>1. ~Quiet
    BY DEF Quiet
  <2>2. ASSUME NEW q \in Peers PROVE ~Watchdog(q)
    BY <2>1 DEF Watchdog, Fault
  <2>3. ASSUME NEW q \in Peers PROVE ~Close(q)
    BY <1>1 DEF Close, Fault
  <2>4. ASSUME NEW q \in Peers PROVE ~Join(q)
    <3>1. Other(q) \in Peers /\ Other(Other(q)) = q
      BY TwoPeers
    <3>2. q \in roster
      BY <1>1, <3>1 DEF CalmPeers, OnePoll
    <3>3. QED
      BY <3>2 DEF Join, Joined
  <2>5. QED
    BY <2>1, <2>2, <2>3, <2>4
<1>3. PICK q \in Peers : Runs(q) \/ Breaks(q)
  BY <1>2 DEF RoomNext
<1>4. ASSUME Others(q), SameConnection(q) PROVE slot'[p].pc = slot[p].pc
  BY <1>1, <1>4 DEF Others, SameConnection
<1>5. CASE \/ NegotiationNeeded(q) \/ CreateOffer(q) \/ PostSignal(q) \/ Connects(q) \/ Loses(q)
           \/ Leaves(q) \/ Breaks(q)
  BY <1>1, <1>4, <1>5, NegotiationNeededDoes, CreateOfferDoes, PostSignalDoes, ConnectsDoes,
     FailsDoes, LeavesDoes DEF Keeps
<1>6. ASSUME NEW k \in Polls[q], Poll(q, k) PROVE slot'[p].pc = slot[p].pc
  <2>1. Other(q) \in roster /\ Has(q)
    BY <1>1 DEF CalmPeers, OnePoll
  <2>2. Others(q) /\ Keeps(q)
    BY <1>1, <1>6, <2>1, PollDoes
  <2>3. QED
    BY <1>4, <2>2 DEF Keeps
<1>7. ASSUME NEW k \in Polls[q], SetLocal(q, k) \/ Posted(q, k) \/ EndPoll(q, k)
      PROVE  slot'[p].pc = slot[p].pc
  BY <1>1, <1>4, <1>7, SetLocalDoes, PostedDoes, EndPollDoes DEF Keeps
<1>8. ASSUME NEW k \in Polls[q], SetRemote(q, k) PROVE slot'[p].pc = slot[p].pc
  BY <1>1, <1>4, <1>8, SetRemoteDoes
<1>9. ASSUME NEW k \in Polls[q], Take(q, k) PROVE slot'[p].pc = slot[p].pc
  BY <1>1, <1>4, <1>9, TakeDoes DEF Keeps
<1>10. ASSUME NEW k \in Polls[q], RejectRemote(q, k) PROVE slot'[p].pc = slot[p].pc
  <2> DEFINE sig == relay[q][poll[q][k].at]
             r == Other(q)
  <2>1. /\ Others(q) /\ poll[q][k].step = "setRemote" /\ Busy(q, k)
        /\ Keeps(q) \/ (Renews(q) /\ Rejects(q, k) /\ sig.kind = "offer")
    BY <1>1, <1>10, RejectRemoteDoes
  <2>2. ~(Rejects(q, k) /\ sig.kind = "offer")
    <3> SUFFICES ASSUME Rejects(q, k), sig.kind = "offer" PROVE FALSE
      OBVIOUS
    <3>1. sig \in Signals /\ sig.type = "offer" /\ poll[q][k].at \in DOMAIN relay[q]
      BY <1>1, <2>1, HandlerAt
    <3>2. Current(q, k) /\ Has(q) /\ OnePoll(q) /\ UpToDate(q)
      BY <1>1, <2>1 DEF CalmPeers, OnePoll
    <3>3. slot[q].remote \notin {0, sig.pc}
      BY <1>1, <3>1, <3>2 DEF Rejects
    <3>4. r \in Peers /\ r # q /\ Other(r) = q /\ created[r] \in Nat /\ slot[q].remote \in Nat
          /\ sig.pc \in Nat
      BY <1>1, <3>1, <3>2, Numbers DEF Signals
    <3>5. slot[q].agreed = slot[r].pc /\ slot[r].pc = created[r] /\ created[r] >= 1
      BY <1>1, <3>4 DEF CanConnect, LastCreated
    <3>6. slot[q].agreed \in {0, slot[q].remote} /\ slot[q].remote <= sig.pc
      BY <2>1, <3>2 DEF UpToDate
    <3>7. sig.pc <= created[r]
      BY <1>1, <3>1, <3>4 DEF SignalsInOrder, InOrder
    <3> HIDE DEF sig, r
    <3>8. slot[q].remote = created[r]
      BY <3>4, <3>5, <3>6
    <3>9. QED
      BY <3>3, <3>4, <3>6, <3>7, <3>8
  <2>3. QED
    BY <1>4, <2>1, <2>2 DEF Keeps
<1>11. QED
  BY <1>2, <1>3, <1>5, <1>6, <1>7, <1>8, <1>9, <1>10 DEF Runs, Handler

LEMMA HealthyStep ==
  ASSUME PeerInv, RoomNext, CanConnect, faults' = faults, "early" \notin faults,
         NEW p \in Peers
  PROVE  slot'[p].pc = slot[p].pc
<1>1. Has(p) /\ \A q \in Peers : ~closed[q]
  BY DEF PeerInv, LastCreated, CanConnect
<1>2. Calm /\ ~Quiet
  BY <1>1 DEF Calm, Quiet
<1>3. CASE CalmPeers
  BY <1>3, HealthyCalm
<1>4. CASE OneBreak
  BY <1>1, <1>2, <1>4, BrokenKept DEF FirstGoesOn
<1>5. QED
  BY <1>2, <1>3, <1>4 DEF PeerInv

\* A pair that can be connected is not torn down (HealthyKept): whatever still
\* arrives, a signal stored twice, a late answer or the offer of a restart, neither
\* pollOnce nor the watchdog replaces a connection.  It is so with any number of
\* polls under way, if paths do not break, if polls do not overlap, or if one fault
\* happens at most; with two a late rejection can still rebuild a healthy pair.
THEOREM HealthyPairsKept == FewBreaks => (RoomSpec => HealthyKept)
<1> SUFFICES ASSUME FewBreaks PROVE RoomSpec => HealthyKept
  OBVIOUS
<1> DEFINE Step1 == \A p \in Peers :
                      /\ CanConnect /\ \A q \in Peers : Connected(q)
                      /\ faults' = faults /\ "early" \notin faults
                      => slot'[p].pc = slot[p].pc
<1>1. PeerInv /\ [RoomNext]_roomVars => [Step1]_roomVars
  BY HealthyStep
<1>2. RoomSpec => []PeerInv
  BY PeerInvariance
<1>3. RoomSpec => [][Step1]_roomVars
  BY <1>1, <1>2, PTL DEF RoomSpec
<1>4. QED
  BY <1>3 DEF HealthyKept
(***************************************************************************)
(* Without a fault the watchdog has nothing to do.                         *)
(***************************************************************************)
NeverStalls == faults = {} /\ Quiet => \A p \in Peers : ~Has(p)

EarlyInv == PeerTypes /\ LastCreated /\ SignalsInOrder /\ (faults = {} => CalmPeers /\ Undisturbed)

LEMMA EarlyKept ==
  ASSUME EarlyInv, [RoomNext]_roomVars
  PROVE  EarlyInv'
<1>1. CASE RoomNext
  <2>1. PeerTypes' /\ LastCreated' /\ SignalsInOrder'
    BY <1>1, PlainKept DEF EarlyInv
  <2>2. ASSUME faults' = {} PROVE CalmPeers' /\ Undisturbed'
    <3>1. faults = {} /\ \A kind : ~Fault(kind)
      BY <1>1, <2>2, FaultsGrow DEF Fault
    <3>2. Early
      BY <3>1 DEF Early, EarlyInv
    <3>3. Undisturbed'
      BY <1>1, <2>2, <3>1, <3>2, UndisturbedKept
    <3>4. Calm'
      BY <2>2, <3>3 DEF Calm, Undisturbed, FirstOnly, FirstOf
    <3>5. CalmPeers'
      BY <1>1, <3>1, <3>2, <3>4, CalmKept DEF Early
    <3>6. QED
      BY <3>3, <3>5
  <2>3. QED
    BY <2>1, <2>2 DEF EarlyInv
<1>2. CASE UNCHANGED roomVars
  <2>1. /\ PeerTypes' /\ LastCreated' /\ SignalsInOrder'
        /\ (CalmPeers' <=> CalmPeers) /\ (FirstOnly' <=> FirstOnly)
    BY <1>2 DEF EarlyInv, roomVars, PeerTypes, SlotTypes, SignalTypes, PollTypes, RoomTypes, InRelay,
       Busy, LastCreated, Has, SignalsInOrder, InOrder, CalmPeers, OnePoll, Current, UpToDate,
       FirstOnly, FirstOf
  <2>2. (Kinds' <=> Kinds) /\ (Alive' <=> Alive) /\ (Receiver' <=> Receiver) /\ (Dialer' <=> Dialer)
    BY <1>2, TalkUnchanged
  <2>3. QED
    BY <1>2, <2>1, <2>2 DEF EarlyInv, Undisturbed, roomVars
<1>3. QED
  BY <1>1, <1>2

\* Two peers never stall by themselves: until the first fault, while either holds a
\* slot for the other, a signal, a poll, a handler or a negotiation is still on its way
\* between them or they can connect (onSignal, onnegotiationneeded and poll in every
\* order).  Only a fault makes the watchdog, and so a second connection, necessary.
THEOREM FirstTalkGoesOn == RoomSpec => []NeverStalls
<1>1. RoomInit => EarlyInv
  <2>1. RoomInit => faults = {} /\ PeerInv /\ CalmPeers
    BY RoomStarts
  <2>2. QED
    BY <2>1 DEF PeerInv, EarlyInv
<1>2. EarlyInv /\ [RoomNext]_roomVars => EarlyInv'
  BY EarlyKept
<1>3. EarlyInv => NeverStalls
  BY NoStall DEF EarlyInv, Early, NeverStalls
<1>4. QED
  BY <1>1, <1>2, <1>3, PTL DEF RoomSpec
==============================================================================
