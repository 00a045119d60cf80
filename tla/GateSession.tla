----------------------------- MODULE GateSession -----------------------------
(***************************************************************************)
(* Who a request of the showcase is served as when sessions ride in        *)
(* cookies: the hook that turns the identity a gate puts on requests into  *)
(* a session (lib/auth/gate-session.server.ts, gate-identity.server.ts),   *)
(* the bounded sign-out and the redirecting sign-in (lib/auth/client.ts,   *)
(* scripts/sign-out-plan.mjs), and the secret that signs the cookies       *)
(* (lib/auth/server.ts).  What Better Auth does with a request once the    *)
(* hook has passed it is external.                                         *)
(*                                                                         *)
(* One browser with several tabs: the jar is shared, and a response may    *)
(* arrive after one that was sent later.  A session cookie is the number   *)
(* of its session, and 0 is no cookie.                                     *)
(***************************************************************************)
EXTENDS Integers, Sequences, FiniteSets

CONSTANTS
  Viewers,        \* identities that the gate vouches for
  UserOf,         \* the user row of a viewer, found or made by its e-mail
  Member,         \* the user who signed in with the broker
  Requests,       \* slots for get-session
  MaxSessions,    \* bound on sessions
  MaxUpsets       \* bound on changes at the gate, reloads, restarts and failures

Nobody == "nobody"

ASSUME GateAssumption ==
  /\ UserOf \in [Viewers -> Viewers \cup {Member}]
  /\ Nobody \notin Viewers \cup {Member}
  /\ {MaxSessions, MaxUpsets} \subseteq Nat

VARIABLES
  gate,       \* the viewer at the gate, or Nobody
  kid,        \* the key that the gate signs with
  jwks,       \* the key in jwksCache, 0 if none
  jar,        \* cookies: session token, session_data cache, gate marker
  sessions,   \* every session ever made: its user and the secret of its cookies
  live,       \* those with a row
  linked,     \* viewers with an account row
  minted,     \* history: how many secrets have been made
  secret,     \* __grokAuthPreviewSecret__, 0 if none
  signing,    \* the secret the auth module works with
  req,        \* requests for the session
  shown,      \* the page shows a user
  leaving,    \* the page is signing out
  ask,        \* its request to end the session
  ended,      \* history: a sign-out was confirmed, and nobody signed in since
  upsets

gateVars == <<gate, kid>>
serverVars == <<jwks, sessions, live, linked, upsets>>
secretVars == <<minted, secret, signing>>
pageVars == <<shown, leaving, ask, ended>>
authVars == <<gateVars, serverVars, secretVars, pageVars, jar, req>>

NoRequest == [at |-> "idle"]
NoAsk == [at |-> "none", token |-> 0]
NoCookies == <<>>
\* Cookies take the place of those of the same name.
overriding(set, cookies) ==
  [name \in DOMAIN set \cup DOMAIN cookies |-> IF name \in DOMAIN set THEN set[name] ELSE cookies[name]]

AuthInit ==
  /\ gate \in Viewers \cup {Nobody} /\ kid = 1 /\ jwks = 0
  /\ jar \in [token : {0, 1}, data : {0}, marker : {FALSE}]
  /\ sessions = <<[user |-> Member, secret |-> 1]>> /\ live = {1} /\ linked = {}
  /\ minted = 1 /\ secret = 1 /\ signing = 1
  /\ req = [r \in Requests |-> NoRequest]
  /\ shown = FALSE /\ leaving = FALSE /\ ask = NoAsk /\ ended = FALSE
  /\ upsets = 0

Active == {r \in Requests : req[r] # NoRequest}
\* What happens meanwhile may show in the answer of a request.
Disturbed == [r \in Requests |-> IF r \in Active THEN [req[r] EXCEPT !.alone = FALSE] ELSE req[r]]

Upset == upsets < MaxUpsets /\ upsets' = upsets + 1

\* The signature of a cookie verifies.
Signed(t) == t # 0 /\ sessions[t].secret = signing

\* The session a request's cookies stand for: the cached one while its cookie lasts.
getSessionFromCtx(q) ==
  IF ~Signed(q.token) THEN 0
  ELSE IF Signed(q.data) THEN q.data
  ELSE IF q.token \in live THEN q.token ELSE 0

NewSession(u) ==
  /\ Len(sessions) < MaxSessions
  /\ sessions' = Append(sessions, [user |-> u, secret |-> signing])
  /\ live' = live \cup {Len(sessions) + 1}
-----------------------------------------------------------------------------
(* get-session: one step between two awaits of the hook. *)

Ask(r) ==
  /\ req[r] = NoRequest
  /\ req' = [Disturbed EXCEPT ![r] =
       [at |-> "sent", gate |-> gate, kid |-> IF gate = Nobody THEN 0 ELSE kid,
        token |-> jar.token, data |-> jar.data, marker |-> gate = Nobody /\ jar.marker, sets |-> NoCookies, holds |-> 0, refused |-> FALSE,
        alone |-> Active = {} /\ ask = NoAsk, ended |-> ended]]
  /\ UNCHANGED <<gateVars, serverVars, secretVars, pageVars, jar>>

Goes(r, at) == req' = [req EXCEPT ![r].at = at]
\* The hook gives up: the request is served as if it did not exist.
Passes(r, refused) ==
  req' = [req EXCEPT ![r].at = "resolve", ![r].refused = refused,
                     ![r].holds = 0, ![r].kid = 0, ![r].marker = FALSE]

clearGateMarkerIfPresent(r) ==
  /\ req[r].at = "sent" /\ req[r].gate = Nobody
  /\ req' = [req EXCEPT ![r].at = "resolve", ![r].marker = FALSE, ![r].kid = 0,
                        ![r].sets = IF req[r].marker THEN [marker |-> FALSE] ELSE NoCookies]
  /\ UNCHANGED <<gateVars, serverVars, secretVars, pageVars, jar>>

\* The cached keys do not have the key that signed the token.
Missing(k) == jwks # k

\* A fetch answers with the keys of the moment; the cache may also be too old.  Then
\* the session that the cookies stand for is looked up.
gateIdentityFromHeaders(r) ==
  LET k == req[r].kid
      t == getSessionFromCtx(req[r]) IN
  /\ req[r].at = "sent" /\ req[r].gate # Nobody
  /\ \/ ~Missing(k) /\ UNCHANGED <<jwks, upsets>>
     \/ jwks' = kid /\ UNCHANGED upsets
     \/ Missing(k) /\ Upset /\ UNCHANGED jwks
  /\ IF jwks' # k THEN Passes(r, k # kid \/ upsets' # upsets)
     ELSE req' = [req EXCEPT ![r].at = IF t = 0 THEN "create" ELSE "accounts",
                             ![r].holds = t, ![r].kid = 0, ![r].marker = FALSE]
  /\ UNCHANGED <<gateVars, sessions, live, linked, secretVars, pageVars, jar>>

sessionBoundToGateIdentity(u, v) == v \in linked /\ UserOf[v] = u

findAccounts(r) ==
  /\ req[r].at = "accounts"
  /\ \/ Upset /\ Passes(r, TRUE)
     \/ /\ IF sessionBoundToGateIdentity(sessions[req[r].holds].user, req[r].gate)
           THEN req' = [req EXCEPT ![r].at = "resolve", ![r].holds = 0,
                                   ![r].sets = [marker |-> TRUE]]
           ELSE Goes(r, "delete")
        /\ UNCHANGED upsets
  /\ UNCHANGED <<gateVars, jwks, sessions, live, linked, secretVars, pageVars, jar>>

\* deleteSession: a failure is logged, and the hook goes on.
DeleteOther(r) ==
  /\ req[r].at = "delete"
  /\ \/ live' = live \ {req[r].holds} /\ UNCHANGED upsets
     \/ Upset /\ UNCHANGED live
  /\ Goes(r, "create")
  /\ UNCHANGED <<gateVars, jwks, sessions, linked, secretVars, pageVars, jar>>

\* Mutant: the request keeps the cache of the session it had.
KeepsCache(q) == q.data
removeRequestCookie(q) == 0

\* Mutant: the marker is written only when the session is found again.
NoMarkerYet(t) == [token |-> t, data |-> 0]
emitted(t) == [token |-> t, data |-> 0, marker |-> TRUE]

\* handleOAuthUserInfo, and the session goes to the browser and into the request.
Materialize(r) ==
  /\ req[r].at = "create"
  /\ \/ Upset /\ Passes(r, TRUE) /\ UNCHANGED <<sessions, live, linked>>
     \/ /\ NewSession(UserOf[req[r].gate])
        /\ linked' = linked \cup {req[r].gate}
        /\ req' = [req EXCEPT ![r].at = "resolve", ![r].holds = 0,
                              ![r].token = Len(sessions'), ![r].data = removeRequestCookie(req[r]),
                              ![r].sets = emitted(Len(sessions'))]
        /\ UNCHANGED upsets
  /\ UNCHANGED <<gateVars, jwks, secretVars, pageVars, jar>>

\* Better Auth: what it finds it caches; cookies of a session that is gone it clears.
Resolve(r) ==
  LET q == req[r]
      t == getSessionFromCtx(q)
      cookies == CASE t # 0 /\ t # q.data -> [data |-> t]
                   [] t = 0 /\ Signed(q.token) -> [token |-> 0, data |-> 0]
                   [] OTHER -> NoCookies
  IN /\ q.at = "resolve"
     /\ req' = [req EXCEPT ![r] =
          [at |-> "answered", gate |-> q.gate, refused |-> q.refused, alone |-> q.alone,
           ended |-> q.ended, sets |-> overriding(cookies, q.sets),
           user |-> IF t = 0 THEN Nobody ELSE sessions[t].user]]
     /\ UNCHANGED <<gateVars, serverVars, secretVars, pageVars, jar>>

\* The response arrives: its cookies replace those of the jar, its user is shown.
Receive(r) ==
  LET q == req[r] IN
  /\ q.at = "answered"
  /\ jar' = overriding(q.sets, jar)
  /\ shown' = (q.user # Nobody)
  /\ ended' = (ended /\ ~("token" \in DOMAIN q.sets /\ q.sets["token"] # 0))
  /\ req' = [req EXCEPT ![r] = NoRequest]
  /\ UNCHANGED <<gateVars, serverVars, secretVars, leaving, ask>>

\* The session_data cookie lasts five minutes.
CacheExpires ==
  /\ jar.data # 0
  /\ jar' = [jar EXCEPT !.data = 0]
  /\ UNCHANGED <<gateVars, serverVars, secretVars, pageVars, req>>
-----------------------------------------------------------------------------
(* The page. *)

\* UserButton: not behind the gate, and not while a sign-out is under way.
signOut ==
  /\ ~leaving /\ ask = NoAsk
  /\ shown /\ ~jar.marker
  /\ leaving' = TRUE
  /\ ask' = [at |-> "sent", token |-> jar.token]
  /\ req' = Disturbed
  /\ UNCHANGED <<gateVars, serverVars, secretVars, shown, ended, jar>>

\* The server ends the session the request came with, or answers with an error.
EndSession ==
  /\ ask.at = "sent"
  /\ \/ live' = live \ {ask.token} /\ ask' = [ask EXCEPT !.at = "ok"] /\ UNCHANGED upsets
     \/ ask' = [ask EXCEPT !.at = "error"] /\ Upset /\ UNCHANGED live
  /\ req' = Disturbed
  /\ UNCHANGED <<gateVars, jwks, sessions, linked, secretVars, shown, leaving, ended, jar>>

\* Mutant: an answer is an answer (Better Auth resolves with { error }).
AnyAnswer == TRUE
\* requestSignOut: an error in the answer rejects.
Confirmed == ask.at = "ok"

\* The answer arrives, perhaps after the page has stopped waiting for it.
SignOutAnswered ==
  /\ ask.at \in {"ok", "error"}
  /\ jar' = IF ask.at = "ok" THEN [jar EXCEPT !.token = 0, !.data = 0] ELSE jar
  /\ ask' = NoAsk /\ leaving' = FALSE
  /\ req' = Disturbed
  /\ IF leaving /\ Confirmed THEN ended' = TRUE /\ shown' = FALSE
                             ELSE UNCHANGED <<ended, shown>>
  /\ UNCHANGED <<gateVars, serverVars, secretVars>>

\* Mutant: the promise of the request is awaited.
NeverTimed == FALSE
\* settleWithin: the page stops waiting, although the request may still land.
Timed == TRUE

TimeUp ==
  /\ leaving /\ ask.at = "sent" /\ Timed
  /\ leaving' = FALSE
  /\ UNCHANGED <<gateVars, serverVars, secretVars, shown, ask, ended, jar, req>>
-----------------------------------------------------------------------------
(* The gate and the process. *)

Swap ==
  /\ Upset
  /\ \/ gate' \in (Viewers \cup {Nobody}) \ {gate} /\ UNCHANGED kid
     \/ kid' = kid + 1 /\ UNCHANGED gate
  /\ req' = Disturbed
  /\ UNCHANGED <<jwks, sessions, live, linked, secretVars, pageVars, jar>>

previewAuthSecret == IF secret = 0 THEN minted + 1 ELSE secret

\* A hot reload evaluates the module again; globalThis stays.
Reload ==
  /\ Upset
  /\ signing' = previewAuthSecret /\ secret' = previewAuthSecret
  /\ minted' = IF previewAuthSecret > minted THEN previewAuthSecret ELSE minted
  /\ req' = Disturbed
  /\ UNCHANGED <<gateVars, jwks, sessions, live, linked, pageVars, jar>>

\* A restart loses the secret and the embedded database together.
Restart ==
  /\ Upset
  /\ minted' = minted + 1 /\ secret' = minted + 1 /\ signing' = minted + 1
  /\ live' = {} /\ linked' = {} /\ jwks' = 0
  /\ req' = [r \in Requests |-> IF r \in Active THEN NoRequest ELSE req[r]]
  /\ ask' = IF ask.at = "sent" THEN [ask EXCEPT !.at = "error"] ELSE ask
  /\ UNCHANGED <<gateVars, sessions, shown, leaving, ended, jar>>

PageProgress == SignOutAnswered \/ TimeUp

AuthNext ==
  \/ \E r \in Requests :
       \/ Ask(r) \/ clearGateMarkerIfPresent(r) \/ gateIdentityFromHeaders(r)
       \/ findAccounts(r) \/ DeleteOther(r) \/ Materialize(r) \/ Resolve(r) \/ Receive(r)
  \/ CacheExpires \/ signOut \/ EndSession \/ PageProgress
  \/ Swap \/ Reload \/ Restart

AuthSpec == AuthInit /\ [][AuthNext]_authVars

AuthFairness == WF_authVars(PageProgress)
-----------------------------------------------------------------------------
\* Behind the gate the viewer is who a request is served as, whatever sessions and
\* caches the browser still has and however requests overtake one another: unless
\* the token is refused or a statement fails, the answer names nobody else, and a
\* request that nothing disturbed names the viewer.
ViewerServed ==
  \A r \in Requests :
    LET q == req[r] IN
    q.at = "answered" /\ q.gate # Nobody /\ ~q.refused =>
      \/ q.user = UserOf[q.gate]
      \/ q.user = Nobody /\ ~q.alone

\* The control to sign out is hidden exactly when the next request would sign the
\* viewer in again: after a request that nothing disturbed the marker says so.
MarkerTells ==
  [][\A r \in Requests :
       Receive(r) /\ req[r].alone /\ ~req[r].refused
         => jar'.marker = (req[r].gate # Nobody)]_authVars

\* Once the page has been told that the sign-out is done, nobody is signed in until
\* somebody signs in: not from the cache, not by a response that was under way.
SignedOutStays ==
  \A r \in Requests :
    req[r].at = "answered" /\ req[r].ended /\ ended /\ req[r].gate = Nobody
      => req[r].user = Nobody

\* A request to sign out that never settles does not strand the button.
ButtonReturns == leaving ~> ~leaving
=============================================================================
