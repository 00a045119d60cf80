------------------------------- MODULE SignIn -------------------------------
(***************************************************************************)
(* Signing in and out in the live preview, where the page is a frame       *)
(* without cookies: a popup goes to the broker and posts the session back  *)
(* as a bearer token (lib/auth/client.ts, popup.server.ts), and dropping   *)
(* the token is signing out (scripts/sign-out-plan.mjs).  And the button   *)
(* that enters the demo, which makes its account when there is none        *)
(* (routes/login.tsx).                                                     *)
(***************************************************************************)
EXTENDS Integers, FiniteSets

CONSTANTS
  Attempts,       \* clicks on a sign-in button; each is also the session it makes
  Visitors,       \* visitors who enter the demo
  MaxSignFaults   \* bound on calls to the server that fail

Old == -1   \* the token of a session that an earlier page left, and that is gone

ASSUME SignInAssumption == Attempts \cap {0, Old} = {} /\ MaxSignFaults \in Nat

VARIABLES
  attempt,     \* how far each attempt has got
  window,      \* its popup
  mail,        \* messages from popups that the page has not received
  bearer,      \* the token in sessionStorage, 0 if none
  rows,        \* sessions that have a row
  going,       \* requests to end a session: the token each carries
  leaving,     \* the page is signing out
  account,     \* the demo account exists
  demo,        \* each visitor of the demo
  signFaults

pageVars == <<attempt, window, mail, bearer, rows, going, leaving>>
demoVars == <<account, demo>>
signVars == <<pageVars, demoVars, signFaults>>

Fresh == [at |-> "idle", solo |-> TRUE, early |-> FALSE]

SignInit ==
  /\ attempt = [a \in Attempts |-> Fresh]
  /\ window = [a \in Attempts |-> "none"]
  /\ mail = {} /\ bearer = Old /\ rows = {} /\ going = {} /\ leaving = FALSE
  /\ account = FALSE
  /\ demo = [v \in Visitors |-> [at |-> "idle", failed |-> FALSE]]
  /\ signFaults = 0

Under(a) == attempt[a].at \in {"clearing", "waiting"}
\* SignInGate shows the page to whoever has a session, and buttons to others.
Shown == bearer \in rows

Fault == signFaults < MaxSignFaults /\ signFaults' = signFaults + 1

\* The prior session is dropped, and the attempt waits for its popup if it has one.
PriorDropped(a) ==
  /\ bearer' = 0
  /\ attempt' = [attempt EXCEPT ![a].at = IF window'[a] = "blocked" THEN "failed"
                                          ELSE "waiting"]

\* The popup is opened on the click, before anything is awaited.
signIn(a) ==
  /\ attempt[a].at = "idle" /\ ~Shown /\ ~leaving
  /\ \E w \in {"open", "blocked"} : window' = [window EXCEPT ![a] = w]
  /\ LET alone == mail = {} /\ \A b \in Attempts : ~Under(b) /\ window[b] # "open"
         started == [b \in Attempts |->
                       IF b = a THEN [Fresh EXCEPT !.at = "clearing", !.solo = alone]
                       ELSE IF Under(b) THEN [attempt[b] EXCEPT !.solo = FALSE]
                       ELSE attempt[b]]
     IN IF bearer = 0
        THEN /\ attempt' = [started EXCEPT ![a].at =
                              IF window'[a] = "blocked" THEN "failed" ELSE "waiting"]
             /\ UNCHANGED going
        ELSE attempt' = started /\ going' = going \cup {bearer}
  /\ UNCHANGED <<mail, bearer, rows, leaving, demoVars, signFaults>>

\* settleWithin: the request was answered, or 1.5 s have passed.
runPreSignInSignOut(a) ==
  /\ attempt[a].at = "clearing"
  /\ window' = window
  /\ PriorDropped(a)
  /\ UNCHANGED <<mail, rows, going, leaving, demoVars, signFaults>>

\* onRequest took the token when the request was made.
carried(t) == t

EndsSession(t) ==
  /\ t \in going
  /\ going' = going \ {t}
  /\ rows' = rows \ {carried(t)}
  /\ UNCHANGED <<attempt, window, mail, bearer, leaving, demoVars, signFaults>>

\* The page of the popup: it posts the session's token, or null after an error, and
\* closes; or the user closes it.
handleAuthPopupRequest(a) ==
  /\ window[a] = "open"
  /\ attempt' = [attempt EXCEPT ![a].early = attempt[a].at = "clearing"]
  /\ \/ /\ window' = [window EXCEPT ![a] = "completed"]
        /\ rows' = rows \cup {a} /\ mail' = mail \cup {[from |-> a, token |-> a]}
     \/ /\ window' = [window EXCEPT ![a] = "errored"]
        /\ mail' = mail \cup {[from |-> a, token |-> 0]} /\ UNCHANGED rows
     \/ /\ window' = [window EXCEPT ![a] = "dismissed"] /\ UNCHANGED <<rows, mail>>
  /\ UNCHANGED <<bearer, going, leaving, demoVars, signFaults>>

Listening == {a \in Attempts : attempt[a].at = "waiting"}

\* onMessage: every attempt that waits takes it for its own popup's.
PopupMessage(m) ==
  /\ m \in mail /\ mail' = mail \ {m}
  /\ attempt' = [a \in Attempts |->
       IF a \in Listening
       THEN [attempt[a] EXCEPT !.at = IF m.token = 0 THEN "failed" ELSE "ok"]
       ELSE attempt[a]]
  /\ bearer' = IF Listening # {} /\ m.token # 0 THEN m.token ELSE bearer
  /\ UNCHANGED <<window, rows, going, leaving, demoVars, signFaults>>

\* Mutant: the attempt is over as soon as the popup is closed.
NoGrace == TRUE
\* The grace period lets a message that was posted arrive first.
Grace == mail = {}

settleClosed(a) ==
  /\ attempt[a].at = "waiting" /\ window[a] \in {"completed", "errored", "dismissed"}
  /\ Grace
  /\ attempt' = [attempt EXCEPT ![a].at = "failed"]
  /\ UNCHANGED <<window, mail, bearer, rows, going, leaving, demoVars, signFaults>>

signOut ==
  /\ Shown /\ ~leaving
  /\ leaving' = TRUE /\ going' = going \cup {bearer}
  /\ UNCHANGED <<attempt, window, mail, bearer, rows, demoVars, signFaults>>

\* Whatever became of the request, the token is dropped and the page is left.
runSignOut ==
  /\ leaving /\ leaving' = FALSE
  /\ bearer' = 0
  /\ attempt' = [a \in Attempts |-> IF Under(a) \/ attempt[a].at = "ok"
                                    THEN [Fresh EXCEPT !.at = "left"] ELSE attempt[a]]
  /\ UNCHANGED <<window, mail, rows, going, demoVars, signFaults>>
-----------------------------------------------------------------------------
(* enterDemo: sign in, else sign up, else sign in. *)

To(v, at, ok) == demo' = [demo EXCEPT ![v] = [at |-> at, failed |-> @.failed \/ ~ok]]

Call(v, at, possible, then, otherwise) ==
  /\ demo[v].at = at
  /\ \/ To(v, IF possible THEN then ELSE otherwise, TRUE) /\ UNCHANGED signFaults
     \/ Fault /\ To(v, otherwise, FALSE)
  /\ UNCHANGED pageVars

enterDemo(v) ==
  /\ demo[v].at = "idle" /\ To(v, "signing in", TRUE)
  /\ UNCHANGED <<pageVars, account, signFaults>>

FirstSignIn(v) == Call(v, "signing in", account, "entered", "signing up") /\ UNCHANGED account

\* Mutant: an account that somebody else has just made is an error.
GivesUp == "failed"
AfterSignUp == "signing in again"

\* The e-mail is unique: one of two visitors makes the account.
SignUp(v) ==
  /\ Call(v, "signing up", ~account, "entered", AfterSignUp)
  /\ account' = (account \/ demo'[v].at = "entered")

SecondSignIn(v) ==
  Call(v, "signing in again", account, "entered", "failed") /\ UNCHANGED account

PageNext ==
  \/ \E a \in Attempts :
       signIn(a) \/ runPreSignInSignOut(a) \/ handleAuthPopupRequest(a) \/ settleClosed(a)
  \/ \E t \in going : EndsSession(t)
  \/ \E m \in mail : PopupMessage(m)
  \/ signOut \/ runSignOut

DemoNext ==
  \E v \in Visitors : enterDemo(v) \/ FirstSignIn(v) \/ SignUp(v) \/ SecondSignIn(v)

SignNext == PageNext \/ DemoNext

SignSpec == SignInit /\ [][SignNext]_signVars
-----------------------------------------------------------------------------
\* An attempt that no other overlapped, not even with a popup that its own attempt has
\* given up, and whose popup completed after the page began to listen, succeeds with
\* the session of that popup: neither the closing of the popup nor the request that
\* ends the earlier session takes it away.
PopupHonoured ==
  \A a \in Attempts :
    /\ attempt[a].solo /\ ~attempt[a].early
    /\ window[a] = "completed" /\ attempt[a].at \in {"ok", "failed"}
    => /\ attempt[a].at = "ok"
       /\ (\A b \in Attempts \ {a} : attempt[b].at = "idle") => bearer = a
       /\ ~leaving /\ bearer = a => a \in rows

\* Every visitor enters the demo although several meet the missing account at once:
\* only a call of one's own that fails keeps one out.
DemoEntered == \A v \in Visitors : demo[v].at = "failed" => demo[v].failed
=============================================================================
