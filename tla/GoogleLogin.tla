---------------------------- MODULE GoogleLogin ----------------------------
(***************************************************************************)
(* Signing in to Google (google/mod.rs login and cancel_login,             *)
(* google/oauth.rs, GoogleBackupSection.tsx).  A login waits for the       *)
(* browser's redirect, its cancel channel or a timeout.  The sender of the *)
(* channel is in AppState.google_login_cancel, one slot for all logins; a  *)
(* dropped sender wakes the receiver like a message.  The panel allows one *)
(* login at a time, but forgets about it when it is left and opened again. *)
(***************************************************************************)
EXTENDS Naturals, FiniteSets

CONSTANTS Logins,   \* calls of google_login
          NoLogin

ASSUME LoginAssumption == NoLogin \notin Logins

VARIABLES
    slot,       \* google_login_cancel: whose sender it holds, or NoLogin
    loginPc,    \* control point of each login
    result,     \* what await_redirect and exchange_code returned
    token,      \* is a refresh token stored in the vault?
    clicked     \* history: logins pending when Cancel was clicked

loginVars == <<slot, loginPc, result, token, clicked>>

LoginTypeOK ==
    /\ slot \in Logins \cup {NoLogin}
    /\ loginPc \in [Logins -> {"idle", "waiting", "exchange", "returned", "email", "ended"}]
    /\ result \in [Logins -> {"none", "tokens", "error", "cancelled"}]
    /\ \A l \in Logins : loginPc[l] = "email" => result[l] = "tokens"
    /\ token \in BOOLEAN
    /\ clicked \subseteq Logins

LoginInit ==
    /\ slot = NoLogin
    /\ loginPc = [l \in Logins |-> "idle"]
    /\ result = [l \in Logins |-> "none"]
    /\ token = FALSE /\ clicked = {}

\* The panel's buttons: Sign in, Cancel while a login is pending, Sign out.
SignInOffered == ~token
CancelOffered == \E l \in Logins : loginPc[l] \in {"waiting", "exchange", "returned", "email"}
SignOutOffered == token

\* The sender is stored, dropping the one that was there; the browser opens.
Login(l) ==
    /\ loginPc[l] = "idle" /\ SignInOffered
    /\ slot' = l
    /\ loginPc' = [loginPc EXCEPT ![l] = "waiting"]
    /\ UNCHANGED <<result, token, clicked>>

Returns(l, r) ==
    /\ loginPc' = [loginPc EXCEPT ![l] = "returned"]
    /\ result' = [result EXCEPT ![l] = r]

\* select!: the redirect comes in; it may be a refusal or a wrong state.
Redirected(l) ==
    /\ loginPc[l] = "waiting"
    /\ \/ loginPc' = [loginPc EXCEPT ![l] = "exchange"] /\ UNCHANGED result
       \/ Returns(l, "error")
    /\ UNCHANGED <<slot, token, clicked>>

\* select!: the sender has sent or is gone.
CancelSeen(l) ==
    /\ loginPc[l] = "waiting" /\ slot # l
    /\ Returns(l, "cancelled")
    /\ UNCHANGED <<slot, token, clicked>>

\* select!: LOGIN_TIMEOUT
TimedOut(l) ==
    /\ loginPc[l] = "waiting"
    /\ Returns(l, "error")
    /\ UNCHANGED <<slot, token, clicked>>

ExchangeCode(l) ==
    /\ loginPc[l] = "exchange"
    /\ \E r \in {"tokens", "error"} : Returns(l, r)
    /\ UNCHANGED <<slot, token, clicked>>

\* The slot is emptied, whoever's sender it holds; only tokens go on.
SlotKept == slot
SlotAfter == NoLogin
Continues(l) == IF result[l] = "tokens" THEN "email" ELSE "ended"

TakeSlot(l) ==
    /\ loginPc[l] = "returned"
    /\ slot' = SlotAfter
    /\ loginPc' = [loginPc EXCEPT ![l] = Continues(l)]
    /\ UNCHANGED <<result, token, clicked>>

\* fetch_email, then google_auth::set; a missing token or a locked vault ends
\* it with an error.
StoreToken(l) ==
    /\ loginPc[l] = "email"
    /\ token' \in {token, TRUE}
    /\ loginPc' = [loginPc EXCEPT ![l] = "ended"]
    /\ UNCHANGED <<slot, result, clicked>>

\* cancel_login takes the sender out of the slot and uses it; a version that
\* looks at it only.
Peeked == slot
Taken == NoLogin

CancelLogin ==
    /\ CancelOffered
    /\ slot' = Taken
    /\ clicked' = clicked \cup {l \in Logins : loginPc[l] = "waiting"}
    /\ UNCHANGED <<loginPc, result, token>>

Logout ==
    /\ SignOutOffered
    /\ token' = FALSE
    /\ UNCHANGED <<slot, loginPc, result, clicked>>

Step(l) == CancelSeen(l) \/ ExchangeCode(l) \/ TakeSlot(l) \/ StoreToken(l)

LoginNext ==
    \/ \E l \in Logins : Login(l) \/ Redirected(l) \/ TimedOut(l) \/ Step(l)
    \/ CancelLogin \/ Logout

\* The runtime polls every task that was woken, and the HTTP client returns an
\* answer or an error.  The user may never finish in the browser; and the timeout
\* is left out, because Cancel is there not to have to wait for it.
Fairness == \A l \in Logins : WF_loginVars(Step(l))

LoginSpec == LoginInit /\ [][LoginNext]_loginVars /\ Fairness

-----------------------------------------------------------------------------
\* When every login has ended no sender is left behind: Cancel is a no-op, as
\* cancel_login says.
NoStaleSender ==
    (\A l \in Logins : loginPc[l] \in {"idle", "ended"}) => slot = NoLogin

\* Cancel ends every pending login, without the timeout.
CancelEnds == \A l \in Logins : (l \in clicked) ~> (loginPc[l] = "ended")
=============================================================================
