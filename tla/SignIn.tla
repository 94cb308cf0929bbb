------------------------------- MODULE SignIn -------------------------------
(***************************************************************************)
(* How a browser signs in: the forms and the AuthScreen of the client, its *)
(* in-memory store and HTTP client (apps/web/src/features/auth, app/),     *)
(* the routes of apps/api/src/routes/auth.ts, the CSRF hook                *)
(* (services/auth/csrf.ts), the bearer check (middleware/auth.ts) and what *)
(* the gateway asks of a token (ws/gateway.ts).                            *)
(*                                                                         *)
(* A flow is one submission of the login form with the enrolment and the   *)
(* refresh that follow.  The form is not left to itself: the user may      *)
(* sign out, sign in as somebody else or reload the page meanwhile.  How   *)
(* refresh tokens rotate is the subject of RefreshTokens, how keys are     *)
(* made for a device that of LocalKeys and Devices.                        *)
(***************************************************************************)
EXTENDS Naturals, Sequences

CONSTANTS
  Users,                    \* handles
  Flows,                    \* bound: logins whose promise may be pending at once
  MaxSignIns,               \* bound: submissions of the login form
  MaxEnrolments             \* bound: devices enrolled

VARIABLES
  accounts,                 \* table users: the handles taken
  csrf,                     \* the browser holds the cookie konvo_csrf
  jar,                      \* the user of its refresh cookie
  signedIn, token,          \* AuthState: user and accessToken
  deviceId,                 \* konvo:deviceId in localStorage
  owners,                   \* table devices: the user of each row
  flow,
  socket,                   \* what the gateway made of the last upgrade
  signIns,
  crossed                   \* history: a sign-out or another sign-in fell into a
                            \* flow, or two users signed in on this browser

serverVars == <<accounts, owners>>
browserVars == <<csrf, jar, deviceId>>
sessionVars == <<signedIn, token>>
signInVars == <<serverVars, browserVars, sessionVars, flow, socket, signIns, crossed>>

Nobody == "nobody"
NoToken == [sub |-> Nobody, did |-> 0, valid |-> FALSE]
Token(u, d) == [sub |-> u, did |-> d, valid |-> TRUE]
NoFlow == [at |-> "idle"]
Pending(f) == flow[f].at \notin {"idle", "done"}

SignInInit ==
  /\ accounts = {} /\ owners = <<>>
  /\ csrf = FALSE /\ jar = Nobody /\ deviceId = 0
  /\ signedIn = Nobody /\ token = NoToken
  /\ flow = [f \in Flows |-> NoFlow]
  /\ socket = [is |-> "none"]
  /\ signIns = 0
  /\ crossed = FALSE

----------------------------------------------------------------------------
(* Accounts, and the CSRF cookie.                                          *)

(* POST /auth/signup: the unique index refuses a handle that is taken.     *)
Signup(u) ==
  /\ u \notin accounts
  /\ accounts' = accounts \cup {u}
  /\ UNCHANGED <<owners, browserVars, sessionVars, flow, socket, signIns, crossed>>

(* A GET outside the skipped paths, of whatever page: it sets the cookie.  *)
Get ==
  /\ ~csrf
  /\ csrf' = TRUE
  /\ UNCHANGED <<serverVars, jar, deviceId, sessionVars, flow, socket, signIns, crossed>>

(* Double submit: the header repeats the cookie when there is one.         *)
CsrfPasses == csrf

----------------------------------------------------------------------------
(* The login form, and what AuthScreen does once it has succeeded.         *)

SetFlow(f, r) == flow' = [flow EXCEPT ![f] = r]
Disturbed == crossed \/ \E f \in Flows : Pending(f)

SubmitLogin(f, u) ==
  /\ ~Pending(f)
  /\ u \in accounts
  /\ signIns < MaxSignIns
  /\ signIns' = signIns + 1
  /\ SetFlow(f, [at |-> "login", user |-> u, did |-> deviceId])
  /\ crossed' = Disturbed
  /\ UNCHANGED <<serverVars, browserVars, sessionVars, socket>>

(* POST /auth/login: password and code are right; the token names the      *)
(* device of the request as it was sent.                                   *)
Login(f) ==
  /\ flow[f].at = "login"
  /\ jar' = flow[f].user
  /\ SetFlow(f, [flow[f] EXCEPT !.at = "loggedIn"])
  /\ UNCHANGED <<serverVars, csrf, deviceId, sessionVars, socket, signIns, crossed>>

(* setAuth, then enrollDeviceIfNeeded: the cached id is kept.              *)
LoggedIn(f) ==
  /\ flow[f].at = "loggedIn"
  /\ signedIn' = flow[f].user
  /\ token' = Token(flow[f].user, flow[f].did)
  /\ SetFlow(f, IF deviceId = 0 THEN [flow[f] EXCEPT !.at = "enroll"]
                ELSE [flow[f] EXCEPT !.at = "refresh", !.did = deviceId])
  /\ crossed' = (crossed \/ \E d \in 1..Len(owners) : d = deviceId /\ owners[d] # flow[f].user)
  /\ UNCHANGED <<serverVars, browserVars, socket, signIns>>

(* The bearer check: a token of any device, or of none, will do.           *)
RequireAuth == token.valid

(* POST /devices with whatever token the store holds by now.               *)
CreateDevice(f) ==
  /\ flow[f].at = "enroll"
  /\ CsrfPasses /\ RequireAuth
  /\ Len(owners) < MaxEnrolments
  /\ owners' = Append(owners, token.sub)
  /\ SetFlow(f, [flow[f] EXCEPT !.at = "created", !.did = Len(owners')])
  /\ UNCHANGED <<accounts, browserVars, sessionVars, socket, signIns, crossed>>

Created(f) ==
  /\ flow[f].at = "created"
  /\ deviceId' = flow[f].did
  /\ SetFlow(f, [flow[f] EXCEPT !.at = "refresh"])
  /\ UNCHANGED <<serverVars, csrf, jar, sessionVars, socket, signIns, crossed>>

\* Mutant of RefreshedToken: the refresh does not name the device.
RefreshedTokenUnbound(f) == Token(jar, 0)

(* POST /auth/refresh?deviceId=: the user is that of the cookie.           *)
RefreshedToken(f) == Token(jar, flow[f].did)
Refresh(f) ==
  /\ flow[f].at = "refresh"
  /\ CsrfPasses /\ jar # Nobody
  /\ SetFlow(f, [at |-> "refreshed", token |-> RefreshedToken(f)])
  /\ UNCHANGED <<serverVars, browserVars, sessionVars, socket, signIns, crossed>>

(* setAccessToken leaves the user as it is; then the route /dm.            *)
Refreshed(f) ==
  /\ flow[f].at = "refreshed"
  /\ token' = flow[f].token
  /\ SetFlow(f, [at |-> "done"])
  /\ UNCHANGED <<serverVars, browserVars, signedIn, socket, signIns, crossed>>

(* Wrong credentials, a 403 of the CSRF hook, a 401 of requireAuth, a      *)
(* refresh refused, which clears the cookie, or no network: AuthScreen     *)
(* warns and goes on.                                                      *)
FlowFails(f) ==
  /\ flow[f].at \in {"login", "enroll", "refresh"}
  /\ SetFlow(f, NoFlow)
  /\ jar' \in {jar, IF flow[f].at = "refresh" /\ CsrfPasses THEN Nobody ELSE jar}
  /\ UNCHANGED <<serverVars, csrf, deviceId, sessionVars, socket, signIns, crossed>>

ClearAuth == signedIn' = Nobody /\ token' = NoToken

(* The button of the rail clears the store, and only the store.            *)
SignOut ==
  /\ signedIn # Nobody
  /\ ClearAuth
  /\ crossed' = Disturbed
  /\ UNCHANGED <<serverVars, browserVars, flow, socket, signIns>>

(* The store is in memory only.                                            *)
ReloadApp ==
  /\ ClearAuth
  /\ flow' = [f \in Flows |-> NoFlow]
  /\ UNCHANGED <<serverVars, browserVars, socket, signIns, crossed>>

AccessExpires ==
  /\ token.valid
  /\ token' = [token EXCEPT !.valid = FALSE]
  /\ UNCHANGED <<serverVars, browserVars, signedIn, flow, socket, signIns, crossed>>

----------------------------------------------------------------------------
(* The upgrade of DmHost's socket: authenticate, then the HELLO, whose     *)
(* device is the cached one.                                               *)

Authenticated == token.valid /\ token.did # 0
HelloBinds == deviceId = token.did
Upgrade ==
  /\ signedIn # Nobody
  /\ socket' = IF ~Authenticated THEN [is |-> "refused"]
               ELSE IF ~HelloBinds THEN [is |-> "mismatch"]
               ELSE [is |-> "ready", sub |-> token.sub, did |-> token.did]
  /\ UNCHANGED <<serverVars, browserVars, sessionVars, flow, signIns, crossed>>

SignInNext ==
  \/ Get \/ SignOut \/ ReloadApp \/ AccessExpires \/ Upgrade
  \/ \E u \in Users : Signup(u)
  \/ \E f \in Flows :
       \/ \E u \in Users : SubmitLogin(f, u)
       \/ Login(f) \/ LoggedIn(f) \/ CreateDevice(f) \/ Created(f)
       \/ Refresh(f) \/ Refreshed(f) \/ FlowFails(f)

SignInSpec == SignInInit /\ [][SignInNext]_signInVars

----------------------------------------------------------------------------
(* A flow that ends well, undisturbed and in a browser of one user, leaves *)
(* a token of the user on the screen, bound to a device this user has      *)
(* enrolled in this browser (routes/auth.ts, Requirement 1.3), and a       *)
(* connection the gateway makes of any token speaks for a device of its    *)
(* user.                                                                   *)
SignInBinds ==
  ~crossed =>
    /\ signedIn # Nobody /\ (\E f \in Flows : flow[f].at = "done") =>
         /\ token.sub = signedIn /\ token.did = deviceId
         /\ deviceId \in 1..Len(owners) /\ owners[deviceId] = signedIn
    /\ socket.is = "ready" =>
         socket.did \in 1..Len(owners) /\ owners[socket.did] = socket.sub

(* "After login the SPA has both a refresh token AND a csrf token"         *)
(* (server.ts:353-355).                                                    *)
SignedInHasCsrf == signedIn # Nobody => csrf
=============================================================================
