------------------------------ MODULE Accounts ------------------------------
(***************************************************************************)
(* Accounts, their e-mail addresses and their sessions: auth.ts,           *)
(* email-otp-challenges.ts, email-change-requests.ts of packages/core and  *)
(* the routes of the API that call them.                                   *)
(*                                                                         *)
(* A call of the database is one transaction and one step.  A route makes  *)
(* several of them, and between two of its steps the requests of other     *)
(* tabs, browsers and accounts go on.  A request carries the cookies its   *)
(* browser held when it was sent, and its reply sets those cookies later,  *)
(* or is lost.                                                             *)
(*                                                                         *)
(* The tokens of a session are numbered by rotation: at generation g the   *)
(* access token g is the one in the row, the refresh token g is unconsumed *)
(* and every earlier refresh token is consumed.                            *)
(***************************************************************************)
EXTENDS Naturals

CONSTANTS
  Accounts, Addresses, Sessions,
  Browsers,    \* cookie jars: the tabs of a browser share one
  Requests,    \* requests in progress at one time
  MaxGen,      \* rotations of a session
  MaxIssued,   \* codes, and requests to change an address, that are ever issued
  Attempts,    \* wrong answers that end a challenge: 5
  NoAccount, NoAddress, NoSession, NoBrowser

ASSUME BoundsAssumption == MaxGen \in Nat /\ MaxIssued \in Nat /\ Attempts \in Nat \ {0}
ASSUME NullsAssumption == NoAccount \notin Accounts /\ NoAddress \notin Addresses
                          /\ NoSession \notin Sessions /\ NoBrowser \notin Browsers

VARIABLES
  email,     \* users.email; NoAddress: there is no such account
  session,   \* sessions and session_refresh_tokens
  code,      \* code[x]: email_otp_challenges
  change,    \* change[a]: email_change_requests
  jar,       \* jar[b]: the cookies of browser b
  req,       \* req[r]: where the request stands
  issued,    \* challenges issued so far
  answered   \* history: <<i, x>> when the code of challenge i to address x was given

vars == <<email, session, code, change, jar, req, issued, answered>>
accountVars == <<email, code, change, issued, answered>>

-----------------------------------------------------------------------------
(* Types *)

Ids == 1..MaxIssued

Session == [state : {"unused", "live", "over"}, owner : Accounts \union {NoAccount},
            gen : 0..MaxGen, fresh : BOOLEAN, code : {0} \union Ids]

Challenge == [id : {0} \union Ids, intent : {"none", "sign-in", "sign-up"},
              attempts : 0..(Attempts - 1)]

NoChallenge == [id |-> 0, intent |-> "none", attempts |-> 0]

Sides == {"current", "new"}

ChangeRequest == [id : {0} \union Ids, from : Addresses \union {NoAddress},
                  to : Addresses \union {NoAddress}, attempts : [Sides -> 0..(Attempts - 1)],
                  verified : SUBSET Sides]

NoChange == [id |-> 0, from |-> NoAddress, to |-> NoAddress, attempts |-> [d \in Sides |-> 0],
             verified |-> {}]

Token == [session : Sessions \union {NoSession}, gen : 0..MaxGen]

NoToken == [session |-> NoSession, gen |-> 0]

\* pc "route": past the hook, for one of the routes of who is signed in.  Which one it
\* is shows in what it does.
Request == [pc : {"idle", "consume", "login", "granted", "refresh", "signOut",
                  "signedOut", "revoke", "route"},
            browser : Browsers \union {NoBrowser}, token : Token,
            address : Addresses \union {NoAddress}, id : {0} \union Ids]

Idle == [pc |-> "idle", browser |-> NoBrowser, token |-> NoToken, address |-> NoAddress,
         id |-> 0]

AccountsTypeOK ==
  /\ email \in [Accounts -> Addresses \union {NoAddress}]
  /\ session \in [Sessions -> Session]
  /\ code \in [Addresses -> Challenge]
  /\ change \in [Accounts -> ChangeRequest]
  /\ jar \in [Browsers -> Token]
  /\ req \in [Requests -> Request]
  /\ issued \in 0..MaxIssued
  /\ answered \subseteq Ids \X Addresses

OneAddressEach(e) == \A a, b \in Accounts : e[a] = e[b] /\ e[a] # NoAddress => a = b

Unused == [state |-> "unused", owner |-> NoAccount, gen |-> 0, fresh |-> FALSE, code |-> 0]

\* A session that was opened earlier, with a code that is long gone.
Opened(a) == [state |-> "live", owner |-> a, gen |-> 0, fresh |-> TRUE, code |-> 0]

Init ==
  /\ email \in {e \in [Accounts -> Addresses \union {NoAddress}] : OneAddressEach(e)}
  /\ session \in [Sessions -> {Unused} \union
                              {Opened(a) : a \in {c \in Accounts : email[c] # NoAddress}}]
  /\ jar \in [Browsers -> {NoToken} \union
                          [session : {s \in Sessions : session[s] # Unused}, gen : {0}]]
  /\ \A b, d \in Browsers : jar[b] = jar[d] /\ jar[b] # NoToken => b = d
  /\ code = [x \in Addresses |-> NoChallenge]
  /\ change = [a \in Accounts |-> NoChange]
  /\ req = [r \in Requests |-> Idle]
  /\ issued = 0
  /\ answered = {}

-----------------------------------------------------------------------------
(* Sessions *)

Live(s) == session[s].state = "live"

\* Auth.session: the access token of a request is the one in the row.
Valid(t) ==
  /\ t.session # NoSession
  /\ Live(t.session) /\ session[t.session].fresh /\ session[t.session].gen = t.gen

Owner(t) == session[t.session].owner

Revoked(S) == [s \in Sessions |-> IF s \in S /\ Live(s)
                                  THEN [session[s] EXCEPT !.state = "over", !.fresh = FALSE] ELSE session[s]]

\* The session a sign-in sees: its route gets the access cookie only, which the
\* browser drops when it expires.
Seen(t) == {s \in Sessions : t.session = s /\ Valid(t)}

Goto(r, pc) == req' = [req EXCEPT ![r].pc = pc]
Done(r) == req' = [req EXCEPT ![r] = Idle]

\* The reply on its way: new cookies, or none.
Grant(r, t) ==
  req' = [req EXCEPT ![r] = [Idle EXCEPT !.pc = "granted", !.browser = req[r].browser,
                                         !.token = t]]

\* createSession: revokes the session of the request's cookies, opens another.
\* Its owner is alone in this: the users row is locked.
CreateSession(r, a, i) ==
  \E s \in Sessions :
    /\ session[s].state = "unused"
    /\ session' = [Revoked(Seen(req[r].token)) EXCEPT ![s] =
                     [state |-> "live", owner |-> a, gen |-> 0, fresh |-> TRUE, code |-> i]]
    /\ Grant(r, [session |-> s, gen |-> 0])

Starts(r, b, pc) ==
  /\ req[r].pc = "idle"
  /\ req' = [req EXCEPT ![r] = [Idle EXCEPT !.pc = pc, !.browser = b, !.token = jar[b]]]

\* The hook before a route finds the session; the route acts later, for the owner
\* that was found.
StartRoute(r, b) ==
  /\ Valid(jar[b])
  /\ Starts(r, b, "route")
  /\ UNCHANGED <<accountVars, session, jar>>

\* POST /api/session/refresh
StartRefresh(r, b) ==
  /\ jar[b] # NoToken
  /\ Starts(r, b, "refresh")
  /\ UNCHANGED <<accountVars, session, jar>>

\* Mutant: a revoked session can be refreshed.
RefreshableRevoked(t) == session[t.session].state \in {"live", "over"}

Refreshable(t) == Live(t.session)

\* refresh: a consumed token ends the session, the current one is rotated.
Refresh(r) ==
  LET t == req[r].token IN
  /\ req[r].pc = "refresh"
  /\ \/ /\ t.gen < session[t.session].gen
        /\ session' = Revoked({t.session})
        /\ Grant(r, NoToken)
     \/ /\ t.gen = session[t.session].gen /\ Refreshable(t) /\ t.gen < MaxGen
        /\ session' = [session EXCEPT ![t.session] = [@ EXCEPT !.gen = t.gen + 1, !.fresh = TRUE]]
        /\ Grant(r, [session |-> t.session, gen |-> t.gen + 1])
     \/ /\ t.gen = session[t.session].gen /\ ~Refreshable(t)
        /\ Grant(r, NoToken)
        /\ UNCHANGED session
  /\ UNCHANGED <<accountVars, jar>>

\* POST /api/session/logout, which gets both cookies.
StartSignOut(r, b) ==
  /\ jar[b] # NoToken
  /\ Starts(r, b, "signOut")
  /\ UNCHANGED <<accountVars, session, jar>>

\* Mutant: only the access token is looked up.
FamilyByAccess(t) == Seen(t)

\* logout finds the session by either token, a consumed refresh token too.
Family(t) == {t.session} \ {NoSession}

\* A live session needs the CSRF token of its access token, which a tab may not
\* have, or not any more.
SignOut(r) ==
  /\ req[r].pc = "signOut"
  /\ \/ session' = Revoked(Family(req[r].token)) /\ Goto(r, "signedOut")
     \/ Valid(req[r].token) /\ Done(r) /\ UNCHANGED session
  /\ UNCHANGED <<accountVars, jar>>

\* DELETE /api/account/sessions/:id.  One's own session signs the browser out; a
\* session of somebody else is not found.
RevokeSession(r) ==
  LET t == req[r].token IN
  /\ req[r].pc = "route"
  /\ \E s \in Sessions :
       IF session[s].owner = Owner(t)
       THEN /\ session' = Revoked({s})
            /\ IF s = t.session THEN Goto(r, "signedOut") ELSE Done(r)
       ELSE Done(r) /\ UNCHANGED session
  /\ UNCHANGED <<accountVars, jar>>

Others(t) == {s \in Sessions \ {t.session} : session[s].owner = Owner(t)}

\* revokeOtherSessions: the access token has to be the one in the row still.
RevokeOthers(t) == session' = IF Valid(t) THEN Revoked(Others(t)) ELSE session

\* POST /api/account/sessions/revoke-others
RevokeOtherSessions(r) ==
  /\ req[r].pc = "route"
  /\ RevokeOthers(req[r].token)
  /\ Done(r)
  /\ UNCHANGED <<accountVars, jar>>

\* The reply sets the cookies of the browser, or clears them.
Reply(r) ==
  /\ req[r].pc \in {"granted", "signedOut"}
  /\ jar' = [jar EXCEPT ![req[r].browser] =
               IF req[r].pc = "granted" THEN req[r].token ELSE NoToken]
  /\ Done(r)
  /\ UNCHANGED <<accountVars, session>>

\* The API stops between two steps, or the reply is lost.  (A request lost before
\* its first step changes nothing.)
Drop(r) ==
  /\ req[r].pc \in {"granted", "signedOut", "login", "revoke"}
  /\ Done(r)
  /\ UNCHANGED <<accountVars, session, jar>>

\* Fifteen minutes, and thirty days: every statement treats an expired session,
\* and one that sweepExpiredSessions deleted, as it does a revoked one.
ExpireAccess(s) ==
  /\ Live(s) /\ session[s].fresh
  /\ session' = [session EXCEPT ![s].fresh = FALSE]
  /\ UNCHANGED <<accountVars, jar, req>>

ExpireSession(s) ==
  /\ Live(s)
  /\ session' = Revoked({s})
  /\ UNCHANGED <<accountVars, jar, req>>

-----------------------------------------------------------------------------
(* Codes by e-mail: POST /api/otp/request and /api/otp/verify *)

HolderOf(x) == {a \in Accounts : email[a] = x}

\* replaceActive: another code takes the place of the last one, unless that is
\* less than a minute old; the minute is not modelled.
IssueCode(x, intent) ==
  /\ issued < MaxIssued
  /\ code' = [code EXCEPT ![x] = [id |-> issued + 1, intent |-> intent, attempts |-> 0]]
  /\ issued' = issued + 1
  /\ UNCHANGED <<email, session, change, jar, req, answered>>

\* invalidate, when the code could not be sent, or ten minutes: every statement
\* treats an expired row as none.
LoseCode(x) ==
  /\ code[x].id # 0
  /\ code' = [code EXCEPT ![x] = NoChallenge]
  /\ UNCHANGED <<email, session, change, jar, req, issued, answered>>

\* The web client signs out before it signs in; a refused or failed sign-out is
\* ignored.  The request is for what the code was asked for: the code row is not
\* found for the other purpose.
StartSignIn(r, b, x) ==
  /\ req[r].pc = "idle"
  /\ \/ /\ session' = Revoked(Family(jar[b]))
        /\ jar' = [jar EXCEPT ![b] = NoToken]
     \/ UNCHANGED <<session, jar>>
  /\ code[x].id # 0
  /\ req' = [req EXCEPT ![r] = [pc |-> "consume", browser |-> b, token |-> jar'[b],
                                address |-> x, id |-> code[x].id]]
  /\ UNCHANGED accountVars

\* Mutant: the fifth wrong answer leaves the code in place.
LastAttemptLater(n) == n >= Attempts

LastAttempt(n) == n + 1 >= Attempts

\* Mutant: an accepted code stays until it expires.
UsedCodeStays(x) == UNCHANGED code

UsedCode(x) == code' = [code EXCEPT ![x] = NoChallenge]

\* createOtpAccountInTransaction: signs in to the account that has the address,
\* or makes one.
CreateOtpAccount(r, x, i) ==
  \/ /\ \E a \in HolderOf(x) : CreateSession(r, a, i)
     /\ UNCHANGED email
  \/ /\ HolderOf(x) = {}
     /\ \E a \in HolderOf(NoAddress) :
          email' = [email EXCEPT ![a] = x] /\ CreateSession(r, a, i)

\* consume, under the lock of the row.  The row may be another one by now.  An
\* accepted code to sign up opens the account and its session in one transaction,
\* which is rolled back when the terms have another version by now.
ConsumeCode(r) ==
  LET q == req[r]
      x == q.address
      c == code[x]
  IN
  /\ q.pc = "consume"
  /\ CASE c.id # q.id ->
            Done(r) /\ UNCHANGED <<email, session, code, answered>>
       [] OTHER ->
            \/ /\ code' = IF LastAttempt(c.attempts) THEN [code EXCEPT ![x] = NoChallenge]
                          ELSE [code EXCEPT ![x].attempts = @ + 1]
               /\ Done(r)
               /\ UNCHANGED <<email, session, answered>>
            \/ /\ c.intent = "sign-up"
               /\ Done(r)
               /\ UNCHANGED <<email, session, code, answered>>
            \/ /\ UsedCode(x)
               /\ answered' = answered \union {<<c.id, x>>}
               /\ IF c.intent = "sign-in"
                  THEN Goto(r, "login") /\ UNCHANGED <<email, session>>
                  ELSE CreateOtpAccount(r, x, c.id)
  /\ UNCHANGED <<change, jar, issued>>

\* Mutant: the account is the one that was looked up with the code.
LoginToAnyone(r) ==
  /\ req[r].pc = "login"
  /\ \E a \in Accounts : email[a] # NoAddress /\ CreateSession(r, a, req[r].id)
  /\ UNCHANGED <<accountVars, jar>>

\* loginWithVerifiedEmail, a transaction after the one that consumed the code.
Login(r) ==
  /\ req[r].pc = "login"
  /\ \/ \E a \in HolderOf(req[r].address) : CreateSession(r, a, req[r].id)
     \/ HolderOf(req[r].address) = {} /\ Done(r) /\ UNCHANGED session
  /\ UNCHANGED <<accountVars, jar>>

-----------------------------------------------------------------------------
(* The change of an address: POST /api/account/email-change/request, /verify *)

\* Mutant: a request that replaces another keeps what was verified.
BeginWithOldProofs(a, x) ==
  [id |-> issued + 1, from |-> email[a], to |-> x, attempts |-> NoChange.attempts,
   verified |-> change[a].verified]

NewChange(a, x) ==
  [id |-> issued + 1, from |-> email[a], to |-> x, attempts |-> NoChange.attempts,
   verified |-> {}]

\* begin: one request of an account at a time, the new one replaces the old.  It is
\* refused for the address the account has, and when there were too many.
BeginChange(r, x) ==
  LET a == Owner(req[r].token) IN
  /\ req[r].pc = "route"
  /\ \/ /\ x # email[a] /\ issued < MaxIssued
        /\ change' = [change EXCEPT ![a] = NewChange(a, x)]
        /\ issued' = issued + 1
     \/ UNCHANGED <<change, issued>>
  /\ Done(r)
  /\ UNCHANGED <<email, session, code, jar, answered>>

\* cancel, when a code could not be sent, or ten minutes.
LoseChange(a) ==
  /\ change[a].id # 0
  /\ change' = [change EXCEPT ![a] = NoChange]
  /\ UNCHANGED <<email, session, code, jar, req, issued, answered>>

DropChange(a) == change' = [change EXCEPT ![a] = NoChange]

\* Mutant: the address is not looked for among the accounts.
ChangeAnyway(a, x) == TRUE

\* No other account has the address; the unique index says so at the update too.
Available(a, x) == HolderOf(x) \subseteq {a}

\* The right code for one side.  The second one completes the change.
AcceptSide(r, a, side) ==
  LET c == change[a] IN
  /\ answered' = answered \union {<<c.id, IF side = "current" THEN c.from ELSE c.to>>}
  /\ IF Sides \ c.verified # {side}
     THEN /\ change' = [change EXCEPT ![a].verified = @ \union {side}]
          /\ Done(r) /\ UNCHANGED email
     ELSE /\ DropChange(a)
          /\ IF Available(a, c.to)
             THEN email' = [email EXCEPT ![a] = c.to] /\ req' = [req EXCEPT ![r].pc = "revoke"]
             ELSE Done(r) /\ UNCHANGED email

\* A wrong code for one side; the last one drops the request.
RejectSide(r, a, side) ==
  /\ IF LastAttempt(change[a].attempts[side]) THEN DropChange(a)
     ELSE change' = [change EXCEPT ![a].attempts[side] = @ + 1]
  /\ Done(r) /\ UNCHANGED <<email, answered>>

\* verify, under the locks of the account and of its request.
Confirm(r) ==
  LET a == Owner(req[r].token)
      c == change[a]
  IN
  /\ req[r].pc = "route"
  /\ \/ /\ c.id = 0
        /\ Done(r) /\ UNCHANGED <<email, change, answered>>
     \/ /\ c.id # 0 /\ email[a] # c.from
        /\ DropChange(a) /\ Done(r) /\ UNCHANGED <<email, answered>>
     \/ /\ c.id # 0 /\ email[a] = c.from
        /\ \E side \in Sides \ c.verified : AcceptSide(r, a, side) \/ RejectSide(r, a, side)
  /\ UNCHANGED <<session, code, jar, issued>>

\* The address is changed: revokeOtherSessions with the token of the request.
EndOthers(r) ==
  /\ req[r].pc = "revoke"
  /\ RevokeOthers(req[r].token)
  /\ Done(r)
  /\ UNCHANGED <<accountVars, jar>>

-----------------------------------------------------------------------------
Next ==
  \/ \E r \in Requests :
       \/ \E b \in Browsers :
            \/ StartRefresh(r, b) \/ StartSignOut(r, b) \/ StartRoute(r, b)
            \/ \E x \in Addresses : StartSignIn(r, b, x)
       \/ Refresh(r) \/ SignOut(r) \/ ConsumeCode(r) \/ Login(r)
       \/ RevokeSession(r) \/ RevokeOtherSessions(r)
       \/ \E x \in Addresses : BeginChange(r, x)
       \/ Confirm(r) \/ EndOthers(r) \/ Reply(r) \/ Drop(r)
  \/ \E s \in Sessions : ExpireAccess(s) \/ ExpireSession(s)
  \/ \E x \in Addresses :
       \/ \E i \in {"sign-in", "sign-up"} : IssueCode(x, i)
       \/ LoseCode(x)
  \/ \E a \in Accounts : LoseChange(a)

Spec == Init /\ [][Next]_vars

-----------------------------------------------------------------------------
(* What the routes keep, whatever other requests do between their steps *)

\* Two accounts never share an address, also when one signs up with an address
\* while another is changing to it.
OneAccountPerAddress == OneAddressEach(email)

\* A code opens at most one session, however many requests give it at once.
OneSessionPerCode ==
  \A s, t \in Sessions : session[s].code = session[t].code /\ session[s].code # 0 => s = t

\* Who is told to be signed out is: the session is over, also when another tab
\* had just rotated its tokens.
SignedOutIsOver ==
  \A r \in Requests : req[r].pc = "signedOut" => ~Live(req[r].token.session)

\* A sign-in opens a session of the account that has the address now, not of one
\* that had it when the code was sent or checked; and the code of that address
\* was given.
SignInOpensHolder ==
  [][\A s \in Sessions :
       ~(session[s].state = "unused" /\ session'[s].state # "unused") \/
       \E x \in Addresses :
         /\ email'[session'[s].owner] = x
         /\ <<session'[s].code, x>> \in answered']_vars

\* The address of an account changes only when one and the same request was
\* confirmed with the codes sent to the old and to the new address.
ChangeProvesBoth ==
  [][\A a \in Accounts :
       email[a] # NoAddress /\ email'[a] # email[a] =>
         \E i \in Ids : {<<i, email[a]>>, <<i, email'[a]>>} \subseteq answered']_vars

\* A revoked or expired session stays so: none of its tokens opens it again or
\* is rotated, though requests that carry them are on their way.
OverStaysOver ==
  [][\A s \in Sessions :
       session[s].state = "over" => session'[s] = session[s]]_vars

\* "The address that owns the account changed; end every other session and keep
\* the one that completed the change." (apps/api/src/app.ts:1257)
ChangeEndsOthers ==
  [][\A r \in Requests :
       req[r].pc = "revoke" /\ EndOthers(r) =>
         \A s \in Others(req[r].token) : session'[s].state # "live"]_vars
=============================================================================
