--------------------------- MODULE AccountsProofs ---------------------------
(***************************************************************************)
(* Theorems about Accounts, for any number of accounts, addresses,         *)
(* sessions, browsers and requests in progress.                            *)
(***************************************************************************)
EXTENDS Accounts, TLAPS

\* A cookie names a session that was opened.
Known(f, t) == t = NoToken \/ (t.session \in Sessions /\ f[t.session].state # "unused")

\* What a request carries is enough for the steps it has left.
Sound(f, q) ==
  /\ Known(f, q.token)
  /\ q.pc \in {"refresh", "signOut", "signedOut", "revoke", "route"} =>
       q.token.session \in Sessions
  /\ q.pc \in {"consume", "login"} => q.address \in Addresses /\ q.id \in Ids

\* The owner of an opened session has an account, and an account an address.
Owned(e, v) == v.state # "unused" => v.owner \in Accounts /\ e[v.owner] \in Addresses

Held ==
  /\ \A s \in Sessions : Owned(email, session[s])
  /\ \A b \in Browsers : Known(session, jar[b])
  /\ \A r \in Requests : Sound(session, req[r])
  /\ \A a \in Accounts :
       change[a].id # 0 => change[a].from \in Addresses /\ change[a].to \in Addresses

TypeInv == AccountsTypeOK /\ Held

-----------------------------------------------------------------------------
(* The codes *)

\* The number of a code is used once: it is that of a challenge, or of a request
\* that was let in, or of a session.
CodeInv ==
  /\ \A x \in Addresses : code[x].id <= issued
  /\ \A x, y \in Addresses : code[x].id = code[y].id /\ code[x].id # 0 => x = y
  /\ \A r \in Requests : req[r].pc = "login" =>
       req[r].id <= issued /\ \A x \in Addresses : code[x].id # req[r].id
  /\ \A r, q \in Requests :
       req[r].pc = "login" /\ req[q].pc = "login" /\ req[r].id = req[q].id => r = q
  /\ \A s \in Sessions :
       /\ session[s].code <= issued
       /\ session[s].code # 0 => \A x \in Addresses : code[x].id # session[s].code
       /\ \A r \in Requests : req[r].pc = "login" => req[r].id # session[s].code

\* Who was let in gave the code of the address.
LoginInv ==
  \A r \in Requests : req[r].pc = "login" => <<req[r].id, req[r].address>> \in answered

\* A side is verified by its code.
VerifiedInv ==
  \A a \in Accounts : LET c == change[a] IN
    /\ "current" \in c.verified => <<c.id, c.from>> \in answered
    /\ "new" \in c.verified => <<c.id, c.to>> \in answered
    /\ c.verified # {} => c.id # 0

Inv == TypeInv /\ CodeInv /\ LoginInv /\ VerifiedInv /\ OneAccountPerAddress
       /\ OneSessionPerCode /\ SignedOutIsOver

-----------------------------------------------------------------------------
(* What a step does to the sessions *)

Kept(s) ==
  \/ session'[s] = session[s]
  \/ /\ Live(s) /\ session'[s].state \in {"live", "over"}
     /\ session'[s].owner = session[s].owner /\ session'[s].code = session[s].code

NoneOpened == session' \in [Sessions -> Session] /\ \A s \in Sessions : Kept(s)

OneOpened(s, a, i) ==
  /\ session' \in [Sessions -> Session]
  /\ session[s].state = "unused"
  /\ session'[s].state = "live" /\ session'[s].owner = a /\ session'[s].code = i
  /\ \A z \in Sessions \ {s} : Kept(z)

\* What revoking the sessions of S does to one of them.
LEMMA RevokedRow ==
  ASSUME NEW s \in Sessions, session[s] \in Session, NEW S,
         session'[s] = IF s \in S /\ Live(s)
                       THEN [session[s] EXCEPT !.state = "over", !.fresh = FALSE] ELSE session[s]
  PROVE  session'[s] \in Session /\ Kept(s) /\ (s \in S => session'[s].state # "live")
<1>1. CASE s \in S /\ Live(s)
  <2>1. session'[s] = [session[s] EXCEPT !.state = "over", !.fresh = FALSE]
    BY <1>1
  <2>2. session'[s] \in Session
    BY <2>1 DEF Session
  <2>3. /\ session'[s].state = "over"
        /\ session'[s].owner = session[s].owner /\ session'[s].code = session[s].code
    BY <2>1 DEF Session
  <2>. QED
    BY <1>1, <2>2, <2>3 DEF Kept
<1>2. CASE ~(s \in S /\ Live(s))
  BY <1>2 DEF Live, Kept
<1>. QED
  BY <1>1, <1>2

LEMMA RevokedKeeps ==
  ASSUME session \in [Sessions -> Session], NEW S, session' = Revoked(S)
  PROVE  NoneOpened /\ \A s \in Sessions : s \in S => session'[s].state # "live"
<1>1. ASSUME NEW s \in Sessions
      PROVE  /\ session'[s] \in Session /\ Kept(s)
             /\ s \in S => session'[s].state # "live"
  <2>1. session[s] \in Session
    OBVIOUS
  <2>2. session'[s] = IF s \in S /\ Live(s)
                      THEN [session[s] EXCEPT !.state = "over", !.fresh = FALSE]
                      ELSE session[s]
    BY DEF Revoked
  <2>. QED
    BY <2>1, <2>2, RevokedRow
<1>2. session' = [s \in Sessions |-> session'[s]]
  BY DEF Revoked
<1>. QED
  BY <1>1, <1>2 DEF NoneOpened

LEMMA SameSessions ==
  ASSUME session \in [Sessions -> Session], session' = session
  PROVE  NoneOpened
BY DEF NoneOpened, Kept

\* One record of session changes, and it was live.
LEMMA OneKept ==
  ASSUME session \in [Sessions -> Session], NEW s \in Sessions, Live(s), NEW v \in Session,
         session' = [session EXCEPT ![s] = v], v.state = "live",
         v.owner = session[s].owner, v.code = session[s].code
  PROVE  NoneOpened
BY DEF NoneOpened, Kept

LEMMA CreateSessionOpens ==
  ASSUME session \in [Sessions -> Session], NEW r \in Requests, NEW a \in Accounts, NEW i \in Ids,
         CreateSession(r, a, i)
  PROVE  \E s \in Sessions :
           /\ OneOpened(s, a, i)
           /\ req' = [req EXCEPT ![r] =
                        [Idle EXCEPT !.pc = "granted", !.browser = req[r].browser,
                                     !.token = [session |-> s, gen |-> 0]]]
<1>1. PICK s \in Sessions :
        /\ session[s].state = "unused"
        /\ session' = [Revoked(Seen(req[r].token)) EXCEPT ![s] =
                         [state |-> "live", owner |-> a, gen |-> 0, fresh |-> TRUE, code |-> i]]
        /\ Grant(r, [session |-> s, gen |-> 0])
  BY DEF CreateSession
<1>. DEFINE S == Seen(req[r].token)
            n == [state |-> "live", owner |-> a, gen |-> 0, fresh |-> TRUE, code |-> i]
<1>2. n \in Session
  BY BoundsAssumption DEF Session
<1>3. session'[s] = n
  BY <1>1 DEF Revoked
<1>. HIDE DEF S
<1>4. ASSUME NEW z \in Sessions \ {s} PROVE session'[z] \in Session /\ Kept(z)
  <2>1. session[z] \in Session
    OBVIOUS
  <2>2. session'[z] = IF z \in S /\ Live(z)
                      THEN [session[z] EXCEPT !.state = "over", !.fresh = FALSE]
                      ELSE session[z]
    BY <1>1 DEF Revoked, S
  <2>. QED
    BY <2>1, <2>2, RevokedRow
<1>5. session' = [z \in Sessions |-> session'[z]]
  BY <1>1 DEF Revoked
<1>6. session' \in [Sessions -> Session]
  BY <1>2, <1>3, <1>4, <1>5
<1>7. OneOpened(s, a, i)
  BY <1>1, <1>3, <1>4, <1>6 DEF OneOpened
<1>. QED
  BY <1>1, <1>7 DEF Grant

\* A session once opened is never unused again.
LEMMA StaysKnown ==
  ASSUME session \in [Sessions -> Session],
         NoneOpened \/ \E s \in Sessions, a \in Accounts, i \in Ids : OneOpened(s, a, i),
         NEW t, Known(session, t)
  PROVE  Known(session', t)
BY DEF NoneOpened, OneOpened, Kept, Known, Live

-----------------------------------------------------------------------------
(* Types *)

SessionsMoved ==
  NoneOpened \/ \E s \in Sessions, a \in Accounts, i \in Ids : OneOpened(s, a, i)

\* The requests after a step that set that of r to q.
LEMMA SetRequest ==
  ASSUME TypeInv, SessionsMoved, NEW r \in Requests, NEW q \in Request, Sound(session', q),
         req' = [req EXCEPT ![r] = q]
  PROVE  req' \in [Requests -> Request] /\ \A p \in Requests : Sound(session', req'[p])
<1>0. session \in [Sessions -> Session] /\ req \in [Requests -> Request]
      /\ \A p \in Requests : Sound(session, req[p])
  BY DEF TypeInv, AccountsTypeOK, Held
<1>1. req' \in [Requests -> Request]
  BY <1>0
<1>2. ASSUME NEW p \in Requests, p # r PROVE Sound(session', req'[p])
  <2>1. req'[p] = req[p] /\ Sound(session, req[p])
    BY <1>0, <1>2
  <2>2. Known(session', req[p].token)
    BY <1>0, <2>1, StaysKnown DEF SessionsMoved, Sound
  <2>. QED
    BY <2>1, <2>2 DEF Sound
<1>3. Sound(session', req'[r])
  BY <1>0
<1>. QED
  BY <1>1, <1>2, <1>3

LEMMA SameRequests ==
  ASSUME TypeInv, SessionsMoved, req' = req
  PROVE  req' \in [Requests -> Request] /\ \A p \in Requests : Sound(session', req'[p])
<1>0. session \in [Sessions -> Session] /\ req \in [Requests -> Request]
      /\ \A p \in Requests : Sound(session, req[p])
  BY DEF TypeInv, AccountsTypeOK, Held
<1>1. ASSUME NEW p \in Requests PROVE Sound(session', req[p])
  <2>1. Known(session', req[p].token)
    BY <1>0, StaysKnown DEF SessionsMoved, Sound
  <2>. QED
    BY <1>0, <2>1 DEF Sound
<1>. QED
  BY <1>0, <1>1

\* A request that is over, or whose reply is on its way.
LEMMA IdleIsSound == Idle \in Request /\ \A f : Sound(f, Idle)
<1>1. NoToken \in Token
  BY BoundsAssumption DEF NoToken, Token
<1>2. Idle \in Request
  BY <1>1 DEF Idle, Request
<1>3. \A f : Sound(f, Idle)
  BY DEF Idle, Sound, Known
<1>. QED
  BY <1>2, <1>3

LEMMA GrantIsSound ==
  ASSUME TypeInv, NEW r \in Requests, NEW t \in Token, NEW f, Known(f, t)
  PROVE  LET q == [Idle EXCEPT !.pc = "granted", !.browser = req[r].browser, !.token = t]
         IN  q \in Request /\ Sound(f, q)
<1>. DEFINE q == [Idle EXCEPT !.pc = "granted", !.browser = req[r].browser, !.token = t]
<1>1. req[r].browser \in Browsers \union {NoBrowser}
  BY DEF TypeInv, AccountsTypeOK, Request
<1>2. Idle \in Request
  BY IdleIsSound
<1>3. q \in Request /\ q.pc = "granted" /\ q.token = t
  BY <1>1, <1>2 DEF Request
<1>. QED
  BY <1>3 DEF Sound

\* The cookies after a step that set those of b to t.
LEMMA SetJar ==
  ASSUME TypeInv, SessionsMoved, NEW b, NEW t \in Token, Known(session', t),
         jar' = [jar EXCEPT ![b] = t]
  PROVE  jar' \in [Browsers -> Token] /\ \A d \in Browsers : Known(session', jar'[d])
<1>0. session \in [Sessions -> Session] /\ jar \in [Browsers -> Token]
      /\ \A d \in Browsers : Known(session, jar[d])
  BY DEF TypeInv, AccountsTypeOK, Held
<1>1. jar' \in [Browsers -> Token]
  BY <1>0
<1>2. ASSUME NEW d \in Browsers PROVE Known(session', jar'[d])
  <2>1. Known(session', jar[d])
    BY <1>0, StaysKnown DEF SessionsMoved
  <2>. QED
    BY <1>0, <2>1
<1>. QED
  BY <1>1, <1>2

LEMMA SameJars ==
  ASSUME TypeInv, SessionsMoved, jar' = jar
  PROVE  jar' \in [Browsers -> Token] /\ \A d \in Browsers : Known(session', jar'[d])
<1>0. session \in [Sessions -> Session] /\ jar \in [Browsers -> Token]
      /\ \A d \in Browsers : Known(session, jar[d])
  BY DEF TypeInv, AccountsTypeOK, Held
<1>1. ASSUME NEW d \in Browsers PROVE Known(session', jar[d])
  BY <1>0, StaysKnown DEF SessionsMoved
<1>. QED
  BY <1>0, <1>1

\* The accounts of the opened sessions stay.
LEMMA OwnersStay ==
  ASSUME TypeInv, NEW s \in Sessions, Kept(s),
         \A a \in Accounts : email[a] \in Addresses => email'[a] \in Addresses
  PROVE  Owned(email', session'[s])
<1>1. session[s] \in Session /\ Owned(email, session[s])
  BY DEF TypeInv, AccountsTypeOK, Held
<1>. QED
  BY <1>1 DEF Kept, Owned, Live

\* A step that opens no session and changes no account.
LEMMA SessionStepType ==
  ASSUME TypeInv, UNCHANGED accountVars, NoneOpened,
         jar' \in [Browsers -> Token], \A d \in Browsers : Known(session', jar'[d]),
         req' \in [Requests -> Request], \A p \in Requests : Sound(session', req'[p])
  PROVE  TypeInv'
<1>1. \A s \in Sessions : Owned(email', session'[s])
  BY OwnersStay DEF accountVars, NoneOpened
<1>. QED
  BY <1>1 DEF TypeInv, AccountsTypeOK, Held, accountVars, NoneOpened

LEMMA InitType == Init => TypeInv
<1>. SUFFICES ASSUME Init PROVE TypeInv
  OBVIOUS
<1>0. 0 \in 0..MaxGen /\ 0 \in 0..MaxIssued /\ 0 \in 0..(Attempts - 1)
  BY BoundsAssumption
<1>1. email \in [Accounts -> Addresses \union {NoAddress}]
  BY DEF Init
<1>2. ASSUME NEW s \in Sessions
      PROVE  /\ session[s] \in Session /\ Owned(email, session[s])
             /\ session[s] # Unused => session[s].state # "unused"
  <2>1. CASE session[s] = Unused
    BY <2>1, <1>0 DEF Unused, Session, Owned
  <2>2. CASE \E a \in Accounts : email[a] # NoAddress /\ session[s] = Opened(a)
    BY <2>2, <1>0, <1>1 DEF Opened, Session, Owned
  <2>. QED
    BY <2>1, <2>2 DEF Init
<1>3. session \in [Sessions -> Session]
  BY <1>2 DEF Init
<1>4. ASSUME NEW b \in Browsers PROVE jar[b] \in Token /\ Known(session, jar[b])
  <2>1. jar[b] \in {NoToken} \union [session : {s \in Sessions : session[s] # Unused}, gen : {0}]
    BY DEF Init
  <2>2. CASE jar[b] = NoToken
    BY <2>2, <1>0 DEF NoToken, Token, Known
  <2>3. CASE jar[b] \in [session : {s \in Sessions : session[s] # Unused}, gen : {0}]
    BY <2>3, <1>0, <1>2 DEF Token, Known
  <2>. QED
    BY <2>1, <2>2, <2>3
<1>5. jar \in [Browsers -> Token]
  BY <1>4 DEF Init
<1>6. code \in [Addresses -> Challenge]
  BY <1>0 DEF Init, NoChallenge, Challenge
<1>7. change \in [Accounts -> ChangeRequest]
  BY <1>0 DEF Init, NoChange, ChangeRequest
<1>8. req \in [Requests -> Request] /\ \A r \in Requests : Sound(session, req[r])
  BY IdleIsSound DEF Init
<1>9. issued \in 0..MaxIssued /\ answered \subseteq Ids \X Addresses
  BY <1>0 DEF Init
<1>10. \A a \in Accounts : change[a].id = 0
  BY DEF Init, NoChange
<1>. QED
  BY <1>1, <1>2, <1>3, <1>4, <1>5, <1>6, <1>7, <1>8, <1>9, <1>10
  DEF TypeInv, AccountsTypeOK, Held

-----------------------------------------------------------------------------
(* Steps that open no session *)

LEMMA TypeFacts ==
  ASSUME TypeInv
  PROVE  /\ email \in [Accounts -> Addresses \union {NoAddress}]
         /\ session \in [Sessions -> Session] /\ code \in [Addresses -> Challenge]
         /\ change \in [Accounts -> ChangeRequest] /\ jar \in [Browsers -> Token]
         /\ req \in [Requests -> Request] /\ issued \in 0..MaxIssued
         /\ answered \subseteq Ids \X Addresses
         /\ \A b \in Browsers : Known(session, jar[b])
         /\ \A r \in Requests : Sound(session, req[r])
BY DEF TypeInv, AccountsTypeOK, Held

LEMMA StartType ==
  ASSUME TypeInv, NEW r \in Requests, NEW b \in Browsers,
         NEW pc \in {"refresh", "signOut", "route"}, Starts(r, b, pc), jar[b] # NoToken,
         UNCHANGED <<accountVars, session, jar>>
  PROVE  TypeInv' /\ NoneOpened
<1>1. NoneOpened
  BY TypeFacts, SameSessions
<1>2. jar[b] \in Token /\ Known(session, jar[b]) /\ jar[b].session \in Sessions
  BY TypeFacts DEF Known
<1>. DEFINE q == [Idle EXCEPT !.pc = pc, !.browser = b, !.token = jar[b]]
<1>3. q \in Request /\ q.pc = pc /\ q.token = jar[b]
  <2>1. Idle \in Request
    BY IdleIsSound
  <2>. QED
    BY <2>1, <1>2 DEF Request
<1>4. Sound(session', q)
  BY <1>2, <1>3 DEF Sound
<1>5. req' = [req EXCEPT ![r] = q]
  BY DEF Starts
<1>. HIDE DEF q
<1>. QED
  BY <1>1, <1>3, <1>4, <1>5, SetRequest, SameJars, SessionStepType DEF SessionsMoved

LEMMA RefreshType ==
  ASSUME TypeInv, NEW r \in Requests, Refresh(r)
  PROVE  TypeInv' /\ NoneOpened
<1>. DEFINE t == req[r].token
<1>0. /\ req[r].pc = "refresh" /\ t.session \in Sessions /\ t \in Token
      /\ session[t.session] \in Session /\ session[t.session].state # "unused"
      /\ UNCHANGED accountVars /\ jar' = jar
  <2>1. req[r] \in Request /\ Sound(session, req[r]) /\ req[r].pc = "refresh"
    BY TypeFacts DEF Refresh
  <2>2. t.session \in Sessions /\ t \in Token
    BY <2>1 DEF Sound, Request
  <2>3. session[t.session].state # "unused"
    BY <2>1, <2>2, NullsAssumption DEF Sound, Known, NoToken
  <2>. QED
    BY <2>1, <2>2, <2>3, TypeFacts DEF Refresh
<1>1. ASSUME NEW u \in Token, NoneOpened, Known(session', u), Grant(r, u)
      PROVE  TypeInv'
  <2>. DEFINE q == [Idle EXCEPT !.pc = "granted", !.browser = req[r].browser, !.token = u]
  <2>1. q \in Request /\ Sound(session', q)
    BY <1>1, GrantIsSound
  <2>2. req' = [req EXCEPT ![r] = q]
    BY <1>1 DEF Grant
  <2>. HIDE DEF q
  <2>. QED
    BY <1>0, <1>1, <2>1, <2>2, SetRequest, SameJars, SessionStepType DEF SessionsMoved
<1>2. NoToken \in Token /\ \A f : Known(f, NoToken)
  BY BoundsAssumption DEF NoToken, Token, Known
<1>3. CASE session' = Revoked({t.session}) /\ Grant(r, NoToken)
  BY <1>1, <1>2, <1>3, TypeFacts, RevokedKeeps
<1>4. CASE /\ t.gen = session[t.session].gen /\ Refreshable(t) /\ t.gen < MaxGen
           /\ session' = [session EXCEPT ![t.session] = [@ EXCEPT !.gen = t.gen + 1,
                                                                  !.fresh = TRUE]]
           /\ Grant(r, [session |-> t.session, gen |-> t.gen + 1])
  <2>. DEFINE v == [session[t.session] EXCEPT !.gen = t.gen + 1, !.fresh = TRUE]
              u == [session |-> t.session, gen |-> t.gen + 1]
  <2>1. t.gen + 1 \in 0..MaxGen
    BY <1>0, <1>4, BoundsAssumption DEF Token
  <2>2. /\ v \in Session /\ v.state = session[t.session].state
        /\ v.owner = session[t.session].owner /\ v.code = session[t.session].code
    BY <1>0, <2>1 DEF Session
  <2>3. session' = [session EXCEPT ![t.session] = v]
    BY <1>4
  <2>. HIDE DEF v
  <2>4. NoneOpened
    <3>1. Live(t.session) /\ v.state = "live"
      BY <1>4, <2>2 DEF Refreshable, Live
    <3>. HIDE DEF t
    <3>. QED
      BY <1>0, <2>2, <2>3, <3>1, TypeFacts, OneKept
  <2>5. u \in Token
    BY <1>0, <2>1 DEF Token
  <2>6. session'[t.session] = v
    BY <1>0, <2>3, TypeFacts
  <2>7. Known(session', u)
    BY <1>0, <2>2, <2>6 DEF Known
  <2>. QED
    BY <1>1, <1>4, <2>4, <2>5, <2>7
<1>5. CASE Grant(r, NoToken) /\ UNCHANGED session
  BY <1>1, <1>2, <1>5, TypeFacts, SameSessions
<1>. QED
  BY <1>3, <1>4, <1>5 DEF Refresh

\* A request that ends.
LEMMA DoneType ==
  ASSUME TypeInv, UNCHANGED accountVars, NoneOpened, NEW r \in Requests, Done(r),
         jar' \in [Browsers -> Token], \A d \in Browsers : Known(session', jar'[d])
  PROVE  TypeInv'
<1>1. Idle \in Request /\ Sound(session', Idle)
  BY IdleIsSound
<1>2. req' = [req EXCEPT ![r] = Idle]
  BY DEF Done
<1>. QED
  BY <1>1, <1>2, SetRequest, SessionStepType DEF SessionsMoved

\* Sessions are revoked, the one of the request among them, and its reply clears
\* the cookies.
LEMMA SignsOutType ==
  ASSUME TypeInv, NEW r \in Requests, req[r].pc \in {"signOut", "route"},
         NEW S, session' = Revoked(S), Goto(r, "signedOut"), UNCHANGED <<accountVars, jar>>
  PROVE  TypeInv' /\ NoneOpened
<1>0. NoneOpened
  BY TypeFacts, RevokedKeeps
<1>1. req[r] \in Request /\ Sound(session, req[r])
  BY TypeFacts
<1>. DEFINE q == [req[r] EXCEPT !.pc = "signedOut"]
<1>2. q \in Request /\ q.pc = "signedOut" /\ q.token = req[r].token
  BY <1>1 DEF Request
<1>3. Sound(session', q)
  BY <1>0, <1>1, <1>2, TypeFacts, StaysKnown DEF Sound
<1>4. req' = [req EXCEPT ![r] = q]
  BY DEF Goto
<1>. HIDE DEF q
<1>. QED
  BY <1>0, <1>2, <1>3, <1>4, SetRequest, SameJars, SessionStepType DEF SessionsMoved

LEMMA SignOutType ==
  ASSUME TypeInv, NEW r \in Requests, SignOut(r)
  PROVE  TypeInv' /\ NoneOpened
<1>1. CASE session' = Revoked(Family(req[r].token)) /\ Goto(r, "signedOut")
  BY <1>1, SignsOutType DEF SignOut
<1>2. CASE Done(r) /\ UNCHANGED session
  BY <1>2, TypeFacts, SameSessions, SameJars, DoneType DEF SignOut, SessionsMoved
<1>. QED
  BY <1>1, <1>2 DEF SignOut

LEMMA RevokeOthersType ==
  ASSUME TypeInv, NEW r \in Requests, RevokeOthers(req[r].token), Done(r),
         UNCHANGED <<accountVars, jar>>
  PROVE  TypeInv' /\ NoneOpened
<1>1. NoneOpened
  BY TypeFacts, RevokedKeeps, SameSessions DEF RevokeOthers
<1>. QED
  BY <1>1, SameJars, DoneType DEF SessionsMoved

LEMMA RevokeSessionType ==
  ASSUME TypeInv, NEW r \in Requests, RevokeSession(r)
  PROVE  TypeInv' /\ NoneOpened
<1>1. PICK s \in Sessions :
        \/ session' = Revoked({s}) /\ s = req[r].token.session /\ Goto(r, "signedOut")
        \/ session' = Revoked({s}) /\ Done(r)
        \/ Done(r) /\ UNCHANGED session
  BY DEF RevokeSession
<1>2. CASE session' = Revoked({s}) /\ Goto(r, "signedOut")
  BY <1>2, SignsOutType DEF RevokeSession
<1>3. CASE (session' = Revoked({s}) \/ UNCHANGED session) /\ Done(r)
  <2>1. NoneOpened
    BY <1>3, TypeFacts, RevokedKeeps, SameSessions
  <2>. QED
    BY <1>3, <2>1, SameJars, DoneType DEF RevokeSession, SessionsMoved
<1>. QED
  BY <1>1, <1>2, <1>3

LEMMA ReplyType ==
  ASSUME TypeInv, NEW r \in Requests, Reply(r)
  PROVE  TypeInv' /\ NoneOpened
<1>1. NoneOpened
  BY TypeFacts, SameSessions DEF Reply
<1>. DEFINE t == IF req[r].pc = "granted" THEN req[r].token ELSE NoToken
<1>2. req[r] \in Request /\ Known(session, req[r].token)
  BY TypeFacts DEF Sound
<1>3. t \in Token /\ Known(session', t)
  BY <1>2, BoundsAssumption DEF Reply, Request, NoToken, Token, Known
<1>4. jar' = [jar EXCEPT ![req[r].browser] = t]
  BY DEF Reply
<1>. HIDE DEF t
<1>. QED
  BY <1>1, <1>3, <1>4, SetJar, DoneType DEF Reply, SessionsMoved

LEMMA DropType ==
  ASSUME TypeInv, NEW r \in Requests, Drop(r)
  PROVE  TypeInv' /\ NoneOpened
BY TypeFacts, SameSessions, SameJars, DoneType DEF Drop, SessionsMoved

LEMMA EndSessionsType ==
  ASSUME TypeInv, NEW S, session' = Revoked(S), UNCHANGED <<accountVars, jar, req>>
  PROVE  TypeInv' /\ NoneOpened
BY TypeFacts, RevokedKeeps, SameJars, SameRequests, SessionStepType DEF SessionsMoved

LEMMA ExpireAccessType ==
  ASSUME TypeInv, NEW s \in Sessions, ExpireAccess(s)
  PROVE  TypeInv' /\ NoneOpened
<1>. DEFINE v == [session[s] EXCEPT !.fresh = FALSE]
<1>1. /\ v \in Session /\ v.state = session[s].state /\ v.owner = session[s].owner
      /\ v.code = session[s].code
  BY TypeFacts DEF Session
<1>2. session' = [session EXCEPT ![s] = v]
  BY DEF ExpireAccess
<1>. HIDE DEF v
<1>3. NoneOpened
  BY <1>1, <1>2, TypeFacts, OneKept DEF ExpireAccess, Live
<1>. QED
  BY <1>3, SameJars, SameRequests, SessionStepType DEF ExpireAccess, SessionsMoved

-----------------------------------------------------------------------------
(* Steps that leave the accounts' sessions and addresses alone *)

LEMMA StartSignInType ==
  ASSUME TypeInv, NEW r \in Requests, NEW b \in Browsers, NEW x \in Addresses,
         StartSignIn(r, b, x)
  PROVE  TypeInv' /\ NoneOpened
<1>0. NoToken \in Token /\ \A f : Known(f, NoToken)
  BY BoundsAssumption DEF NoToken, Token, Known
<1>1. NoneOpened
  BY TypeFacts, RevokedKeeps, SameSessions DEF StartSignIn
<1>2. jar' \in [Browsers -> Token] /\ \A d \in Browsers : Known(session', jar'[d])
  BY <1>0, <1>1, SetJar, SameJars DEF StartSignIn, SessionsMoved
<1>. DEFINE q == [pc |-> "consume", browser |-> b, token |-> jar'[b], address |-> x,
                  id |-> code[x].id]
<1>3. code[x].id \in Ids
  BY TypeFacts DEF Challenge, StartSignIn
<1>4. q \in Request /\ Sound(session', q)
  BY <1>2, <1>3 DEF Request, Sound
<1>5. req' = [req EXCEPT ![r] = q]
  BY DEF StartSignIn
<1>. HIDE DEF q
<1>. QED
  BY <1>1, <1>2, <1>4, <1>5, SetRequest, SessionStepType DEF StartSignIn, SessionsMoved

\* A step of codes or of requests to change an address.
LEMMA CodeStepType ==
  ASSUME TypeInv, UNCHANGED <<email, session, jar, req, answered>>,
         code' \in [Addresses -> Challenge], issued' \in 0..MaxIssued,
         change' \in [Accounts -> ChangeRequest],
         \A a \in Accounts : change'[a].id # 0 =>
           change'[a].from \in Addresses /\ change'[a].to \in Addresses
  PROVE  TypeInv' /\ NoneOpened
<1>1. NoneOpened
  BY TypeFacts, SameSessions
<1>. QED
  BY <1>1 DEF TypeInv, AccountsTypeOK, Held

LEMMA NoneIsTyped == NoChallenge \in Challenge /\ NoChange \in ChangeRequest
BY BoundsAssumption DEF NoChallenge, Challenge, NoChange, ChangeRequest

LEMMA IssueCodeType ==
  ASSUME TypeInv, NEW x \in Addresses, NEW intent \in {"sign-in", "sign-up"},
         IssueCode(x, intent)
  PROVE  TypeInv' /\ NoneOpened
<1>1. issued' \in Ids /\ issued' = issued + 1
  BY TypeFacts, BoundsAssumption DEF IssueCode, Ids
<1>2. [id |-> issued + 1, intent |-> intent, attempts |-> 0] \in Challenge
  BY <1>1, BoundsAssumption DEF Challenge
<1>3. code' \in [Addresses -> Challenge]
  BY <1>2, TypeFacts DEF IssueCode
<1>4. issued' \in 0..MaxIssued
  BY <1>1, BoundsAssumption DEF Ids
<1>. QED
  BY <1>3, <1>4, CodeStepType, TypeFacts DEF IssueCode, TypeInv, Held

LEMMA LoseCodeType ==
  ASSUME TypeInv, NEW x \in Addresses, LoseCode(x)
  PROVE  TypeInv' /\ NoneOpened
<1>1. code' \in [Addresses -> Challenge]
  BY NoneIsTyped, TypeFacts DEF LoseCode
<1>. QED
  BY <1>1, CodeStepType, TypeFacts DEF LoseCode, TypeInv, Held

\* What the request to change an address does to that of its account.
LEMMA BeginChangeCases ==
  ASSUME TypeInv, NEW r \in Requests, NEW x \in Addresses, BeginChange(r, x)
  PROVE  /\ Owner(req[r].token) \in Accounts /\ email[Owner(req[r].token)] \in Addresses
         /\ UNCHANGED <<email, session, code, jar, answered>> /\ Done(r)
         /\ \/ /\ change' = [change EXCEPT ![Owner(req[r].token)] =
                              NewChange(Owner(req[r].token), x)]
               /\ issued < MaxIssued /\ issued' = issued + 1
            \/ UNCHANGED <<change, issued>>
<1>1. req[r].token.session \in Sessions /\ session[req[r].token.session].state # "unused"
  <2>1. Sound(session, req[r])
    BY TypeFacts
  <2>2. req[r].pc = "route"
    BY DEF BeginChange
  <2>. QED
    BY <2>1, <2>2, NullsAssumption DEF Sound, Known, NoToken
<1>2. Owner(req[r].token) \in Accounts /\ email[Owner(req[r].token)] \in Addresses
  BY <1>1 DEF TypeInv, Held, Owned, Owner
<1>. QED
  BY <1>2 DEF BeginChange

LEMMA BeginChangeType ==
  ASSUME TypeInv, NEW r \in Requests, NEW x \in Addresses, BeginChange(r, x)
  PROVE  TypeInv' /\ NoneOpened
<1>. DEFINE a == Owner(req[r].token)
            c == NewChange(a, x)
<1>0. a \in Accounts /\ email[a] \in Addresses
  BY BeginChangeCases
<1>1. /\ change' \in [Accounts -> ChangeRequest]
      /\ \A o \in Accounts : change'[o].id # 0 =>
           change'[o].from \in Addresses /\ change'[o].to \in Addresses
      /\ issued' \in 0..MaxIssued
  <2>1. CASE /\ change' = [change EXCEPT ![a] = c]
             /\ issued < MaxIssued /\ issued' = issued + 1
    <3>1. issued' \in Ids /\ issued' \in 0..MaxIssued
      BY <2>1, TypeFacts, BoundsAssumption DEF Ids
    <3>2. NoChange.attempts \in [Sides -> 0..(Attempts - 1)]
      BY BoundsAssumption DEF NoChange
    <3>3. c \in ChangeRequest /\ c.from \in Addresses /\ c.to \in Addresses
      BY <1>0, <2>1, <3>1, <3>2 DEF NewChange, ChangeRequest
    <3>. HIDE DEF c, a
    <3>. QED
      BY <1>0, <2>1, <3>1, <3>3, TypeFacts DEF TypeInv, Held
  <2>2. CASE UNCHANGED <<change, issued>>
    BY <2>2, TypeFacts DEF TypeInv, Held
  <2>. QED
    BY <2>1, <2>2, BeginChangeCases
<1>2. UNCHANGED <<email, session, code, jar, answered>> /\ Done(r)
  BY BeginChangeCases
<1>3. NoneOpened
  BY <1>2, TypeFacts, SameSessions
<1>4. req' \in [Requests -> Request] /\ \A p \in Requests : Sound(session', req'[p])
  <2>1. SessionsMoved
    BY <1>3, TypeFacts DEF SessionsMoved
  <2>. QED
    BY <1>2, <2>1, IdleIsSound, SetRequest DEF Done
<1>. HIDE DEF a, c
<1>. QED
  BY <1>1, <1>2, <1>3, <1>4 DEF TypeInv, AccountsTypeOK, Held

\* The requests of the other accounts stay.
LEMMA SetChange ==
  ASSUME TypeInv, NEW a \in Accounts, NEW c \in ChangeRequest,
         c.id # 0 => c.from \in Addresses /\ c.to \in Addresses,
         change' = [change EXCEPT ![a] = c]
  PROVE  /\ change' \in [Accounts -> ChangeRequest]
         /\ \A o \in Accounts : change'[o].id # 0 =>
              change'[o].from \in Addresses /\ change'[o].to \in Addresses
BY TypeFacts DEF TypeInv, Held

LEMMA DropChangeType ==
  ASSUME TypeInv, NEW a \in Accounts, DropChange(a)
  PROVE  /\ change' \in [Accounts -> ChangeRequest]
         /\ \A o \in Accounts : change'[o].id # 0 =>
              change'[o].from \in Addresses /\ change'[o].to \in Addresses
<1>1. NoChange \in ChangeRequest /\ NoChange.id = 0
  BY NoneIsTyped DEF NoChange
<1>. QED
  BY <1>1, SetChange DEF DropChange

LEMMA LoseChangeType ==
  ASSUME TypeInv, NEW a \in Accounts, LoseChange(a)
  PROVE  TypeInv' /\ NoneOpened
<1>1. DropChange(a)
  BY DEF LoseChange, DropChange
<1>. QED
  BY <1>1, DropChangeType, CodeStepType, TypeFacts DEF LoseChange

-----------------------------------------------------------------------------
(* Steps that open a session, or change an address *)

\* createSession: the account it is for keeps its address, or has just got it.
LEMMA CreateSessionType ==
  ASSUME TypeInv, NEW r \in Requests, NEW a \in Accounts, NEW i \in Ids,
         CreateSession(r, a, i), jar' = jar,
         email' \in [Accounts -> Addresses \union {NoAddress}], email'[a] \in Addresses,
         \A o \in Accounts : email[o] \in Addresses => email'[o] \in Addresses
  PROVE  /\ session' \in [Sessions -> Session]
         /\ \A s \in Sessions : Owned(email', session'[s])
         /\ jar' \in [Browsers -> Token] /\ \A d \in Browsers : Known(session', jar'[d])
         /\ req' \in [Requests -> Request] /\ \A p \in Requests : Sound(session', req'[p])
<1>1. PICK s \in Sessions :
        /\ OneOpened(s, a, i)
        /\ req' = [req EXCEPT ![r] =
                    [Idle EXCEPT !.pc = "granted", !.browser = req[r].browser,
                                 !.token = [session |-> s, gen |-> 0]]]
  BY TypeFacts, CreateSessionOpens
<1>2. SessionsMoved
  BY <1>1 DEF SessionsMoved
<1>3. ASSUME NEW z \in Sessions PROVE Owned(email', session'[z])
  BY <1>1, OwnersStay DEF OneOpened, Owned
<1>. DEFINE t == [session |-> s, gen |-> 0]
            q == [Idle EXCEPT !.pc = "granted", !.browser = req[r].browser, !.token = t]
<1>4. t \in Token /\ Known(session', t)
  BY <1>1, BoundsAssumption DEF Token, Known, OneOpened
<1>5. q \in Request /\ Sound(session', q)
  BY <1>4, GrantIsSound
<1>6. req' = [req EXCEPT ![r] = q]
  BY <1>1
<1>. HIDE DEF q
<1>. QED
  BY <1>1, <1>2, <1>3, <1>5, <1>6, SameJars, SetRequest DEF OneOpened

LEMMA LoginType ==
  ASSUME TypeInv, NEW r \in Requests, Login(r)
  PROVE  TypeInv'
<1>0. req[r].address \in Addresses /\ req[r].id \in Ids
  BY TypeFacts DEF Login, Sound
<1>1. ASSUME NEW a \in HolderOf(req[r].address), CreateSession(r, a, req[r].id)
      PROVE  TypeInv'
  <2>1. a \in Accounts /\ email[a] \in Addresses
    BY <1>0 DEF HolderOf
  <2>2. /\ session' \in [Sessions -> Session]
        /\ \A s \in Sessions : Owned(email', session'[s])
        /\ jar' \in [Browsers -> Token] /\ \A d \in Browsers : Known(session', jar'[d])
        /\ req' \in [Requests -> Request] /\ \A p \in Requests : Sound(session', req'[p])
    BY <1>0, <1>1, <2>1, CreateSessionType, TypeFacts DEF Login, accountVars
  <2>. QED
    BY <2>2 DEF TypeInv, AccountsTypeOK, Held, Login, accountVars
<1>2. CASE Done(r) /\ UNCHANGED session
  BY <1>2, TypeFacts, SameSessions, SameJars, DoneType DEF Login, SessionsMoved
<1>. QED
  BY <1>1, <1>2 DEF Login

\* The request goes on, or ends, and no session moves.
LEMMA RequestGoesOn ==
  ASSUME TypeInv, NEW r \in Requests, UNCHANGED <<session, jar>>,
         \/ Done(r)
         \/ \E pc \in {"login", "revoke"} :
              /\ req' = [req EXCEPT ![r].pc = pc]
              /\ pc = "login" => req[r].pc = "consume"
              /\ pc = "revoke" => req[r].pc = "route"
  PROVE  req' \in [Requests -> Request] /\ \A p \in Requests : Sound(session', req'[p])
<1>0. SessionsMoved
  BY TypeFacts, SameSessions DEF SessionsMoved
<1>1. CASE Done(r)
  BY <1>0, <1>1, IdleIsSound, SetRequest DEF Done
<1>2. ASSUME NEW pc \in {"login", "revoke"}, req' = [req EXCEPT ![r].pc = pc],
             pc = "login" => req[r].pc = "consume", pc = "revoke" => req[r].pc = "route"
      PROVE  req' \in [Requests -> Request] /\ \A p \in Requests : Sound(session', req'[p])
  <2>. DEFINE q == [req[r] EXCEPT !.pc = pc]
  <2>1. req[r] \in Request /\ Sound(session', req[r])
    BY TypeFacts
  <2>2. /\ q \in Request /\ q.pc = pc /\ q.token = req[r].token
        /\ q.address = req[r].address /\ q.id = req[r].id
    BY <2>1 DEF Request
  <2>3. Sound(session', q)
    BY <1>2, <2>1, <2>2 DEF Sound
  <2>4. req' = [req EXCEPT ![r] = q]
    BY <1>2
  <2>. HIDE DEF q
  <2>. QED
    BY <1>0, <2>2, <2>3, <2>4, SetRequest
<1>. QED
  BY <1>1, <1>2

\* A code is accepted, or is wrong, or is not that of the request.
LEMMA ConsumeCodeCases ==
  ASSUME NEW r \in Requests, ConsumeCode(r)
  PROVE  LET x == req[r].address
             c == code[x]
         IN  \/ /\ Done(r) /\ UNCHANGED <<email, session, answered>>
                /\ \/ code' = code
                   \/ code' = [code EXCEPT ![x] = NoChallenge]
                   \/ ~LastAttempt(c.attempts) /\ code' = [code EXCEPT ![x].attempts = @ + 1]
             \/ /\ c.id = req[r].id /\ UsedCode(x)
                /\ answered' = answered \union {<<c.id, x>>}
                /\ \/ Goto(r, "login") /\ UNCHANGED <<email, session>>
                   \/ CreateOtpAccount(r, x, c.id)
BY DEF ConsumeCode

LEMMA OtpAccount ==
  ASSUME TypeInv, NEW r \in Requests, NEW x \in Addresses, NEW i, CreateOtpAccount(r, x, i)
  PROVE  \E a \in Accounts :
           /\ CreateSession(r, a, i) /\ email'[a] = x
           /\ \/ email' = email
              \/ email[a] = NoAddress /\ HolderOf(x) = {} /\ email' = [email EXCEPT ![a] = x]
BY TypeFacts DEF CreateOtpAccount, HolderOf

LEMMA ConsumeCodeType ==
  ASSUME TypeInv, NEW r \in Requests, ConsumeCode(r)
  PROVE  TypeInv'
<1>. DEFINE x == req[r].address
            c == code[x]
<1>0. /\ req[r].pc = "consume" /\ UNCHANGED <<change, jar, issued>>
      /\ x \in Addresses /\ req[r].id \in Ids /\ c \in Challenge
  BY TypeFacts DEF ConsumeCode, Sound
<1>1. CASE /\ Done(r) /\ UNCHANGED <<email, session, answered>>
           /\ \/ code' = code
              \/ code' = [code EXCEPT ![x] = NoChallenge]
              \/ ~LastAttempt(c.attempts) /\ code' = [code EXCEPT ![x].attempts = @ + 1]
  <2>1. code' \in [Addresses -> Challenge]
    <3>1. CASE ~LastAttempt(c.attempts) /\ code' = [code EXCEPT ![x].attempts = @ + 1]
      <4>1. c.attempts + 1 \in 0..(Attempts - 1)
        BY <1>0, <3>1, BoundsAssumption DEF LastAttempt, Challenge
      <4>2. [c EXCEPT !.attempts = c.attempts + 1] \in Challenge
        BY <1>0, <4>1 DEF Challenge
      <4>3. code' = [code EXCEPT ![x] = [c EXCEPT !.attempts = c.attempts + 1]]
        BY <3>1
      <4>. QED
        BY <4>2, <4>3, TypeFacts
    <3>. QED
      BY <1>1, <3>1, NoneIsTyped, TypeFacts
  <2>2. req' \in [Requests -> Request] /\ \A p \in Requests : Sound(session', req'[p])
    BY <1>0, <1>1, RequestGoesOn
  <2>. QED
    BY <1>0, <1>1, <2>1, <2>2 DEF TypeInv, AccountsTypeOK, Held
<1>2. CASE /\ c.id = req[r].id /\ UsedCode(x)
           /\ answered' = answered \union {<<c.id, x>>}
           /\ \/ Goto(r, "login") /\ UNCHANGED <<email, session>>
              \/ CreateOtpAccount(r, x, c.id)
  <2>1. code' \in [Addresses -> Challenge]
    BY <1>2, NoneIsTyped, TypeFacts DEF UsedCode
  <2>2. answered' \subseteq Ids \X Addresses
    BY <1>0, <1>2, TypeFacts
  <2>3. CASE Goto(r, "login") /\ UNCHANGED <<email, session>>
    <3>1. req' \in [Requests -> Request] /\ \A p \in Requests : Sound(session', req'[p])
      BY <1>0, <2>3, RequestGoesOn DEF Goto
    <3>. QED
      BY <1>0, <2>1, <2>2, <2>3, <3>1 DEF TypeInv, AccountsTypeOK, Held
  <2>4. CASE CreateOtpAccount(r, x, c.id)
    <3>1. PICK a \in Accounts :
            /\ CreateSession(r, a, c.id) /\ email'[a] = x
            /\ \/ email' = email
               \/ email[a] = NoAddress /\ HolderOf(x) = {} /\ email' = [email EXCEPT ![a] = x]
      BY <1>0, <2>4, OtpAccount
    <3>2. /\ email' \in [Accounts -> Addresses \union {NoAddress}] /\ email'[a] \in Addresses
          /\ \A o \in Accounts : email[o] \in Addresses => email'[o] \in Addresses
      BY <1>0, <3>1, TypeFacts
    <3>3. /\ session' \in [Sessions -> Session]
          /\ \A s \in Sessions : Owned(email', session'[s])
          /\ jar' \in [Browsers -> Token] /\ \A d \in Browsers : Known(session', jar'[d])
          /\ req' \in [Requests -> Request] /\ \A p \in Requests : Sound(session', req'[p])
      BY <1>0, <1>2, <3>1, <3>2, CreateSessionType
    <3>. QED
      BY <1>0, <2>1, <2>2, <3>2, <3>3 DEF TypeInv, AccountsTypeOK, Held
  <2>. QED
    BY <1>2, <2>3, <2>4
<1>. QED
  BY <1>1, <1>2, ConsumeCodeCases

-----------------------------------------------------------------------------
(* A change of address *)

\* What an answer does to the request of an account.
LEMMA ConfirmCases ==
  ASSUME TypeInv, NEW r \in Requests, Confirm(r)
  PROVE  LET a == Owner(req[r].token)
             c == change[a]
         IN  /\ a \in Accounts /\ req[r].pc = "route"
             /\ UNCHANGED <<session, code, jar, issued>>
             /\ \/ Done(r) /\ UNCHANGED <<email, change, answered>>
                \/ DropChange(a) /\ Done(r) /\ UNCHANGED <<email, answered>>
                \/ /\ c.id # 0 /\ email[a] = c.from
                   /\ \E side \in Sides \ c.verified :
                        AcceptSide(r, a, side) \/ RejectSide(r, a, side)
<1>1. Sound(session, req[r]) /\ req[r].pc = "route"
  BY TypeFacts DEF Confirm
<1>2. req[r].token.session \in Sessions
  BY <1>1 DEF Sound
<1>3. session[req[r].token.session].state # "unused"
  BY <1>1, <1>2, NullsAssumption DEF Sound, Known, NoToken
<1>4. Owner(req[r].token) \in Accounts
  BY <1>2, <1>3 DEF Owner, TypeInv, Held, Owned
<1>. QED
  BY <1>1, <1>4 DEF Confirm

LEMMA RejectSideType ==
  ASSUME TypeInv, NEW r \in Requests, NEW a \in Accounts, NEW side \in Sides,
         RejectSide(r, a, side), UNCHANGED <<session, code, jar, issued>>
  PROVE  TypeInv'
<1>. DEFINE c == change[a]
<1>0. c \in ChangeRequest /\ c.attempts \in [Sides -> 0..(Attempts - 1)]
  BY TypeFacts DEF ChangeRequest
<1>1. /\ change' \in [Accounts -> ChangeRequest]
      /\ \A o \in Accounts : change'[o].id # 0 =>
           change'[o].from \in Addresses /\ change'[o].to \in Addresses
  <2>1. CASE ~LastAttempt(c.attempts[side])
    <3>. DEFINE n == [c.attempts EXCEPT ![side] = c.attempts[side] + 1]
    <3>1. c.attempts[side] + 1 \in 0..(Attempts - 1)
      BY <1>0, <2>1, BoundsAssumption DEF LastAttempt
    <3>2. n \in [Sides -> 0..(Attempts - 1)]
      BY <1>0, <3>1
    <3>3. change' = [change EXCEPT ![a] = [c EXCEPT !.attempts = n]]
      BY <2>1 DEF RejectSide
    <3>. HIDE DEF n
    <3>. DEFINE d == [c EXCEPT !.attempts = n]
    <3>4. d \in ChangeRequest /\ d.id = c.id /\ d.from = c.from /\ d.to = c.to
      BY <1>0, <3>2 DEF ChangeRequest
    <3>5. change' = [change EXCEPT ![a] = d]
      BY <3>3
    <3>. HIDE DEF d
    <3>. QED
      BY <3>4, <3>5, SetChange DEF TypeInv, Held
  <2>2. CASE LastAttempt(c.attempts[side])
    BY <2>2, DropChangeType DEF RejectSide
  <2>. QED
    BY <2>1, <2>2
<1>2. req' \in [Requests -> Request] /\ \A p \in Requests : Sound(session', req'[p])
  BY RequestGoesOn DEF RejectSide
<1>. QED
  BY <1>1, <1>2 DEF RejectSide, TypeInv, AccountsTypeOK, Held

LEMMA AcceptSideType ==
  ASSUME TypeInv, NEW r \in Requests, req[r].pc = "route", NEW a \in Accounts,
         NEW side \in Sides, change[a].id # 0,
         AcceptSide(r, a, side), UNCHANGED <<session, code, jar, issued>>
  PROVE  TypeInv'
<1>. DEFINE c == change[a]
<1>0. /\ c \in ChangeRequest /\ c.id \in Ids /\ c.from \in Addresses /\ c.to \in Addresses
      /\ c.verified \in SUBSET Sides
  BY TypeFacts DEF ChangeRequest, TypeInv, Held
<1>1. answered' \subseteq Ids \X Addresses
  BY <1>0, TypeFacts DEF AcceptSide
<1>2. CASE Sides \ c.verified # {side}
  <2>. DEFINE d == [c EXCEPT !.verified = c.verified \union {side}]
  <2>1. d \in ChangeRequest /\ d.id = c.id /\ d.from = c.from /\ d.to = c.to
    BY <1>0 DEF ChangeRequest
  <2>2. change' = [change EXCEPT ![a] = d]
    BY <1>2 DEF AcceptSide
  <2>. HIDE DEF d
  <2>3. /\ change' \in [Accounts -> ChangeRequest]
        /\ \A o \in Accounts : change'[o].id # 0 =>
             change'[o].from \in Addresses /\ change'[o].to \in Addresses
    BY <1>0, <2>1, <2>2, SetChange
  <2>4. req' \in [Requests -> Request] /\ \A p \in Requests : Sound(session', req'[p])
    BY <1>2, RequestGoesOn DEF AcceptSide
  <2>. QED
    BY <1>1, <1>2, <2>3, <2>4 DEF AcceptSide, TypeInv, AccountsTypeOK, Held
<1>3. CASE Sides \ c.verified = {side}
  <2>1. /\ change' \in [Accounts -> ChangeRequest]
        /\ \A o \in Accounts : change'[o].id # 0 =>
             change'[o].from \in Addresses /\ change'[o].to \in Addresses
    BY <1>3, DropChangeType DEF AcceptSide
  <2>2. req' \in [Requests -> Request] /\ \A p \in Requests : Sound(session', req'[p])
    BY <1>3, RequestGoesOn DEF AcceptSide
  <2>3. email' = email \/ email' = [email EXCEPT ![a] = c.to]
    BY <1>3 DEF AcceptSide
  <2>4. /\ email' \in [Accounts -> Addresses \union {NoAddress}]
        /\ \A o \in Accounts : email[o] \in Addresses => email'[o] \in Addresses
    BY <1>0, <2>3, TypeFacts
  <2>5. \A s \in Sessions : Owned(email', session'[s])
    BY <2>4 DEF TypeInv, Held, Owned
  <2>. QED
    BY <1>1, <2>1, <2>2, <2>4, <2>5 DEF TypeInv, AccountsTypeOK, Held
<1>. QED
  BY <1>2, <1>3

LEMMA ConfirmType ==
  ASSUME TypeInv, NEW r \in Requests, Confirm(r)
  PROVE  TypeInv' /\ NoneOpened
<1>. DEFINE a == Owner(req[r].token)
            c == change[a]
<1>0. /\ a \in Accounts /\ req[r].pc = "route" /\ UNCHANGED <<session, code, jar, issued>>
  BY ConfirmCases
<1>1. NoneOpened
  BY <1>0, TypeFacts, SameSessions
<1>2. ASSUME Done(r), UNCHANGED <<email, answered>>, change' = change \/ DropChange(a)
      PROVE  TypeInv'
  <2>1. req' \in [Requests -> Request] /\ \A p \in Requests : Sound(session', req'[p])
    BY <1>0, <1>2, RequestGoesOn
  <2>2. /\ change' \in [Accounts -> ChangeRequest]
        /\ \A o \in Accounts : change'[o].id # 0 =>
             change'[o].from \in Addresses /\ change'[o].to \in Addresses
    BY <1>0, <1>2, DropChangeType, TypeFacts DEF TypeInv, Held
  <2>. QED
    BY <1>0, <1>2, <2>1, <2>2 DEF TypeInv, AccountsTypeOK, Held
<1>3. ASSUME c.id # 0, NEW side \in Sides, AcceptSide(r, a, side) \/ RejectSide(r, a, side)
      PROVE  TypeInv'
  BY <1>0, <1>3, AcceptSideType, RejectSideType
<1>. QED
  BY <1>1, <1>2, <1>3, ConfirmCases

-----------------------------------------------------------------------------
(* Every step *)

\* No request is let in, and one that signs its session out has ended it.
Waits ==
  \A p \in Requests :
    /\ req'[p].pc = "login" => req'[p] = req[p]
    /\ req'[p].pc = "signedOut" =>
         req'[p] = req[p] \/ session'[req'[p].token.session].state # "live"

\* A step opens a session with a code, lets a request in, or does neither.
Steps ==
  \/ \E r \in Requests : ConsumeCode(r) \/ Login(r)
  \/ /\ NoneOpened /\ Waits
     /\ \/ UNCHANGED accountVars
        \/ \E x \in Addresses :
             LoseCode(x) \/ \E intent \in {"sign-in", "sign-up"} : IssueCode(x, intent)
        \/ \E a \in Accounts : LoseChange(a)
        \/ \E r \in Requests, x \in Addresses : BeginChange(r, x)
        \/ \E r \in Requests : Confirm(r)

LEMMA OneWaits ==
  ASSUME TypeInv, NEW r \in Requests, NEW q \in Request, q.pc \notin {"login", "signedOut"},
         req' = [req EXCEPT ![r] = q]
  PROVE  Waits
BY TypeFacts DEF Waits

LEMMA DoneWaits ==
  ASSUME TypeInv, NEW r \in Requests, Done(r)
  PROVE  Waits
<1>1. Idle \in Request /\ Idle.pc = "idle"
  BY IdleIsSound DEF Idle
<1>. QED
  BY <1>1, OneWaits DEF Done

LEMMA StartWaits ==
  ASSUME TypeInv, NEW r \in Requests, NEW b \in Browsers,
         NEW pc \in {"refresh", "signOut", "route"}, Starts(r, b, pc)
  PROVE  Waits
<1>. DEFINE q == [Idle EXCEPT !.pc = pc, !.browser = b, !.token = jar[b]]
<1>1. Idle \in Request /\ jar[b] \in Token
  BY IdleIsSound, TypeFacts
<1>2. q \in Request /\ q.pc = pc
  BY <1>1 DEF Request
<1>3. req' = [req EXCEPT ![r] = q]
  BY DEF Starts
<1>. HIDE DEF q
<1>. QED
  BY <1>2, <1>3, OneWaits

LEMMA RefreshWaits ==
  ASSUME TypeInv, NEW r \in Requests, Refresh(r)
  PROVE  Waits
<1>1. req' \in [Requests -> Request]
  BY RefreshType, TypeFacts DEF TypeInv, AccountsTypeOK
<1>2. PICK u : req' = [req EXCEPT ![r] = [Idle EXCEPT !.pc = "granted",
                                            !.browser = req[r].browser, !.token = u]]
  BY DEF Refresh, Grant
<1>. DEFINE q == [Idle EXCEPT !.pc = "granted", !.browser = req[r].browser, !.token = u]
<1>3. q.pc = "granted"
  BY DEF Idle
<1>4. req' = [req EXCEPT ![r] = q]
  BY <1>2
<1>. HIDE DEF q
<1>5. req'[r] = q
  BY <1>4, TypeFacts
<1>. QED
  BY <1>1, <1>3, <1>4, <1>5, OneWaits

LEMMA SignsOutWaits ==
  ASSUME TypeInv, NEW r \in Requests, NEW S, session' = Revoked(S),
         req[r].token.session \in S \intersect Sessions, Goto(r, "signedOut")
  PROVE  Waits
<1>1. session'[req[r].token.session].state # "live"
  BY TypeFacts, RevokedKeeps
<1>2. /\ req'[r].token = req[r].token /\ req'[r].pc = "signedOut"
      /\ \A p \in Requests \ {r} : req'[p] = req[p]
  BY TypeFacts DEF Goto, Request
<1>. QED
  BY <1>1, <1>2 DEF Waits

LEMMA SignOutWaits ==
  ASSUME TypeInv, NEW r \in Requests, SignOut(r)
  PROVE  Waits
<1>1. CASE session' = Revoked(Family(req[r].token)) /\ Goto(r, "signedOut")
  <2>. DEFINE S == Family(req[r].token)
  <2>1. Sound(session, req[r]) /\ req[r].pc = "signOut"
    BY TypeFacts DEF SignOut
  <2>2. req[r].token.session \in S \intersect Sessions
    BY <2>1, NullsAssumption DEF Sound, Family
  <2>3. session' = Revoked(S)
    BY <1>1
  <2>. HIDE DEF S
  <2>. QED
    BY <1>1, <2>2, <2>3, SignsOutWaits
<1>2. CASE Done(r)
  BY <1>2, DoneWaits
<1>. QED
  BY <1>1, <1>2 DEF SignOut

LEMMA RevokeSessionWaits ==
  ASSUME TypeInv, NEW r \in Requests, RevokeSession(r)
  PROVE  Waits
<1>1. PICK s \in Sessions :
        \/ session' = Revoked({s}) /\ s = req[r].token.session /\ Goto(r, "signedOut")
        \/ Done(r)
  BY DEF RevokeSession
<1>. QED
  BY <1>1, SignsOutWaits, DoneWaits

LEMMA StartSignInWaits ==
  ASSUME TypeInv, NEW r \in Requests, NEW b \in Browsers, NEW x \in Addresses,
         StartSignIn(r, b, x)
  PROVE  Waits
<1>1. req'[r].pc = "consume" /\ \A p \in Requests \ {r} : req'[p] = req[p]
  BY TypeFacts DEF StartSignIn
<1>. QED
  BY <1>1 DEF Waits

LEMMA ConfirmWaits ==
  ASSUME TypeInv, NEW r \in Requests, Confirm(r)
  PROVE  Waits
<1>1. Done(r) \/ req' = [req EXCEPT ![r].pc = "revoke"]
  BY DEF Confirm, AcceptSide, RejectSide
<1>2. CASE req' = [req EXCEPT ![r].pc = "revoke"]
  <2>1. req'[r].pc = "revoke" /\ \A p \in Requests \ {r} : req'[p] = req[p]
    BY <1>2, TypeFacts DEF Request
  <2>. QED
    BY <2>1 DEF Waits
<1>. QED
  BY <1>1, <1>2, DoneWaits

LEMMA SameWaits ==
  ASSUME TypeInv, req' = req
  PROVE  Waits
BY DEF Waits

LEMMA EveryStep ==
  ASSUME TypeInv, [Next]_vars
  PROVE  TypeInv' /\ Steps
<1>1. ASSUME NEW r \in Requests, NEW b \in Browsers,
             \/ StartRefresh(r, b) \/ StartSignOut(r, b)
             \/ StartRoute(r, b)
      PROVE  TypeInv' /\ Steps
  <2>0. Valid(jar[b]) => jar[b] # NoToken
    BY DEF Valid, NoToken
  <2>1. /\ jar[b] # NoToken /\ UNCHANGED <<accountVars, session, jar>>
        /\ \E pc \in {"refresh", "signOut", "route"} : Starts(r, b, pc)
    BY <1>1, <2>0 DEF StartRefresh, StartSignOut, StartRoute
  <2>2. TypeInv' /\ NoneOpened /\ Waits
    BY <2>1, StartType, StartWaits
  <2>. QED
    BY <2>1, <2>2 DEF Steps
<1>2. ASSUME NEW r \in Requests, NEW b \in Browsers, NEW x \in Addresses, StartSignIn(r, b, x)
      PROVE  TypeInv' /\ Steps
  BY <1>2, StartSignInType, StartSignInWaits DEF Steps, StartSignIn
<1>3. ASSUME NEW r \in Requests, Refresh(r) PROVE TypeInv' /\ Steps
  BY <1>3, RefreshType, RefreshWaits DEF Steps, Refresh
<1>4. ASSUME NEW r \in Requests, SignOut(r) PROVE TypeInv' /\ Steps
  BY <1>4, SignOutType, SignOutWaits DEF Steps, SignOut
<1>5. ASSUME NEW r \in Requests, ConsumeCode(r) \/ Login(r) PROVE TypeInv' /\ Steps
  BY <1>5, ConsumeCodeType, LoginType DEF Steps
<1>6. ASSUME NEW r \in Requests, Confirm(r) PROVE TypeInv' /\ Steps
  BY <1>6, ConfirmType, ConfirmWaits DEF Steps
<1>7. ASSUME NEW r \in Requests,
             RevokeOtherSessions(r) \/ EndOthers(r) \/ Reply(r) \/ Drop(r)
      PROVE  TypeInv' /\ Steps
  <2>1. TypeInv' /\ NoneOpened
    BY <1>7, RevokeOthersType, ReplyType, DropType DEF RevokeOtherSessions, EndOthers
  <2>2. Waits /\ UNCHANGED accountVars
    BY <1>7, DoneWaits DEF RevokeOtherSessions, EndOthers, Reply, Drop
  <2>. QED
    BY <2>1, <2>2 DEF Steps
<1>8. ASSUME NEW S, session' = Revoked(S), UNCHANGED <<accountVars, jar, req>>
      PROVE  TypeInv' /\ Steps
  BY <1>8, EndSessionsType, SameWaits DEF Steps
<1>9. ASSUME NEW s \in Sessions, ExpireAccess(s) PROVE TypeInv' /\ Steps
  BY <1>9, ExpireAccessType, SameWaits DEF Steps, ExpireAccess
<1>10. ASSUME NEW r \in Requests, NEW x \in Addresses, BeginChange(r, x)
       PROVE  TypeInv' /\ Steps
  BY <1>10, BeginChangeType, BeginChangeCases, DoneWaits DEF Steps
<1>11. ASSUME NEW x \in Addresses, NEW i \in {"sign-in", "sign-up"}, IssueCode(x, i)
       PROVE  TypeInv' /\ Steps
  <2>1. TypeInv' /\ NoneOpened /\ Waits
    BY <1>11, IssueCodeType, SameWaits DEF IssueCode
  <2>. QED
    BY <1>11, <2>1 DEF Steps
<1>12. ASSUME NEW x \in Addresses, LoseCode(x) PROVE TypeInv' /\ Steps
  <2>1. TypeInv' /\ NoneOpened /\ Waits
    BY <1>12, LoseCodeType, SameWaits DEF LoseCode
  <2>. QED
    BY <1>12, <2>1 DEF Steps
<1>13. ASSUME NEW a \in Accounts, LoseChange(a) PROVE TypeInv' /\ Steps
  <2>1. TypeInv' /\ NoneOpened /\ Waits
    BY <1>13, LoseChangeType, SameWaits DEF LoseChange
  <2>. QED
    BY <1>13, <2>1 DEF Steps
<1>16. ASSUME NEW r \in Requests, RevokeSession(r) PROVE TypeInv' /\ Steps
  BY <1>16, RevokeSessionType, RevokeSessionWaits DEF Steps, RevokeSession
<1>14. CASE UNCHANGED vars
  <2>1. UNCHANGED accountVars /\ session' = session /\ jar' = jar /\ req' = req
    BY <1>14 DEF vars, accountVars
  <2>2. NoneOpened /\ Waits
    BY <2>1, TypeFacts, SameSessions, SameWaits
  <2>. QED
    BY <2>1, <2>2, SameJars, SameRequests, SessionStepType DEF SessionsMoved, Steps
<1>15. CASE \E r \in Requests :
              \/ \E b \in Browsers :
                   \/ StartRefresh(r, b) \/ StartSignOut(r, b)
                   \/ StartRoute(r, b)
                   \/ \E x \in Addresses : StartSignIn(r, b, x)
              \/ Refresh(r) \/ SignOut(r) \/ ConsumeCode(r) \/ Login(r)
              \/ RevokeSession(r) \/ RevokeOtherSessions(r)
              \/ \E x \in Addresses : BeginChange(r, x)
              \/ Confirm(r) \/ EndOthers(r) \/ Reply(r) \/ Drop(r)
  BY <1>15, <1>1, <1>2, <1>3, <1>4, <1>5, <1>6, <1>7, <1>10, <1>16, Zenon
<1>17. CASE \E s \in Sessions : ExpireAccess(s) \/ ExpireSession(s)
  <2>1. ASSUME NEW s \in Sessions, ExpireSession(s) PROVE TypeInv' /\ Steps
    BY <2>1, <1>8 DEF ExpireSession
  <2>. QED
    BY <1>17, <1>9, <2>1, Zenon
<1>18. CASE \/ \E x \in Addresses :
                \/ \E i \in {"sign-in", "sign-up"} : IssueCode(x, i)
                \/ LoseCode(x)
            \/ \E a \in Accounts : LoseChange(a)
  BY <1>18, <1>11, <1>12, <1>13, Zenon
<1>. QED
  BY <1>14, <1>15, <1>17, <1>18, Zenon DEF Next

\* Every row, cookie and request in progress keeps its type: no step of a request
\* relies on a session, an account or an address that it does not have.
THEOREM AccountsTypeCorrect == Spec => []AccountsTypeOK
<1>1. Init => TypeInv
  BY InitType
<1>2. TypeInv /\ [Next]_vars => TypeInv'
  BY EveryStep
<1>3. TypeInv => AccountsTypeOK
  BY DEF TypeInv
<1>. QED
  BY <1>1, <1>2, <1>3, PTL DEF Spec

-----------------------------------------------------------------------------
(* Two ways out of a request: what ConsumeCode and Login do *)

\* An accepted code lets the request in, or opens a session of its address.
LEMMA ConsumeCodeSteps ==
  ASSUME TypeInv, NEW r \in Requests, ConsumeCode(r)
  PROVE  /\ UNCHANGED <<change, jar, issued>>
         /\ req[r].address \in Addresses /\ code[req[r].address] \in Challenge
         /\ \/ /\ NoneOpened /\ Waits /\ UNCHANGED <<email, answered>>
               /\ \A x \in Addresses : code'[x].id \in {0, code[x].id}
            \/ /\ code[req[r].address].id = req[r].id /\ req[r].id \in Ids
               /\ code' = [code EXCEPT ![req[r].address] = NoChallenge]
               /\ answered' = answered \union {<<req[r].id, req[r].address>>}
               /\ \/ NoneOpened /\ req' = [req EXCEPT ![r].pc = "login"] /\ email' = email
                  \/ CreateOtpAccount(r, req[r].address, req[r].id)
<1>. DEFINE x == req[r].address
            c == code[x]
<1>0. /\ UNCHANGED <<change, jar, issued>> /\ x \in Addresses /\ req[r].id \in Ids
      /\ c \in Challenge
  BY TypeFacts DEF ConsumeCode, Sound
<1>1. CASE /\ Done(r) /\ UNCHANGED <<email, session, answered>>
           /\ \/ code' = code
              \/ code' = [code EXCEPT ![x] = NoChallenge]
              \/ ~LastAttempt(c.attempts) /\ code' = [code EXCEPT ![x].attempts = @ + 1]
  <2>1. NoneOpened /\ Waits
    BY <1>1, TypeFacts, SameSessions, DoneWaits
  <2>2. \A y \in Addresses : code'[y].id \in {0, code[y].id}
    <3>1. CASE code' = [code EXCEPT ![x].attempts = @ + 1]
      <4>. DEFINE d == [c EXCEPT !.attempts = c.attempts + 1]
      <4>1. d.id = c.id
        BY <1>0 DEF Challenge
      <4>2. code' = [code EXCEPT ![x] = d]
        BY <3>1
      <4>. HIDE DEF d
      <4>. QED
        BY <4>1, <4>2, <1>0, TypeFacts
    <3>2. NoChallenge.id = 0
      BY DEF NoChallenge
    <3>. QED
      BY <1>0, <1>1, <3>1, <3>2, TypeFacts
  <2>. QED
    BY <1>0, <1>1, <2>1, <2>2
<1>2. CASE /\ c.id = req[r].id /\ UsedCode(x)
           /\ answered' = answered \union {<<c.id, x>>}
           /\ \/ Goto(r, "login") /\ UNCHANGED <<email, session>>
              \/ CreateOtpAccount(r, x, c.id)
  BY <1>0, <1>2, TypeFacts, SameSessions DEF UsedCode, Goto
<1>. QED
  BY <1>1, <1>2, ConsumeCodeCases

\* A request that was let in opens a session of who has the address by now.
LEMMA LoginSteps ==
  ASSUME TypeInv, NEW r \in Requests, Login(r)
  PROVE  /\ UNCHANGED accountVars
         /\ req[r].pc = "login" /\ req[r].address \in Addresses /\ req[r].id \in Ids
         /\ \/ NoneOpened /\ Waits
            \/ \E a \in Accounts :
                 email[a] = req[r].address /\ CreateSession(r, a, req[r].id)
<1>1. UNCHANGED accountVars /\ req[r].pc = "login"
  BY DEF Login
<1>2. req[r].address \in Addresses /\ req[r].id \in Ids
  BY <1>1, TypeFacts DEF Sound
<1>. QED
  BY <1>1, <1>2, TypeFacts, SameSessions, DoneWaits DEF Login, HolderOf

\* The request a session is opened for is let in no more, the others are as they were.
LEMMA CreateSessionWaits ==
  ASSUME TypeInv, NEW r \in Requests, NEW a \in Accounts, NEW i \in Ids, CreateSession(r, a, i)
  PROVE  /\ \E s \in Sessions : OneOpened(s, a, i)
         /\ req'[r].pc = "granted" /\ \A p \in Requests \ {r} : req'[p] = req[p]
<1>1. PICK s \in Sessions :
        /\ OneOpened(s, a, i)
        /\ req' = [req EXCEPT ![r] =
                    [Idle EXCEPT !.pc = "granted", !.browser = req[r].browser,
                                 !.token = [session |-> s, gen |-> 0]]]
  BY TypeFacts, CreateSessionOpens
<1>. DEFINE q == [Idle EXCEPT !.pc = "granted", !.browser = req[r].browser,
                              !.token = [session |-> s, gen |-> 0]]
<1>2. q.pc = "granted"
  BY DEF Idle
<1>3. req' = [req EXCEPT ![r] = q]
  BY <1>1
<1>. HIDE DEF q
<1>. QED
  BY <1>1, <1>2, <1>3, TypeFacts

-----------------------------------------------------------------------------
(* One session per code *)

LEMMA CodeFacts ==
  ASSUME TypeInv
  PROVE  /\ issued \in Nat /\ \A x \in Addresses : code[x].id \in Nat
         /\ \A s \in Sessions : session[s].code \in Nat
         /\ \A r \in Requests : req[r].id \in Nat
         /\ Ids \subseteq Nat \ {0}
BY TypeFacts, BoundsAssumption DEF Challenge, Session, Request, Ids

\* Codes are lost, and none or one is issued, while no session is opened.
LEMMA CodesKept ==
  ASSUME TypeInv, CodeInv, OneSessionPerCode, NoneOpened, Waits,
         \/ /\ issued' = issued
            /\ \A x \in Addresses : code'[x].id \in {0, code[x].id}
         \/ /\ issued' = issued + 1
            /\ \E y \in Addresses : /\ code'[y].id = issued + 1
                                    /\ \A x \in Addresses \ {y} : code'[x].id = code[x].id
  PROVE  CodeInv' /\ OneSessionPerCode'
<1>0. /\ issued \in Nat /\ \A x \in Addresses : code[x].id \in Nat
      /\ \A s \in Sessions : session[s].code \in Nat
      /\ \A r \in Requests : req[r].id \in Nat
  BY CodeFacts
<1>1. \A s \in Sessions : session'[s].code = session[s].code
  BY DEF NoneOpened, Kept
<1>2. OneSessionPerCode'
  BY <1>1 DEF OneSessionPerCode
<1>3. \A p \in Requests : req'[p].pc = "login" => req'[p] = req[p]
  BY DEF Waits
<1>4. CASE issued' = issued /\ \A x \in Addresses : code'[x].id \in {0, code[x].id}
  <2>1. \A x \in Addresses : code'[x].id <= issued'
    BY <1>0, <1>4 DEF CodeInv
  <2>2. \A x, y \in Addresses : code'[x].id = code'[y].id /\ code'[x].id # 0 => x = y
    BY <1>0, <1>4 DEF CodeInv
  <2>3. \A r \in Requests : req'[r].pc = "login" =>
          req'[r].id <= issued' /\ req'[r].id \in Nat \ {0} /\
          \A x \in Addresses : code'[x].id # req'[r].id
    <3>1. ASSUME NEW r \in Requests, req[r].pc = "login" PROVE req[r].id # 0
      BY <3>1, TypeFacts, CodeFacts DEF Sound
    <3>. QED
      BY <3>1, <1>0, <1>3, <1>4 DEF CodeInv
  <2>4. \A r, q \in Requests :
          req'[r].pc = "login" /\ req'[q].pc = "login" /\ req'[r].id = req'[q].id => r = q
    BY <1>3 DEF CodeInv
  <2>5. ASSUME NEW s \in Sessions
        PROVE  /\ session'[s].code <= issued'
               /\ session'[s].code # 0 => \A x \in Addresses : code'[x].id # session'[s].code
               /\ \A r \in Requests : req'[r].pc = "login" => req'[r].id # session'[s].code
    BY <1>0, <1>1, <1>3, <1>4 DEF CodeInv
  <2>. QED
    BY <1>2, <2>1, <2>2, <2>3, <2>4, <2>5 DEF CodeInv
<1>5. CASE issued' = issued + 1 /\ \E y \in Addresses :
             code'[y].id = issued + 1 /\ \A x \in Addresses \ {y} : code'[x].id = code[x].id
  <2>0. PICK y \in Addresses :
          code'[y].id = issued + 1 /\ \A x \in Addresses \ {y} : code'[x].id = code[x].id
    BY <1>5
  <2>1. \A x \in Addresses : code'[x].id <= issued'
    BY <1>0, <1>5, <2>0 DEF CodeInv
  <2>2. \A x, z \in Addresses : code'[x].id = code'[z].id /\ code'[x].id # 0 => x = z
    BY <1>0, <2>0 DEF CodeInv
  <2>3. \A r \in Requests : req'[r].pc = "login" =>
          req'[r].id <= issued' /\ \A x \in Addresses : code'[x].id # req'[r].id
    BY <1>0, <1>3, <1>5, <2>0 DEF CodeInv
  <2>4. \A r, q \in Requests :
          req'[r].pc = "login" /\ req'[q].pc = "login" /\ req'[r].id = req'[q].id => r = q
    BY <1>3 DEF CodeInv
  <2>5. ASSUME NEW s \in Sessions
        PROVE  /\ session'[s].code <= issued'
               /\ session'[s].code # 0 => \A x \in Addresses : code'[x].id # session'[s].code
               /\ \A r \in Requests : req'[r].pc = "login" => req'[r].id # session'[s].code
    BY <1>0, <1>1, <1>3, <1>5, <2>0 DEF CodeInv
  <2>. QED
    BY <1>2, <2>1, <2>2, <2>3, <2>4, <2>5 DEF CodeInv
<1>. QED
  BY <1>4, <1>5

\* A session is opened with a code that nothing else has any more.
LEMMA CodeOpens ==
  ASSUME TypeInv, CodeInv, OneSessionPerCode,
         NEW s \in Sessions, NEW a, NEW i \in Ids, OneOpened(s, a, i), i <= issued,
         issued' = issued, \A x \in Addresses : code'[x].id \in {0, code[x].id} \ {i},
         \A p \in Requests : req'[p].pc = "login" => req'[p] = req[p] /\ req[p].id # i,
         \A z \in Sessions : session[z].code # i
  PROVE  CodeInv' /\ OneSessionPerCode'
<1>0. /\ issued \in Nat /\ \A x \in Addresses : code[x].id \in Nat
      /\ \A z \in Sessions : session[z].code \in Nat
      /\ \A r \in Requests : req[r].id \in Nat
      /\ i \in Nat \ {0}
  BY CodeFacts
<1>1. session'[s].code = i /\ \A z \in Sessions \ {s} : session'[z].code = session[z].code
  BY DEF OneOpened, Kept
<1>2. OneSessionPerCode'
  BY <1>1 DEF OneSessionPerCode
<1>3. \A x \in Addresses : code'[x].id <= issued'
  BY <1>0 DEF CodeInv
<1>4. \A x, y \in Addresses : code'[x].id = code'[y].id /\ code'[x].id # 0 => x = y
  BY <1>0 DEF CodeInv
<1>5. \A r \in Requests : req'[r].pc = "login" =>
        req'[r].id <= issued' /\ \A x \in Addresses : code'[x].id # req'[r].id
  <2>1. ASSUME NEW r \in Requests, req[r].pc = "login" PROVE req[r].id # 0
    BY <2>1, TypeFacts, CodeFacts DEF Sound
  <2>. QED
    BY <2>1, <1>0 DEF CodeInv
<1>6. \A r, q \in Requests :
        req'[r].pc = "login" /\ req'[q].pc = "login" /\ req'[r].id = req'[q].id => r = q
  BY DEF CodeInv
<1>7. ASSUME NEW z \in Sessions
      PROVE  /\ session'[z].code <= issued'
             /\ session'[z].code # 0 => \A x \in Addresses : code'[x].id # session'[z].code
             /\ \A r \in Requests : req'[r].pc = "login" => req'[r].id # session'[z].code
  BY <1>0, <1>1 DEF CodeInv
<1>. QED
  BY <1>2, <1>3, <1>4, <1>5, <1>6, <1>7 DEF CodeInv

LEMMA CodeStep ==
  ASSUME TypeInv, CodeInv, OneSessionPerCode, Steps
  PROVE  CodeInv' /\ OneSessionPerCode'
<1>0. /\ issued \in Nat /\ \A x \in Addresses : code[x].id \in Nat
      /\ \A s \in Sessions : session[s].code \in Nat
      /\ \A r \in Requests : req[r].id \in Nat
      /\ Ids \subseteq Nat \ {0}
  BY CodeFacts
<1>1. CASE NoneOpened /\ Waits /\ code' = code /\ issued' = issued
  BY <1>1, CodesKept
<1>2. ASSUME NoneOpened, Waits, NEW x \in Addresses, LoseCode(x)
      PROVE  CodeInv' /\ OneSessionPerCode'
  <2>1. NoChallenge.id = 0
    BY DEF NoChallenge
  <2>2. \A y \in Addresses : code'[y].id \in {0, code[y].id}
    BY <1>2, <2>1, TypeFacts DEF LoseCode
  <2>. QED
    BY <1>2, <2>2, CodesKept DEF LoseCode
<1>3. ASSUME NoneOpened, Waits, NEW x \in Addresses, NEW intent, IssueCode(x, intent)
      PROVE  CodeInv' /\ OneSessionPerCode'
  <2>1. /\ code'[x].id = issued + 1
        /\ \A y \in Addresses \ {x} : code'[y].id = code[y].id
        /\ issued' = issued + 1
    BY <1>3, TypeFacts DEF IssueCode
  <2>. QED
    BY <1>3, <2>1, CodesKept
<1>4. ASSUME NoneOpened, Waits, NEW r, NEW x, BeginChange(r, x)
      PROVE  CodeInv' /\ OneSessionPerCode'
  <2>1. code' = code /\ issued' \in {issued, issued + 1}
    BY <1>4 DEF BeginChange
  <2>2. \A s \in Sessions : session'[s].code = session[s].code
    BY <1>4 DEF NoneOpened, Kept
  <2>3. \A p \in Requests : req'[p].pc = "login" => req'[p] = req[p]
    BY <1>4 DEF Waits
  <2>. QED
    BY <1>0, <2>1, <2>2, <2>3 DEF CodeInv, OneSessionPerCode
<1>5. ASSUME NEW r \in Requests, ConsumeCode(r) PROVE CodeInv' /\ OneSessionPerCode'
  <2>. DEFINE x == req[r].address
              i == req[r].id
  <2>0. /\ issued' = issued /\ x \in Addresses
        /\ \/ /\ NoneOpened /\ Waits
              /\ \A y \in Addresses : code'[y].id \in {0, code[y].id}
           \/ /\ code[x].id = i /\ i \in Ids
              /\ code' = [code EXCEPT ![x] = NoChallenge]
              /\ \/ NoneOpened /\ req' = [req EXCEPT ![r].pc = "login"]
                 \/ CreateOtpAccount(r, x, i)
    BY <1>5, ConsumeCodeSteps
  <2>1. CASE NoneOpened /\ Waits /\ \A y \in Addresses : code'[y].id \in {0, code[y].id}
    BY <2>0, <2>1, CodesKept
  <2>2. CASE code[x].id = i /\ i \in Ids /\ code' = [code EXCEPT ![x] = NoChallenge]
    <3>1. /\ code'[x].id = 0
          /\ \A y \in Addresses \ {x} : code'[y].id = code[y].id /\ code[y].id # i
          /\ i \in Nat \ {0} /\ i <= issued
      BY <1>0, <2>0, <2>2, TypeFacts DEF NoChallenge, CodeInv
    <3>2. CASE CreateOtpAccount(r, x, i)
      <4>1. PICK a \in Accounts : CreateSession(r, a, i)
        BY <2>0, <3>2, OtpAccount
      <4>2. PICK s \in Sessions : OneOpened(s, a, i)
        BY <2>2, <4>1, CreateSessionWaits
      <4>3. ASSUME NEW p \in Requests, req'[p].pc = "login"
            PROVE  req'[p] = req[p] /\ req[p].id # i
        <5>1. p # r /\ req'[p] = req[p]
          BY <2>2, <4>1, <4>3, CreateSessionWaits
        <5>. QED
          BY <2>0, <2>2, <4>3, <5>1 DEF CodeInv
      <4>4. \A z \in Sessions : session[z].code # i
        BY <1>0, <2>0, <2>2, <3>1 DEF CodeInv
      <4>5. \A y \in Addresses : code'[y].id \in {0, code[y].id} \ {i}
        BY <3>1
      <4>. QED
        BY <2>0, <2>2, <3>1, <4>2, <4>3, <4>4, <4>5, CodeOpens
    <3>3. CASE NoneOpened /\ req' = [req EXCEPT ![r].pc = "login"]
      <4>1. /\ req'[r].pc = "login" /\ req'[r].id = i
            /\ \A p \in Requests \ {r} : req'[p] = req[p]
        BY <3>3, TypeFacts DEF Request
      <4>2. \A s \in Sessions : session'[s].code = session[s].code
        BY <3>3 DEF NoneOpened, Kept
      <4>3. ASSUME NEW p \in Requests, p # r, req[p].pc = "login"
            PROVE  req[p].id # i /\ req[p].id # 0
        BY <4>3, <2>0, <2>2, TypeFacts, CodeFacts DEF CodeInv, Sound
      <4>4. \A s \in Sessions : session[s].code # i
        BY <2>0, <2>2, <3>1 DEF CodeInv
      <4>5. \A y \in Addresses : code'[y].id <= issued' /\ code'[y].id # i
        BY <1>0, <2>0, <3>1 DEF CodeInv
      <4>6. \A y, z \in Addresses : code'[y].id = code'[z].id /\ code'[y].id # 0 => y = z
        BY <2>0, <3>1 DEF CodeInv
      <4>7. ASSUME NEW p \in Requests, req'[p].pc = "login"
            PROVE  req'[p].id <= issued' /\ \A y \in Addresses : code'[y].id # req'[p].id
        <5>1. CASE p = r
          BY <5>1, <2>0, <3>1, <4>1, <4>5
        <5>2. CASE p # r
          BY <5>2, <2>0, <3>1, <4>1, <4>3, <4>7 DEF CodeInv
        <5>. QED
          BY <5>1, <5>2
      <4>8. \A p, q \in Requests :
              req'[p].pc = "login" /\ req'[q].pc = "login" /\ req'[p].id = req'[q].id => p = q
        BY <4>1, <4>3 DEF CodeInv
      <4>9. ASSUME NEW s \in Sessions
            PROVE  /\ session'[s].code <= issued'
                   /\ session'[s].code # 0 =>
                        \A y \in Addresses : code'[y].id # session'[s].code
                   /\ \A p \in Requests : req'[p].pc = "login" =>
                        req'[p].id # session'[s].code
        <5>1. \A p \in Requests : req'[p].pc = "login" => req'[p].id # session'[s].code
          BY <4>1, <4>2, <4>4 DEF CodeInv
        <5>2. session'[s].code # 0 => \A y \in Addresses : code'[y].id # session'[s].code
          BY <3>1, <4>2 DEF CodeInv
        <5>3. session'[s].code <= issued'
          BY <2>0, <4>2 DEF CodeInv
        <5>. QED
          BY <5>1, <5>2, <5>3
      <4>. QED
        BY <4>2, <4>5, <4>6, <4>7, <4>8, <4>9 DEF CodeInv, OneSessionPerCode
    <3>. QED
      BY <2>0, <2>2, <3>2, <3>3, <2>1
  <2>. QED
    BY <2>0, <2>1, <2>2
<1>6. ASSUME NEW r \in Requests, Login(r) PROVE CodeInv' /\ OneSessionPerCode'
  <2>. DEFINE i == req[r].id
  <2>0. /\ code' = code /\ issued' = issued /\ req[r].pc = "login" /\ i \in Ids
        /\ (NoneOpened /\ Waits) \/ \E a \in Accounts : CreateSession(r, a, i)
    BY <1>6, LoginSteps DEF accountVars
  <2>1. ASSUME NEW a \in Accounts, CreateSession(r, a, i)
        PROVE  CodeInv' /\ OneSessionPerCode'
    <3>1. PICK s \in Sessions : OneOpened(s, a, i)
      BY <2>0, <2>1, CreateSessionWaits
    <3>2. ASSUME NEW p \in Requests, req'[p].pc = "login"
          PROVE  req'[p] = req[p] /\ req[p].id # i
      <4>1. p # r /\ req'[p] = req[p]
        BY <2>0, <2>1, <3>2, CreateSessionWaits
      <4>. QED
        BY <2>0, <3>2, <4>1 DEF CodeInv
    <3>3. \A y \in Addresses : code'[y].id \in {0, code[y].id} \ {i}
      BY <2>0 DEF CodeInv
    <3>4. i <= issued /\ \A z \in Sessions : session[z].code # i
      BY <2>0 DEF CodeInv
    <3>. QED
      BY <2>0, <3>1, <3>2, <3>3, <3>4, CodeOpens
  <2>. QED
    BY <1>1, <2>0, <2>1
<1>7. CASE /\ NoneOpened /\ Waits
           /\ \/ UNCHANGED accountVars
              \/ \E a \in Accounts : LoseChange(a)
              \/ \E r \in Requests : Confirm(r)
  BY <1>1, <1>7 DEF accountVars, LoseChange, Confirm
<1>. QED
  BY <1>2, <1>3, <1>4, <1>5, <1>6, <1>7 DEF Steps

\* A code that was given stays in the history.
LEMMA AnsweredGrows ==
  ASSUME TypeInv, Steps
  PROVE  answered \subseteq answered'
<1>1. ASSUME NEW r \in Requests, Confirm(r) PROVE answered \subseteq answered'
  BY <1>1 DEF Confirm, AcceptSide, RejectSide
<1>2. ASSUME NEW r \in Requests, ConsumeCode(r) PROVE answered \subseteq answered'
  BY <1>2, ConsumeCodeSteps
<1>3. ASSUME NEW r \in Requests, Login(r) PROVE answered' = answered
  BY <1>3 DEF Login, accountVars
<1>4. CASE \/ UNCHANGED accountVars
           \/ \E x \in Addresses :
                LoseCode(x) \/ \E intent \in {"sign-in", "sign-up"} : IssueCode(x, intent)
           \/ \E a \in Accounts : LoseChange(a)
           \/ \E r \in Requests, x \in Addresses : BeginChange(r, x)
  BY <1>4 DEF accountVars, LoseCode, IssueCode, LoseChange, BeginChange
<1>. QED
  BY <1>1, <1>2, <1>3, <1>4 DEF Steps

LEMMA LoginStep ==
  ASSUME TypeInv, LoginInv, Steps
  PROVE  LoginInv'
<1>0. answered \subseteq answered'
  BY AnsweredGrows
<1>1. CASE Waits
  BY <1>0, <1>1 DEF Waits, LoginInv
<1>2. ASSUME NEW r \in Requests, ConsumeCode(r) PROVE LoginInv'
  <2>1. CASE CreateOtpAccount(r, req[r].address, req[r].id) /\ req[r].id \in Ids
    <3>1. PICK a \in Accounts : CreateSession(r, a, req[r].id)
      BY <1>2, <2>1, OtpAccount, ConsumeCodeSteps
    <3>. QED
      BY <1>0, <2>1, <3>1, CreateSessionWaits DEF LoginInv
  <2>2. CASE /\ req' = [req EXCEPT ![r].pc = "login"]
             /\ answered' = answered \union {<<req[r].id, req[r].address>>}
    <3>1. /\ req'[r].id = req[r].id /\ req'[r].address = req[r].address
          /\ \A p \in Requests \ {r} : req'[p] = req[p]
      BY <2>2, TypeFacts DEF Request
    <3>. QED
      BY <1>0, <2>2, <3>1 DEF LoginInv
  <2>. QED
    BY <1>1, <1>2, <2>1, <2>2, ConsumeCodeSteps
<1>3. ASSUME NEW r \in Requests, Login(r) PROVE LoginInv'
  <2>1. ASSUME NEW a \in Accounts, req[r].id \in Ids, CreateSession(r, a, req[r].id)
        PROVE  LoginInv'
    BY <1>0, <2>1, CreateSessionWaits DEF LoginInv
  <2>. QED
    BY <1>1, <1>3, <2>1, LoginSteps
<1>. QED
  BY <1>1, <1>2, <1>3 DEF Steps

-----------------------------------------------------------------------------
(* Addresses *)

\* The second right code, of a request that is still about the account's address.
LEMMA ConfirmChanges ==
  ASSUME TypeInv, NEW r \in Requests, Confirm(r), email' # email
  PROVE  \E a \in Accounts, side \in Sides : LET c == change[a] IN
           /\ c.id \in Ids /\ c.from = email[a] /\ c.to \in Addresses
           /\ email' = [email EXCEPT ![a] = c.to]
           /\ HolderOf(c.to) \subseteq {a}
           /\ Sides \ c.verified = {side}
           /\ answered' = answered \union
                {<<c.id, IF side = "current" THEN c.from ELSE c.to>>}
<1>. DEFINE a == Owner(req[r].token)
            c == change[a]
<1>1. /\ a \in Accounts /\ c.id # 0 /\ email[a] = c.from
      /\ \E side \in Sides \ c.verified : AcceptSide(r, a, side) \/ RejectSide(r, a, side)
  BY ConfirmCases
<1>2. PICK side \in Sides \ c.verified : AcceptSide(r, a, side)
  BY <1>1 DEF RejectSide
<1>3. c \in ChangeRequest /\ c.to \in Addresses
  BY <1>1, TypeFacts DEF TypeInv, Held
<1>4. c.id \in Ids
  BY <1>1, <1>3 DEF ChangeRequest
<1>. QED
  BY <1>1, <1>2, <1>3, <1>4 DEF AcceptSide, Available

\* A new address is one that no other account has.
LEMMA EmailSteps ==
  ASSUME TypeInv, Steps, email' # email
  PROVE  \E a \in Accounts, x \in Addresses :
           /\ email' = [email EXCEPT ![a] = x] /\ HolderOf(x) \subseteq {a}
           /\ \/ email[a] = NoAddress
              \/ \E r \in Requests : Confirm(r)
<1>1. ASSUME NEW r \in Requests, Confirm(r)
      PROVE  \E a \in Accounts, x \in Addresses :
               email' = [email EXCEPT ![a] = x] /\ HolderOf(x) \subseteq {a}
  BY <1>1, ConfirmChanges
<1>2. ASSUME NEW r \in Requests, ConsumeCode(r)
      PROVE  \E a \in Accounts, x \in Addresses :
               /\ email' = [email EXCEPT ![a] = x] /\ HolderOf(x) \subseteq {a}
               /\ email[a] = NoAddress
  BY <1>2, ConsumeCodeSteps, OtpAccount
<1>3. ASSUME NEW r \in Requests, Login(r) PROVE FALSE
  BY <1>3 DEF Login, accountVars
<1>4. CASE \/ UNCHANGED accountVars
           \/ \E x \in Addresses :
                LoseCode(x) \/ \E intent \in {"sign-in", "sign-up"} : IssueCode(x, intent)
           \/ \E a \in Accounts : LoseChange(a)
           \/ \E r \in Requests, x \in Addresses : BeginChange(r, x)
  BY <1>4 DEF accountVars, LoseCode, IssueCode, LoseChange, BeginChange
<1>. QED
  BY <1>1, <1>2, <1>3, <1>4 DEF Steps

LEMMA OneAddressStep ==
  ASSUME TypeInv, OneAccountPerAddress, Steps
  PROVE  OneAccountPerAddress'
<1>1. CASE email' = email
  BY <1>1 DEF OneAccountPerAddress, OneAddressEach
<1>2. CASE email' # email
  <2>1. PICK a \in Accounts, x \in Addresses :
          email' = [email EXCEPT ![a] = x] /\ HolderOf(x) \subseteq {a}
    BY <1>2, EmailSteps
  <2>2. email'[a] = x /\ \A o \in Accounts \ {a} : email'[o] = email[o] /\ email[o] # x
    BY <2>1, TypeFacts DEF HolderOf
  <2>. QED
    BY <2>2 DEF OneAccountPerAddress, OneAddressEach
<1>. QED
  BY <1>1, <1>2

\* Every side of a request that is marked as verified is still answered for.
LEMMA VerifiedStep ==
  ASSUME TypeInv, VerifiedInv, Steps
  PROVE  VerifiedInv'
<1>0. answered \subseteq answered'
  BY AnsweredGrows
<1>1. CASE change' = change
  BY <1>0, <1>1 DEF VerifiedInv
<1>2. ASSUME NEW a \in Accounts, NEW c, change' = [change EXCEPT ![a] = c],
             c.verified = {} \/ (c.verified = change[a].verified /\ c.id = change[a].id
                                 /\ c.from = change[a].from /\ c.to = change[a].to)
      PROVE  VerifiedInv'
  BY <1>0, <1>2, TypeFacts DEF VerifiedInv
<1>3. ASSUME NEW a \in Accounts, DropChange(a) PROVE VerifiedInv'
  BY <1>2, <1>3 DEF DropChange, NoChange
<1>4. ASSUME NEW r \in Requests, NEW x \in Addresses, BeginChange(r, x) PROVE VerifiedInv'
  <2>1. NewChange(Owner(req[r].token), x).verified = {}
    BY DEF NewChange
  <2>. QED
    BY <1>1, <1>2, <1>4, <2>1, BeginChangeCases
<1>5. ASSUME NEW r \in Requests, Confirm(r) PROVE VerifiedInv'
  <2>. DEFINE a == Owner(req[r].token)
              c == change[a]
  <2>0. a \in Accounts /\ c \in ChangeRequest
    BY <1>5, ConfirmCases, TypeFacts
  <2>1. ASSUME NEW side \in Sides, RejectSide(r, a, side) PROVE VerifiedInv'
    <3>1. CASE change' = [change EXCEPT ![a].attempts[side] = @ + 1]
      <4>. DEFINE n == [c.attempts EXCEPT ![side] = c.attempts[side] + 1]
                  d == [c EXCEPT !.attempts = n]
      <4>1. change' = [change EXCEPT ![a] = d]
        BY <3>1
      <4>. HIDE DEF n
      <4>2. d.verified = c.verified /\ d.id = c.id /\ d.from = c.from /\ d.to = c.to
        BY <2>0 DEF ChangeRequest
      <4>. HIDE DEF d
      <4>. QED
        BY <1>2, <2>0, <4>1, <4>2
    <3>. QED
      BY <1>3, <2>0, <2>1, <3>1 DEF RejectSide
  <2>2. ASSUME c.id # 0, NEW side \in Sides, AcceptSide(r, a, side) PROVE VerifiedInv'
    <3>1. CASE change' = [change EXCEPT ![a].verified = @ \union {side}]
      <4>. DEFINE d == [c EXCEPT !.verified = c.verified \union {side}]
      <4>1. change' = [change EXCEPT ![a] = d]
        BY <3>1
      <4>2. /\ d.verified = c.verified \union {side}
            /\ d.id = c.id /\ d.from = c.from /\ d.to = c.to
        BY <2>0 DEF ChangeRequest
      <4>3. <<c.id, IF side = "current" THEN c.from ELSE c.to>> \in answered'
        BY <2>2 DEF AcceptSide
      <4>4. /\ "current" \in d.verified => <<d.id, d.from>> \in answered'
            /\ "new" \in d.verified => <<d.id, d.to>> \in answered'
            /\ d.id # 0
        BY <1>0, <2>0, <2>2, <4>2, <4>3 DEF VerifiedInv, Sides
      <4>5. change'[a] = d /\ \A o \in Accounts \ {a} : change'[o] = change[o]
        BY <2>0, <4>1, TypeFacts
      <4>. HIDE DEF d
      <4>. QED
        BY <1>0, <4>4, <4>5 DEF VerifiedInv
    <3>. QED
      BY <1>3, <2>0, <2>2, <3>1 DEF AcceptSide
  <2>. QED
    BY <1>1, <1>3, <1>5, <2>0, <2>1, <2>2, ConfirmCases
<1>6. ASSUME NEW r \in Requests, ConsumeCode(r) \/ Login(r) PROVE change' = change
  BY <1>6, ConsumeCodeSteps DEF Login, accountVars
<1>7. ASSUME NEW a \in Accounts, LoseChange(a) PROVE VerifiedInv'
  BY <1>3, <1>7 DEF LoseChange, DropChange
<1>8. CASE \/ UNCHANGED accountVars
           \/ \E x \in Addresses :
                LoseCode(x) \/ \E intent \in {"sign-in", "sign-up"} : IssueCode(x, intent)
  BY <1>1, <1>8 DEF accountVars, LoseCode, IssueCode
<1>. QED
  BY <1>1, <1>4, <1>5, <1>6, <1>7, <1>8 DEF Steps

-----------------------------------------------------------------------------
(* Signed out *)

LEMMA SignedOutStep ==
  ASSUME TypeInv, SignedOutIsOver, Steps
  PROVE  SignedOutIsOver'
<1>0. ASSUME NEW p \in Requests, req[p].pc = "signedOut"
      PROVE  /\ req[p].token.session \in Sessions
             /\ session[req[p].token.session].state \notin {"unused", "live"}
  <2>1. Sound(session, req[p])
    BY TypeFacts
  <2>2. req[p].token.session \in Sessions
    BY <1>0, <2>1 DEF Sound
  <2>. QED
    BY <1>0, <2>1, <2>2, NullsAssumption DEF SignedOutIsOver, Live, Sound, Known, NoToken
<1>1. CASE NoneOpened /\ Waits
  BY <1>0, <1>1 DEF NoneOpened, Kept, Waits, SignedOutIsOver, Live
<1>2. ASSUME NEW r \in Requests, NEW a \in Accounts, NEW i \in Ids, CreateSession(r, a, i)
      PROVE  SignedOutIsOver'
  <2>1. PICK s \in Sessions : OneOpened(s, a, i)
    BY <1>2, CreateSessionWaits
  <2>2. req'[r].pc = "granted" /\ \A p \in Requests \ {r} : req'[p] = req[p]
    BY <1>2, CreateSessionWaits
  <2>. QED
    BY <1>0, <2>1, <2>2 DEF OneOpened, Kept, SignedOutIsOver, Live
<1>3. ASSUME NEW r \in Requests, NoneOpened, req' = [req EXCEPT ![r].pc = "login"]
      PROVE  SignedOutIsOver'
  <2>1. req'[r].pc = "login" /\ \A p \in Requests \ {r} : req'[p] = req[p]
    BY <1>3, TypeFacts DEF Request
  <2>. QED
    BY <1>0, <1>3, <2>1 DEF NoneOpened, Kept, SignedOutIsOver, Live
<1>4. ASSUME NEW r \in Requests, ConsumeCode(r) PROVE SignedOutIsOver'
  BY <1>1, <1>2, <1>3, <1>4, ConsumeCodeSteps, OtpAccount
<1>5. ASSUME NEW r \in Requests, Login(r) PROVE SignedOutIsOver'
  BY <1>1, <1>2, <1>5, LoginSteps
<1>. QED
  BY <1>1, <1>4, <1>5 DEF Steps

-----------------------------------------------------------------------------
(* The theorems *)

LEMMA InitInv == Init => Inv
<1>. SUFFICES ASSUME Init PROVE Inv
  OBVIOUS
<1>1. TypeInv
  BY InitType
<1>2. /\ \A x \in Addresses : code[x].id = 0
      /\ \A r \in Requests : req[r].pc = "idle"
      /\ \A s \in Sessions : session[s].code = 0
      /\ \A a \in Accounts : change[a].verified = {}
  BY DEF Init, NoChallenge, Idle, Unused, Opened, NoChange
<1>3. CodeInv /\ OneSessionPerCode
  BY <1>2 DEF Init, CodeInv, OneSessionPerCode
<1>4. LoginInv /\ VerifiedInv /\ SignedOutIsOver
  BY <1>2 DEF LoginInv, VerifiedInv, SignedOutIsOver
<1>5. OneAccountPerAddress
  BY DEF Init, OneAccountPerAddress
<1>. QED
  BY <1>1, <1>3, <1>4, <1>5 DEF Inv

LEMMA NextInv == Inv /\ [Next]_vars => Inv'
<1>. SUFFICES ASSUME Inv, [Next]_vars PROVE Inv'
  OBVIOUS
<1>1. TypeInv' /\ Steps
  BY EveryStep DEF Inv
<1>. QED
  BY <1>1, CodeStep, LoginStep, VerifiedStep, OneAddressStep, SignedOutStep DEF Inv

LEMMA InvCorrect == Spec => []Inv
BY InitInv, NextInv, PTL DEF Spec

\* Two accounts never share an address: sign-up looks for the holder of the address,
\* and the end of a change of address for another one, each in one transaction.
THEOREM OneAccountPerAddressHolds == Spec => []OneAccountPerAddress
<1>1. Inv => OneAccountPerAddress
  BY DEF Inv
<1>. QED
  BY <1>1, InvCorrect, PTL

\* A code opens at most one session: what consume lets in has taken the code out of
\* its row, and the numbers of codes are never used twice.
THEOREM OneSessionPerCodeHolds == Spec => []OneSessionPerCode
<1>1. Inv => OneSessionPerCode
  BY DEF Inv
<1>. QED
  BY <1>1, InvCorrect, PTL

\* When the reply to a sign-out is on its way the session is over, whichever of its
\* tokens the request carried.
THEOREM SignedOutIsOverHolds == Spec => []SignedOutIsOver
<1>1. Inv => SignedOutIsOver
  BY DEF Inv
<1>. QED
  BY <1>1, InvCorrect, PTL

\* A revoked or expired session is never changed again.
THEOREM OverStaysOverHolds == Spec => OverStaysOver
<1>1. Inv /\ [Next]_vars =>
        [\A s \in Sessions : session[s].state = "over" => session'[s] = session[s]]_vars
  <2>. SUFFICES ASSUME Inv, [Next]_vars, NEW s \in Sessions, session[s].state = "over"
                PROVE  session'[s] = session[s]
    OBVIOUS
  <2>1. TypeInv /\ Steps
    BY EveryStep DEF Inv
  <2>2. NoneOpened \/ \E z \in Sessions, a \in Accounts, i \in Ids : OneOpened(z, a, i)
    <3>1. ASSUME NEW r \in Requests, NEW a \in Accounts, NEW i \in Ids, CreateSession(r, a, i)
          PROVE  \E z \in Sessions : OneOpened(z, a, i)
      BY <2>1, <3>1, CreateSessionWaits
    <3>2. ASSUME NEW r \in Requests, ConsumeCode(r), ~NoneOpened
          PROVE  \E a \in Accounts, i \in Ids : CreateSession(r, a, i)
      BY <2>1, <3>2, ConsumeCodeSteps, OtpAccount
    <3>3. ASSUME NEW r \in Requests, Login(r), ~NoneOpened
          PROVE  \E a \in Accounts, i \in Ids : CreateSession(r, a, i)
      BY <2>1, <3>3, LoginSteps
    <3>. QED
      BY <2>1, <3>1, <3>2, <3>3 DEF Steps
  <2>. QED
    BY <2>2 DEF NoneOpened, OneOpened, Kept, Live
<1>. QED
  BY <1>1, InvCorrect, PTL DEF Spec, OverStaysOver

\* A session is opened for the account that has the address when it is opened, and
\* the code of that address was given: between the check of the code and the sign-in
\* the address may have gone to another account.
THEOREM SignInOpensHolderHolds == Spec => SignInOpensHolder
<1>. DEFINE A == \A s \in Sessions :
                   ~(session[s].state = "unused" /\ session'[s].state # "unused") \/
                   \E x \in Addresses :
                     /\ email'[session'[s].owner] = x
                     /\ <<session'[s].code, x>> \in answered'
<1>1. Inv /\ [Next]_vars => [A]_vars
  <2>. SUFFICES ASSUME Inv, [Next]_vars PROVE A
    OBVIOUS
  <2>1. TypeInv /\ LoginInv /\ Steps
    BY EveryStep DEF Inv
  <2>2. CASE NoneOpened
    BY <2>2 DEF NoneOpened, Kept, Live
  <2>3. ASSUME NEW r \in Requests, NEW a \in Accounts, NEW i \in Ids, CreateSession(r, a, i),
               email'[a] \in Addresses, <<i, email'[a]>> \in answered'
        PROVE  A
    <3>1. PICK z \in Sessions : OneOpened(z, a, i)
      BY <2>1, <2>3, CreateSessionWaits
    <3>2. ASSUME NEW s \in Sessions, session[s].state = "unused", session'[s].state # "unused"
          PROVE  s = z
      BY <3>1, <3>2 DEF OneOpened, Kept, Live
    <3>3. session'[z].owner = a /\ session'[z].code = i
      BY <3>1 DEF OneOpened
    <3>. QED
      BY <2>3, <3>2, <3>3
  <2>4. ASSUME NEW r \in Requests, ConsumeCode(r), ~NoneOpened PROVE A
    <3>1. /\ req[r].address \in Addresses /\ req[r].id \in Ids
          /\ answered' = answered \union {<<req[r].id, req[r].address>>}
          /\ CreateOtpAccount(r, req[r].address, req[r].id)
      BY <2>1, <2>4, ConsumeCodeSteps
    <3>2. PICK a \in Accounts : CreateSession(r, a, req[r].id) /\ email'[a] = req[r].address
      BY <2>1, <3>1, OtpAccount
    <3>. QED
      BY <2>3, <3>1, <3>2
  <2>5. ASSUME NEW r \in Requests, Login(r), ~NoneOpened PROVE A
    <3>1. /\ UNCHANGED accountVars /\ req[r].pc = "login" /\ req[r].address \in Addresses
          /\ req[r].id \in Ids
      BY <2>1, <2>5, LoginSteps
    <3>2. PICK a \in Accounts : CreateSession(r, a, req[r].id) /\ email[a] = req[r].address
      BY <2>1, <2>5, LoginSteps
    <3>3. <<req[r].id, req[r].address>> \in answered'
      BY <2>1, <3>1 DEF LoginInv, accountVars
    <3>. QED
      BY <2>3, <3>1, <3>2, <3>3 DEF accountVars
  <2>. HIDE DEF A
  <2>. QED
    BY <2>1, <2>2, <2>4, <2>5 DEF Steps
<1>. QED
  BY <1>1, InvCorrect, PTL DEF Spec, SignInOpensHolder

\* An account gets another address only with the codes of one and the same request,
\* sent to the address that it has and to the one that it gets.
THEOREM ChangeProvesBothHolds == Spec => ChangeProvesBoth
<1>. DEFINE A == \A a \in Accounts :
                   email[a] # NoAddress /\ email'[a] # email[a] =>
                     \E i \in Ids : {<<i, email[a]>>, <<i, email'[a]>>} \subseteq answered'
<1>1. Inv /\ [Next]_vars => [A]_vars
  <2>. SUFFICES ASSUME Inv, [Next]_vars, NEW a \in Accounts,
                       email[a] # NoAddress, email'[a] # email[a]
                PROVE  \E i \in Ids : {<<i, email[a]>>, <<i, email'[a]>>} \subseteq answered'
    OBVIOUS
  <2>1. TypeInv /\ VerifiedInv /\ Steps
    BY EveryStep DEF Inv
  <2>2. PICK o \in Accounts, x \in Addresses :
          /\ email' = [email EXCEPT ![o] = x]
          /\ email[o] = NoAddress \/ \E r \in Requests : Confirm(r)
    BY <2>1, EmailSteps
  <2>3. o = a
    BY <2>2, TypeFacts, <2>1
  <2>4. PICK r \in Requests : Confirm(r)
    BY <2>2, <2>3
  <2>5. PICK u \in Accounts, side \in Sides :
          /\ change[u].id \in Ids /\ change[u].from = email[u] /\ change[u].to \in Addresses
          /\ email' = [email EXCEPT ![u] = change[u].to]
          /\ Sides \ change[u].verified = {side}
          /\ answered' = answered \union
               {<<change[u].id, IF side = "current" THEN change[u].from ELSE change[u].to>>}
    BY <2>1, <2>4, ConfirmChanges
  <2>6. u = a /\ email'[a] = change[a].to
    BY <2>1, <2>5, TypeFacts
  <2>7. "current" \in change[a].verified \/ side = "current"
    BY <2>5, <2>6 DEF Sides
  <2>8. "new" \in change[a].verified \/ side = "new"
    BY <2>5, <2>6 DEF Sides
  <2>9. <<change[a].id, change[a].from>> \in answered'
    BY <2>1, <2>5, <2>6, <2>7 DEF VerifiedInv
  <2>10. <<change[a].id, change[a].to>> \in answered'
    BY <2>1, <2>5, <2>6, <2>8 DEF VerifiedInv
  <2>. QED
    BY <2>5, <2>6, <2>9, <2>10
<1>. QED
  BY <1>1, InvCorrect, PTL DEF Spec, ChangeProvesBoth
=============================================================================
