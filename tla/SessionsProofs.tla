----------------------------- MODULE SessionsProofs -----------------------------
(***************************************************************************)
(* Proofs about Sessions, for any set of accounts, threads, sessions,      *)
(* flows and any bounds: type correctness; that a single sign-on flow      *)
(* completes one sign-in at most; that sessions are earned; and that       *)
(* nobody is locked out silently.                                          *)
(***************************************************************************)
EXTENDS Sessions, TLAPS

\* What the fields of a request say of each other.
Fit(r) ==
    /\ r.kind \in {"login", "change"} => r.step = "verified"
    /\ r.kind \in Administered => r.step \in {"apply", "tell"}
    /\ r.step \in {"verified", "apply", "tell"} => r.user \in Users
    /\ r.step = "tell" => r.password # Unknown /\ r.kind \in Generated
    /\ r.step = "claims" => r.flow \in Flows
AllFit == \A h \in Threads : Fit(req[h])

\* A callback under way has the write lock, and its flow is still there.
Consuming ==
    \A h \in Threads : req[h].step = "claims" => writer = h /\ db.flows[req[h].flow] = "open"

\* A flow that has signed somebody in is gone.
SpentIsGone == \A f \in Flows : signed[f] = 0 \/ (signed[f] = 1 /\ db.flows[f] = "gone")

IInv == TypeOK /\ AllFit /\ Consuming /\ SpentIsGone

-----------------------------------------------------------------------------
(* Types of what transactions write.                                        *)

LEMMA IdleType == Idle \in Request /\ Fit(Idle) /\ Idle.step = "idle"
BY BoundsAssumption DEF Idle, Request, Fit, Passwords, Unknown, Administered, Generated

LEMMA PasswordType ==
    ASSUME TypeOK
    PROVE  /\ CanIssue => Fresh \in Passwords \ {Unknown}
           /\ \A u \in Users : db.users[u] \in Account
           /\ \A u \in Users : db.users[u].password \in Passwords
BY BoundsAssumption DEF TypeOK, CanIssue, Fresh, Passwords, Unknown, Database, Account

LEMMA BornType ==
    ASSUME NEW p \in Passwords, NEW forced \in BOOLEAN PROVE Born(p, forced) \in Account
BY DEF Born, Unborn, Account, Passwords, Unknown

\* An account is written, flows are not.
LEMMA AccountType ==
    ASSUME NEW d \in Database, NEW u \in Users, NEW a \in Account
    PROVE  /\ [d EXCEPT !.users[u] = a] \in Database
           /\ [d EXCEPT !.users[u] = a].flows = d.flows
<1>1. [d.users EXCEPT ![u] = a] \in [Users -> Account]
  BY DEF Database
<1> QED BY <1>1 DEF Database

LEMMA RevokeType ==
    ASSUME NEW d \in Database, NEW u \in Users
    PROVE  Revoke(d, u) \in Database /\ Revoke(d, u).flows = d.flows
<1> DEFINE a  == [d.users[u] EXCEPT !.revoked = @ + 1]
           ss == [s \in Sids |-> IF d.sessions[s].user = u THEN NoSession ELSE d.sessions[s]]
<1>1. a \in Account
  <2>1. d.users[u] \in Account
    BY DEF Database
  <2> QED BY <2>1 DEF Account
<1>2. ss \in [Sids -> Session \cup {NoSession}]
  BY DEF Database
<1>3. Revoke(d, u) = [d EXCEPT !.users = [d.users EXCEPT ![u] = a], !.sessions = ss]
  BY DEF Revoke
<1> HIDE DEF a, ss
<1>4. [d.users EXCEPT ![u] = a] \in [Users -> Account]
  BY <1>1 DEF Database
<1> QED BY <1>2, <1>3, <1>4 DEF Database

LEMMA SetPasswordType ==
    ASSUME NEW d \in Database, NEW u \in Users, NEW p \in Passwords, NEW forced \in BOOLEAN
    PROVE  SetPassword(d, u, p, forced) \in Database /\ SetPassword(d, u, p, forced).flows = d.flows
<1> DEFINE a == [d.users[u] EXCEPT !.password = p, !.forced = forced]
           e == [d EXCEPT !.users[u].password = p, !.users[u].forced = forced]
<1>1. a \in Account
  <2>1. d.users[u] \in Account
    BY DEF Database
  <2> QED BY <2>1 DEF Account
<1>2. e = [d EXCEPT !.users = [d.users EXCEPT ![u] = a]]
  BY DEF Database, Account
<1> HIDE DEF a
<1>3. e \in Database /\ e.flows = d.flows
  BY <1>1, <1>2 DEF Database
<1>4. SetPassword(d, u, p, forced) = Revoke(e, u)
  BY DEF SetPassword
<1> HIDE DEF e
<1> QED BY <1>3, <1>4, RevokeType

LEMMA AdmitType ==
    ASSUME TypeOK, NEW d \in Database, NEW s \in Sids, NEW u \in Users,
           NEW method \in {"local", "sso"}, NEW revoked, Admit(d, s, u, method, revoked)
    PROVE  db' \in Database /\ db'.flows = d.flows
<1> DEFINE x == [user |-> u, method |-> method, revoked |-> d.users[u].revoked,
                 late |-> revoked # db.users[u].revoked]
<1>1. x \in Session
  BY DEF Session, Database, Account
<1>2. db' = [d EXCEPT !.sessions[s] = x]
  BY DEF Admit
<1> HIDE DEF x
<1> QED BY <1>1, <1>2 DEF Database

-----------------------------------------------------------------------------
(* Steps of one request.                                                    *)

\* One request goes on; no flow and no lock changes hands.
LEMMA Advances ==
    ASSUME IInv, NEW h \in Threads, NEW r \in Request, Goes(h, r), Fit(r),
           req[h].step # "claims", r.step # "claims",
           h \in Workers /\ r.step # "idle" => server' = "up",
           server' \in {server, "up"}, writer' = writer, signed' = signed,
           db' \in Database, db'.flows = db.flows,
           file' \in Passwords, told' \subseteq Passwords \ {Unknown}, lost' \subseteq Users,
           issued' \in Passwords, served' \in 0 .. MaxRequests, mishaps' \in 0 .. MaxMishaps
    PROVE  IInv'
<1>1. req' \in [Threads -> Request] /\ \A i \in Threads : req'[i] = IF i = h THEN r ELSE req[i]
  BY DEF Goes, IInv, TypeOK
<1>2. AllFit'
  BY <1>1 DEF AllFit, IInv, Fit
<1>3. Consuming'
  BY <1>1 DEF Consuming, IInv
<1>4. SpentIsGone'
  BY DEF SpentIsGone, IInv
<1>5. Workers \subseteq Threads
  BY DEF Threads
<1>6. writer' # NoRequest => req'[writer'].step = "claims"
  BY <1>1, <1>5 DEF IInv, TypeOK
<1>7. \A i \in Workers : req'[i].step # "idle" => server' = "up"
  BY <1>1, <1>5 DEF IInv, TypeOK
<1> QED BY <1>1, <1>2, <1>3, <1>4, <1>6, <1>7 DEF IInv, TypeOK

\* A request ends, having written no more than accounts and sessions.
LEMMA EndsInv ==
    ASSUME IInv, NEW h \in Threads, Ends(h), req[h].step # "claims",
           db' \in Database, db'.flows = db.flows,
           UNCHANGED <<writer, server, file, history, bounds>>
    PROVE  IInv'
BY Advances, IdleType DEF Ends, IInv, TypeOK, history, bounds

LEMMA BeginInv ==
    ASSUME IInv, NEW h \in Threads, NEW u \in Users,
           NEW kind \in {"login", "change"} \cup Administered, NEW step \in {"verified", "apply"},
           step = IF kind \in {"login", "change"} THEN "verified" ELSE "apply",
           Begin(h, kind, step, u)
    PROVE  IInv'
<1> DEFINE r == [Idle EXCEPT !.kind = kind, !.step = step, !.user = u,
                             !.password = db.users[u].password, !.revoked = db.users[u].revoked]
<1>1. db.users[u].password \in Passwords /\ db.users[u].revoked \in Nat
  BY PasswordType DEF IInv, Account
<1>2. r \in Request /\ r.kind = kind /\ r.step = step /\ r.user = u
  BY <1>1, IdleType DEF Idle, Request
<1>3. Fit(r)
  BY <1>2 DEF Fit, Administered
<1>4. Goes(h, r) /\ req[h] = Idle
  BY DEF Begin, Serve, Free
<1>5. served' \in 0 .. MaxRequests
  BY BoundsAssumption DEF IInv, TypeOK, Begin, Serve
<1> HIDE DEF r
<1> QED BY <1>2, <1>3, <1>4, <1>5, IdleType, Advances DEF Begin, IInv, TypeOK, history

-----------------------------------------------------------------------------
(* Passwords and accounts.                                                  *)

LEMMA LoginInv ==
    ASSUME IInv, NEW h \in Threads, FinishLogin(h) \/ LoginFails(h) \/ BusyTimeout(h)
    PROVE  IInv'
<1>1. CASE FinishLogin(h)
  <2>1. req[h].step = "verified" /\ req[h].user \in Users
    BY <1>1 DEF FinishLogin, IInv, AllFit, Fit
  <2>2. db' \in Database /\ db'.flows = db.flows
    BY <1>1, <2>1, AdmitType DEF FinishLogin, IInv, TypeOK
  <2> QED BY <1>1, <2>1, <2>2, EndsInv DEF FinishLogin
<1>2. CASE LoginFails(h) \/ BusyTimeout(h)
  BY <1>2, EndsInv DEF LoginFails, BusyTimeout, IInv, TypeOK
<1> QED BY <1>1, <1>2

LEMMA ChangeInv == ASSUME IInv, NEW h \in Threads, FinishChange(h) PROVE IInv'
<1>1. req[h].step = "verified" /\ req[h].user \in Users
  BY DEF FinishChange, IInv, AllFit, Fit
<1>2. Fresh \in Passwords \ {Unknown}
  BY PasswordType DEF FinishChange, IInv
<1> DEFINE d == SetPassword(db, req[h].user, Fresh, FALSE)
<1>3. d \in Database /\ d.flows = db.flows
  BY <1>1, <1>2, SetPasswordType DEF IInv, TypeOK
<1>4. PICK s \in Sids : Admit(d, s, req[h].user, "local", req[h].revoked)
  BY DEF FinishChange
<1> HIDE DEF d
<1>5. db' \in Database /\ db'.flows = db.flows
  BY <1>1, <1>3, <1>4, AdmitType DEF IInv
<1> QED BY <1>1, <1>2, <1>5, IdleType, Advances DEF FinishChange, Ends, Issue, IInv, TypeOK

\* A request that has generated a password is about to tell it.
LEMMA AnswersType ==
    ASSUME IInv, NEW h \in Threads, req[h].kind \in {"newUser", "reset"}, req[h].step = "apply",
           CanIssue
    PROVE  LET r == [req[h] EXCEPT !.step = "tell", !.password = Fresh] IN
           r \in Request /\ Fit(r) /\ r.step = "tell"
<1>1. Fresh \in Passwords \ {Unknown}
  BY PasswordType DEF IInv
<1>2. req[h] \in Request /\ Fit(req[h])
  BY DEF IInv, TypeOK, AllFit
<1> QED BY <1>1, <1>2 DEF Request, Fit, Administered, Generated

LEMMA CreateInv == ASSUME IInv, NEW h \in Threads, CreateUser(h) PROVE IInv'
<1> DEFINE r == [req[h] EXCEPT !.step = "tell", !.password = Fresh]
<1>1. r \in Request /\ Fit(r) /\ r.step = "tell" /\ Goes(h, r)
  BY AnswersType DEF CreateUser, Answers
<1>2. Fresh \in Passwords \ {Unknown} /\ req[h].user \in Users
  BY PasswordType DEF CreateUser, IInv, AllFit, Fit
<1>3. Born(Fresh, TRUE) \in Account
  BY <1>2, BornType
<1>4. db' \in Database /\ db'.flows = db.flows
  BY <1>2, <1>3, AccountType DEF CreateUser, IInv, TypeOK
<1>5. h \in Workers => server = "up"
  BY DEF CreateUser, IInv, TypeOK
<1> HIDE DEF r
<1> QED BY <1>1, <1>2, <1>4, <1>5, Advances DEF CreateUser, Issue, IInv, TypeOK, history

LEMMA ResetInv == ASSUME IInv, NEW h \in Threads, ResetPassword(h) PROVE IInv'
<1> DEFINE r == [req[h] EXCEPT !.step = "tell", !.password = Fresh]
<1>1. r \in Request /\ Fit(r) /\ r.step = "tell" /\ Goes(h, r)
  BY AnswersType DEF ResetPassword, Answers
<1>2. Fresh \in Passwords \ {Unknown} /\ req[h].user \in Users
  BY PasswordType DEF ResetPassword, IInv, AllFit, Fit
<1>3. db' \in Database /\ db'.flows = db.flows
  BY <1>2, SetPasswordType DEF ResetPassword, IInv, TypeOK
<1>4. h \in Workers => server = "up"
  BY DEF ResetPassword, IInv, TypeOK
<1> HIDE DEF r
<1> QED BY <1>1, <1>2, <1>3, <1>4, Advances DEF ResetPassword, Issue, IInv, TypeOK, history

LEMMA UpdateInv == ASSUME IInv, NEW h \in Threads, UpdateUser(h) PROVE IInv'
<1>1. req[h].step # "claims" /\ req[h].user \in Users
  BY DEF UpdateUser, IInv, AllFit, Fit, Administered
<1> DEFINE a(active) == [db.users[req[h].user] EXCEPT !.active = active]
           d(active) == [db EXCEPT !.users[req[h].user].active = active]
<1>2. ASSUME NEW active \in BOOLEAN
      PROVE  d(active) \in Database /\ d(active).flows = db.flows
  <2>1. db.users[req[h].user] \in Account
    BY <1>1, PasswordType DEF IInv
  <2>2. a(active) \in Account
    BY <2>1 DEF Account
  <2>3. d(active) = [db EXCEPT !.users[req[h].user] = a(active)]
    OBVIOUS
  <2> HIDE DEF a, d
  <2> QED BY <1>1, <2>2, <2>3, AccountType DEF IInv, TypeOK
<1>3. db' = Revoke(d(FALSE), req[h].user) \/ db' = d(TRUE)
  BY DEF UpdateUser
<1> HIDE DEF d
<1>4. db' \in Database /\ db'.flows = db.flows
  BY <1>1, <1>2, <1>3, RevokeType
<1> QED BY <1>1, <1>4, EndsInv DEF UpdateUser

LEMMA DeleteInv == ASSUME IInv, NEW h \in Threads, DeleteUser(h) PROVE IInv'
<1>1. req[h].step # "claims" /\ req[h].user \in Users
  BY DEF DeleteUser, IInv, AllFit, Fit, Administered
<1> DEFINE d == Revoke(db, req[h].user)
           a == [d.users[req[h].user] EXCEPT !.state = "deleted"]
<1>2. d \in Database /\ d.flows = db.flows
  BY <1>1, RevokeType DEF IInv, TypeOK
<1>3. d.users[req[h].user] \in Account
  BY <1>1, <1>2 DEF Database
<1>4. db' = [d EXCEPT !.users[req[h].user] = a]
  BY DEF DeleteUser
<1> HIDE DEF d
<1>5. a \in Account
  BY <1>3 DEF Account
<1> HIDE DEF a
<1>6. db' \in Database /\ db'.flows = db.flows
  BY <1>1, <1>2, <1>4, <1>5, AccountType
<1> QED BY <1>1, <1>6, EndsInv DEF DeleteUser

LEMMA AdministrationFailsInv ==
    ASSUME IInv, NEW h \in Threads, AdministrationFails(h) PROVE IInv'
BY EndsInv DEF AdministrationFails, IInv, TypeOK

-----------------------------------------------------------------------------
(* Sessions and flows.                                                      *)

\* While nobody writes, no callback is under way.
LEMMA NobodyConsumes ==
    ASSUME IInv, writer = NoRequest PROVE \A h \in Threads : req[h].step # "claims"
BY ThreadsAssumption DEF IInv, Consuming, Threads

LEMMA LogoutInv == ASSUME IInv, NEW s \in Sids, Logout(s) PROVE IInv'
<1>1. db' \in Database /\ db'.flows = db.flows
  BY DEF Logout, IInv, TypeOK, Database
<1> QED BY <1>1 DEF Logout, IInv, TypeOK, AllFit, Consuming, SpentIsGone, history, bounds

LEMMA FlowInv ==
    ASSUME IInv, NEW f \in Flows, StartSso(f) \/ FlowExpires(f) PROVE IInv'
<1>1. db' \in Database
  BY DEF StartSso, FlowExpires, IInv, TypeOK, Database
<1>2. \A g \in Flows : db.flows[g] = "gone" => db'.flows[g] = "gone"
  BY DEF StartSso, FlowExpires, IInv, TypeOK, Database
<1>3. \A h \in Threads : req[h].step # "claims"
  BY NobodyConsumes DEF StartSso, FlowExpires
<1> QED BY <1>1, <1>2, <1>3
        DEF StartSso, FlowExpires, IInv, TypeOK, AllFit, Consuming, SpentIsGone, history, bounds

LEMMA ConsumeInv == ASSUME IInv, NEW h \in Threads, NEW f \in Flows, Consume(h, f) PROVE IInv'
<1> DEFINE r == [Idle EXCEPT !.kind = "callback", !.step = "claims", !.flow = f]
<1>1. r \in Request /\ r.kind = "callback" /\ r.step = "claims" /\ r.flow = f
  BY IdleType DEF Idle, Request
<1>2. Fit(r)
  BY <1>1 DEF Fit, Administered
<1>3. req' = [req EXCEPT ![h] = r] /\ writer = NoRequest /\ writer' = h /\ h \in Workers
  BY DEF Consume, Goes
<1> HIDE DEF r
<1>4. req' \in [Threads -> Request] /\ \A i \in Threads : req'[i] = IF i = h THEN r ELSE req[i]
  BY <1>1, <1>3 DEF IInv, TypeOK
<1>5. AllFit'
  BY <1>2, <1>4 DEF AllFit, IInv, Fit
<1>6. Consuming'
  BY <1>1, <1>3, <1>4, NobodyConsumes DEF Consuming, Consume
<1>7. SpentIsGone'
  BY DEF SpentIsGone, IInv, Consume, history
<1>8. served' \in 0 .. MaxRequests
  BY BoundsAssumption DEF IInv, TypeOK, Consume, Serve
<1>9. Workers \subseteq Threads
  BY DEF Threads
<1> QED BY <1>1, <1>3, <1>4, <1>5, <1>6, <1>7, <1>8, <1>9 DEF Consume, IInv, TypeOK, history

\* The callback under way ends: nobody has the write lock.
LEMMA CallbackEnds ==
    ASSUME IInv, NEW h \in Threads, req[h].step = "claims", Ends(h), writer' = NoRequest
    PROVE  /\ req' \in [Threads -> Request] /\ AllFit'
           /\ \A i \in Threads : req'[i].step # "claims"
           /\ \A i \in Workers : req'[i].step # "idle" => server = "up"
<1>1. req' \in [Threads -> Request] /\ \A i \in Threads : req'[i] = IF i = h THEN Idle ELSE req[i]
  BY IdleType DEF Ends, Goes, IInv, TypeOK
<1>2. AllFit'
  BY <1>1, IdleType DEF AllFit, IInv, Fit
<1>3. \A i \in Threads : req'[i].step # "claims"
  BY <1>1, IdleType DEF IInv, Consuming
<1> QED BY <1>1, <1>2, <1>3, IdleType DEF IInv, TypeOK, Threads

LEMMA RefusedInv == ASSUME IInv, NEW h \in Threads, Refused(h) PROVE IInv'
<1>1. /\ req' \in [Threads -> Request] /\ AllFit'
      /\ \A i \in Threads : req'[i].step # "claims"
      /\ \A i \in Workers : req'[i].step # "idle" => server = "up"
  BY CallbackEnds DEF Refused
<1> QED BY <1>1 DEF Refused, IInv, TypeOK, Consuming, SpentIsGone, history, bounds

LEMMA CompleteInv == ASSUME IInv, NEW h \in Threads, NEW m \in Mails, Complete(h, m) PROVE IInv'
<1> DEFINE f == req[h].flow
           d == [db EXCEPT !.flows[f] = "gone"]
           e(u) == [d EXCEPT !.users[u] = Born(Unknown, FALSE)]
<1>1. req[h].step = "claims" /\ f \in Flows /\ db.flows[f] = "open"
  BY DEF Complete, IInv, AllFit, Fit, Consuming
<1>2. d \in Database /\ d.flows = [db.flows EXCEPT ![f] = "gone"]
  BY <1>1 DEF IInv, TypeOK, Database
<1>3. \A u \in Users : e(u) \in Database /\ e(u).flows = d.flows
  <2>0. Unknown \in Passwords
    BY BoundsAssumption DEF Passwords, Unknown
  <2>1. Born(Unknown, FALSE) \in Account
    BY <2>0, BornType
  <2> HIDE DEF d
  <2> QED BY <1>2, <2>1, AccountType
<1>4. \E s \in Sids, u \in Users :
         \/ Admit(d, s, u, "sso", db.users[u].revoked)
         \/ Admit(e(u), s, u, "sso", db.users[u].revoked)
  BY DEF Complete, SignsInAs, Provisioned, Addressed
<1> HIDE DEF d, e
<1>5. db' \in Database /\ db'.flows = d.flows
  BY <1>2, <1>3, <1>4, AdmitType DEF IInv
<1>6. signed[f] = 0 /\ signed' = [signed EXCEPT ![f] = 1]
  <2>1. signed[f] = 0
    BY <1>1 DEF IInv, SpentIsGone
  <2>2. signed' = [signed EXCEPT ![f] = signed[f] + 1]
    BY DEF Complete
  <2> QED BY <2>1, <2>2
<1>7. SpentIsGone' /\ signed' \in [Flows -> Nat]
  BY <1>1, <1>2, <1>5, <1>6 DEF IInv, SpentIsGone, TypeOK, Database
<1>8. /\ req' \in [Threads -> Request] /\ AllFit'
      /\ \A i \in Threads : req'[i].step # "claims"
      /\ \A i \in Workers : req'[i].step # "idle" => server = "up"
  BY <1>1, CallbackEnds DEF Complete
<1> QED BY <1>5, <1>7, <1>8 DEF Complete, IInv, TypeOK, Consuming, bounds

-----------------------------------------------------------------------------
(* The server's start, the way back in, and mishaps.                        *)

\* The first administrator's request, and that of reset-admin-password.
LEMMA TellingType ==
    ASSUME IInv, CanIssue, NEW kind \in {"boot", "console"}
    PROVE  LET r == [Idle EXCEPT !.kind = kind, !.step = "tell", !.user = Root,
                                 !.password = Fresh] IN
           r \in Request /\ Fit(r) /\ r.step = "tell"
<1>1. Fresh \in Passwords \ {Unknown} /\ Root \in Users
  BY PasswordType, UsersAssumption DEF IInv
<1> QED BY <1>1, IdleType DEF Idle, Request, Fit, Generated, Administered

\* The accounts of users are filled in, flows are not.
LEMMA RootBorn ==
    ASSUME IInv, CanIssue
    PROVE  LET d == [db EXCEPT !.users[Root] = Born(Fresh, TRUE)] IN
           d \in Database /\ d.flows = db.flows
<1>1. Fresh \in Passwords
  BY PasswordType DEF IInv
<1>2. Born(Fresh, TRUE) \in Account /\ Root \in Users
  BY <1>1, BornType, UsersAssumption
<1> QED BY <1>2, AccountType DEF IInv, TypeOK

LEMMA StartInv == ASSUME IInv, Start PROVE IInv'
<1>1. Boot \in Threads \ Workers /\ Workers \subseteq Threads
  BY ThreadsAssumption DEF Threads
<1>2. writer = NoRequest
  BY IdleType DEF Start, IInv, TypeOK
<1>3. CASE server' = "up" /\ UNCHANGED <<db, req, issued>>
  BY <1>3 DEF Start, IInv, TypeOK, AllFit, Consuming, SpentIsGone, history
<1>4. CASE FirstRun /\ server' = "starting"
  <2> DEFINE r == [Idle EXCEPT !.kind = "boot", !.step = "tell", !.user = Root,
                               !.password = Fresh]
  <2>1. CanIssue /\ r \in Request /\ Fit(r) /\ r.step = "tell" /\ Goes(Boot, r)
    BY <1>4, TellingType DEF FirstRun, Start
  <2> HIDE DEF r
  <2>2. /\ req' \in [Threads -> Request]
        /\ \A i \in Threads : req'[i] = IF i = Boot THEN r ELSE req[i]
    BY <1>1, <2>1 DEF Goes, IInv, TypeOK
  <2>3. AllFit'
    BY <2>1, <2>2 DEF AllFit, IInv, Fit
  <2>4. Consuming'
    BY <1>2, <2>1, <2>2, NobodyConsumes DEF Consuming
  <2>5. db' \in Database /\ db'.flows = db.flows
    BY <1>4, <2>1, RootBorn DEF Start
  <2>6. issued' \in Passwords
    BY <1>4, <2>1, PasswordType DEF Start, Issue, IInv
  <2>7. \A i \in Workers : req'[i].step = "idle"
    BY <1>1, <2>2 DEF Start, IInv, TypeOK
  <2> QED BY <1>2, <1>4, <2>2, <2>3, <2>4, <2>5, <2>6, <2>7
          DEF Start, IInv, TypeOK, SpentIsGone, history
<1> QED BY <1>3, <1>4 DEF Start

LEMMA ResetAdminInv == ASSUME IInv, ResetAdmin PROVE IInv'
<1> DEFINE r == [Idle EXCEPT !.kind = "console", !.step = "tell", !.user = Root,
                             !.password = Fresh]
<1>1. CanIssue /\ r \in Request /\ Fit(r) /\ r.step = "tell" /\ Goes(Console, r)
  BY TellingType DEF ResetAdmin
<1>2. Console \in Threads \ Workers
  BY ThreadsAssumption DEF Threads
<1>3. Fresh \in Passwords \ {Unknown} /\ Root \in Users
  BY <1>1, PasswordType, UsersAssumption DEF IInv
<1>4. db' \in Database /\ db'.flows = db.flows
  <2>1. CASE db' = SetPassword(db, Root, Fresh, TRUE)
    BY <1>3, <2>1, SetPasswordType DEF IInv, TypeOK
  <2>2. CASE db' = [db EXCEPT !.users[Root] = Born(Fresh, TRUE)]
    BY <1>1, <2>2, RootBorn
  <2> QED BY <2>1, <2>2 DEF ResetAdmin
<1>5. served' \in 0 .. MaxRequests /\ req[Console].step # "claims"
  BY BoundsAssumption, IdleType DEF IInv, TypeOK, ResetAdmin, Serve, Free
<1> HIDE DEF r
<1> QED BY <1>1, <1>2, <1>3, <1>4, <1>5, Advances DEF ResetAdmin, Issue, IInv, TypeOK, history

LEMMA TellInv == ASSUME IInv, NEW h \in Threads, Tell(h) PROVE IInv'
<1>1. req[h].step = "tell" /\ req[h].password \in Passwords \ {Unknown}
  BY DEF Tell, IInv, TypeOK, AllFit, Fit, Request
<1>2. file' \in Passwords /\ told' \subseteq Passwords \ {Unknown} /\ lost' \subseteq Users
  BY <1>1 DEF Tell, IInv, TypeOK
<1>3. server' \in {server, "up"}
  BY DEF Tell
<1> QED BY <1>1, <1>2, <1>3, IdleType, Advances DEF Tell, Ends, IInv, TypeOK, bounds

LEMMA InterruptInv == ASSUME IInv, Interrupt PROVE IInv'
<1>1. Console \in Threads \ Workers
  BY ThreadsAssumption DEF Threads
<1>2. req[Console].step # "claims"
  BY <1>1, ThreadsAssumption DEF IInv, TypeOK, Consuming, Threads
<1>3. lost' \subseteq Users
  BY DEF Interrupt, IInv, TypeOK, Untold
<1>4. mishaps' \in 0 .. MaxMishaps
  BY BoundsAssumption DEF Interrupt, IInv, TypeOK
<1> QED BY <1>1, <1>2, <1>3, <1>4, IdleType, Advances DEF Interrupt, Ends, IInv, TypeOK

LEMMA CrashInv == ASSUME IInv, Crash PROVE IInv'
<1>1. /\ req' \in [Threads -> Request]
      /\ \A i \in Threads : req'[i] = IF i = Console THEN req[Console] ELSE Idle
  BY IdleType DEF Crash, IInv, TypeOK
<1>2. req[Console].step # "claims" /\ Workers \subseteq Threads \ {Console}
  BY ThreadsAssumption DEF IInv, TypeOK, Consuming, Threads
<1>3. AllFit'
  BY <1>1, IdleType DEF AllFit, IInv, Fit
<1>4. \A i \in Threads : req'[i].step # "claims"
  BY <1>1, <1>2, IdleType
<1>5. \A i \in Workers : req'[i].step = "idle"
  BY <1>1, <1>2, IdleType
<1>6. lost' \subseteq Users
  BY DEF Crash, IInv, TypeOK, Untold
<1>7. mishaps' \in 0 .. MaxMishaps
  BY BoundsAssumption DEF Crash, IInv, TypeOK
<1> QED BY <1>1, <1>3, <1>4, <1>5, <1>6, <1>7
        DEF Crash, IInv, TypeOK, Consuming, SpentIsGone

-----------------------------------------------------------------------------
(* The invariant.                                                           *)

LEMMA InitInv == Init => IInv
<1> SUFFICES ASSUME Init PROVE IInv
  OBVIOUS
<1>1. Unborn \in Account /\ Unknown \in Passwords
  BY BoundsAssumption DEF Unborn, Account, Passwords, Unknown
<1>2. db \in Database /\ req \in [Threads -> Request]
  BY <1>1, IdleType DEF Init, Database
<1>3. AllFit /\ Consuming /\ SpentIsGone
  BY IdleType DEF Init, AllFit, Consuming, SpentIsGone
<1>4. \A i \in Workers : req[i].step = "idle"
  BY IdleType DEF Init, Threads
<1> QED BY <1>1, <1>2, <1>3, <1>4, BoundsAssumption DEF Init, IInv, TypeOK, Passwords

LEMMA BeginsInv ==
    ASSUME IInv, NEW h \in Threads,
           \/ \E u \in Users : BeginLogin(h, u)
           \/ \E s \in Sids : BeginChange(h, s)
           \/ \E s \in Sids, op \in Administered, u \in Users : BeginAdministration(h, s, op, u)
    PROVE  IInv'
<1>1. CASE \E u \in Users : BeginLogin(h, u)
  BY <1>1, BeginInv DEF BeginLogin
<1>2. CASE \E s \in Sids : BeginChange(h, s)
  <2>1. PICK s \in Sids : BeginChange(h, s)
    BY <1>2
  <2>2. Holder(s) \in Users
    BY <2>1 DEF BeginChange, SignedIn, Open, Holder, IInv, TypeOK, Database, Session
  <2> QED BY <2>1, <2>2, BeginInv DEF BeginChange
<1>3. CASE \E s \in Sids, op \in Administered, u \in Users : BeginAdministration(h, s, op, u)
  BY <1>3, BeginInv DEF BeginAdministration, Administered
<1> QED BY <1>1, <1>2, <1>3

LEMMA NextInv == IInv /\ [Next]_vars => IInv'
<1> SUFFICES ASSUME IInv, [Next]_vars PROVE IInv'
  OBVIOUS
<1>1. CASE UNCHANGED vars
  BY <1>1 DEF vars, history, bounds, IInv, TypeOK, AllFit, Consuming, SpentIsGone
<1>2. CASE Start \/ ResetAdmin \/ Interrupt \/ Crash
  BY <1>2, StartInv, ResetAdminInv, InterruptInv, CrashInv
<1>3. CASE \E s \in Sids : Logout(s)
  BY <1>3, LogoutInv
<1>4. CASE \E f \in Flows : StartSso(f) \/ FlowExpires(f)
  BY <1>4, FlowInv
<1>5. ASSUME NEW h \in Threads,
             \/ \E f \in Flows : Consume(h, f)
             \/ \E m \in Mails : Complete(h, m)
             \/ Refused(h) \/ Tell(h)
      PROVE  IInv'
  BY <1>5, ConsumeInv, CompleteInv, RefusedInv, TellInv
<1>6. ASSUME NEW h \in Threads,
             \/ FinishLogin(h) \/ LoginFails(h) \/ BusyTimeout(h) \/ FinishChange(h)
             \/ CreateUser(h) \/ ResetPassword(h) \/ UpdateUser(h) \/ DeleteUser(h)
             \/ AdministrationFails(h)
      PROVE  IInv'
  BY <1>6, LoginInv, ChangeInv, CreateInv, ResetInv, UpdateInv, DeleteInv, AdministrationFailsInv
<1> QED BY <1>1, <1>2, <1>3, <1>4, <1>5, <1>6, BeginsInv DEF Next

LEMMA InvHolds == Spec => []IInv
<1> QED BY InitInv, NextInv, PTL DEF Spec

\* Every variable keeps its type, only a callback holds the write lock across steps, and
\* requests are served only by a server that is up.
THEOREM TypeCorrect == Spec => []TypeOK
<1>1. IInv => TypeOK
  BY DEF IInv
<1> QED BY <1>1, InvHolds, PTL

\* A single sign-on flow completes one sign-in at most, for any number of threads, flows,
\* failing callbacks and crashes (consume_flow, oidc_callback).
THEOREM FlowSignsInOnce == Spec => []FlowUsedOnce
<1>1. IInv => FlowUsedOnce
  BY DEF IInv, SpentIsGone, FlowUsedOnce, TypeOK
<1> QED BY <1>1, InvHolds, PTL
-----------------------------------------------------------------------------
(* Sessions are earned.                                                     *)

\* A session of a living account that earned it, in a database d.
EarnedIn(d, x) ==
    /\ d.users[x.user].state = "live"
    /\ x.late \/ (d.users[x.user].active /\ x.revoked = d.users[x.user].revoked)
SoundBut(d, T) ==
    \A s \in Sids : d.sessions[s] # NoSession /\ d.sessions[s].user \notin T
                       => EarnedIn(d, d.sessions[s])
Sound(d) == SoundBut(d, {})

\* What an account becomes: it is born active; once born it stays born, and it loses its
\* access only together with its sessions.
Ages(a, b) ==
    \/ b = a
    \/ a.state = "unborn" /\ b.state = "live" /\ b.active
    \/ a.state # "unborn" /\ b.state # "unborn" /\ a.revoked < b.revoked
    \/ /\ a.state # "unborn" /\ b.state = a.state /\ b.revoked = a.revoked
       /\ a.active => b.active
Aged(d) == \A u \in Users : Ages(db.users[u], d.users[u])

\* A verified password is evidence as long as the sessions of the account have not been
\* revoked, and an account that has lost its access has had them revoked.
Evidence ==
    \A h \in Threads : req[h].step = "verified" =>
        LET a == db.users[req[h].user] IN
        /\ a.state # "unborn" /\ req[h].revoked <= a.revoked
        /\ req[h].revoked = a.revoked => a.state = "live" /\ a.active

EInv == Evidence /\ Sound(db)

LEMMA SoundIsEarned == TypeOK => (Sound(db) <=> SessionsAreEarned)
BY DEF TypeOK, Database, Session, Account, Sound, SoundBut, EarnedIn, SessionsAreEarned, Open,
       Live, Usable

LEMMA AccountsInside ==
    ASSUME NEW d \in Database PROVE \A u \in Users : d.users[u] \in Account
BY DEF Database

\* Revocation takes the sessions of an account away and nobody else's.
LEMMA RevokeSound ==
    ASSUME NEW d \in Database, NEW u \in Users, SoundBut(d, {u})
    PROVE  /\ Sound(Revoke(d, u))
           /\ Revoke(d, u).users = [d.users EXCEPT ![u] = [d.users[u] EXCEPT !.revoked = @ + 1]]
<1>1. Revoke(d, u).users = [d.users EXCEPT ![u] = [d.users[u] EXCEPT !.revoked = @ + 1]]
  BY DEF Revoke, Database
<1>2. Revoke(d, u).sessions
        = [s \in Sids |-> IF d.sessions[s].user = u THEN NoSession ELSE d.sessions[s]]
  BY DEF Revoke, Database
<1> DEFINE e == Revoke(d, u)
<1> HIDE DEF e
<1>3. ASSUME NEW s \in Sids, e.sessions[s] # NoSession PROVE EarnedIn(e, e.sessions[s])
  <2>1. e.sessions[s] = d.sessions[s] /\ d.sessions[s].user # u /\ d.sessions[s] # NoSession
    BY <1>2, <1>3 DEF e
  <2>2. d.sessions[s] \in Session
    BY <2>1 DEF Database
  <2>3. e.users[d.sessions[s].user] = d.users[d.sessions[s].user]
    BY <1>1, <2>1, <2>2 DEF e, Session, Database
  <2> QED BY <2>1, <2>2, <2>3 DEF SoundBut, EarnedIn, Session
<1>4. Sound(e)
  BY <1>3 DEF Sound, SoundBut
<1> QED BY <1>1, <1>4 DEF e

\* An account is rewritten: only its own sessions can be affected.
LEMMA RewriteSound ==
    ASSUME NEW d \in Database, NEW u \in Users, NEW a \in Account, Sound(d)
    PROVE  SoundBut([d EXCEPT !.users[u] = a], {u})
<1> DEFINE e == [d EXCEPT !.users[u] = a]
<1>1. e.sessions = d.sessions /\ e.users = [d.users EXCEPT ![u] = a]
  BY DEF Database
<1> HIDE DEF e
<1>2. ASSUME NEW s \in Sids, e.sessions[s] # NoSession, e.sessions[s].user # u
      PROVE  EarnedIn(e, e.sessions[s])
  <2>1. d.sessions[s] \in Session
    BY <1>1, <1>2 DEF Database
  <2> QED BY <1>1, <1>2, <2>1 DEF Sound, SoundBut, EarnedIn, Session, Database
<1>3. SoundBut(e, {u})
  BY <1>2 DEF SoundBut
<1> QED BY <1>3 DEF e

\* An account that is born, or keeps what its sessions rest on.
LEMMA HarmlessSound ==
    ASSUME NEW d \in Database, NEW u \in Users, NEW a \in Account, Sound(d),
           \/ d.users[u].state = "unborn"
           \/ /\ a.state = d.users[u].state /\ a.revoked = d.users[u].revoked
              /\ d.users[u].active => a.active
    PROVE  Sound([d EXCEPT !.users[u] = a])
<1> DEFINE e == [d EXCEPT !.users[u] = a]
<1>1. e.sessions = d.sessions /\ e.users = [d.users EXCEPT ![u] = a]
  BY DEF Database
<1>2. SoundBut(e, {u})
  BY RewriteSound
<1> HIDE DEF e
<1>3. ASSUME NEW s \in Sids, e.sessions[s] # NoSession, e.sessions[s].user = u
      PROVE  EarnedIn(e, e.sessions[s])
  BY <1>1, <1>3 DEF Sound, SoundBut, EarnedIn, Database
<1>4. Sound(e)
  BY <1>2, <1>3 DEF Sound, SoundBut
<1> QED BY <1>4 DEF e

LEMMA SetPasswordSound ==
    ASSUME NEW d \in Database, NEW u \in Users, NEW p \in Passwords, NEW forced \in BOOLEAN,
           Sound(d)
    PROVE  LET e == SetPassword(d, u, p, forced) IN
           /\ Sound(e)
           /\ \A v \in Users \ {u} : e.users[v] = d.users[v]
           /\ e.users[u].state = d.users[u].state /\ e.users[u].active = d.users[u].active
           /\ e.users[u].revoked = d.users[u].revoked + 1
<1> DEFINE a == [d.users[u] EXCEPT !.password = p, !.forced = forced]
           w == [d EXCEPT !.users[u].password = p, !.users[u].forced = forced]
           e == SetPassword(d, u, p, forced)
<1>1. d.users[u] \in Account
  BY DEF Database
<1>2. /\ a \in Account /\ a.state = d.users[u].state /\ a.active = d.users[u].active
      /\ a.revoked = d.users[u].revoked
  BY <1>1 DEF Account
<1>3. w = [d EXCEPT !.users[u] = a]
  BY DEF Database, Account
<1>4. e = Revoke(w, u)
  BY DEF SetPassword
<1> HIDE DEF w, a, e
<1>5. w \in Database /\ SoundBut(w, {u}) /\ w.users = [d.users EXCEPT ![u] = a]
  BY <1>2, <1>3, AccountType, RewriteSound DEF Database
<1>6. Sound(e) /\ e.users = [w.users EXCEPT ![u] = [w.users[u] EXCEPT !.revoked = @ + 1]]
  BY <1>4, <1>5, RevokeSound
<1>7. w.users[u] = a /\ e.users[u] = [a EXCEPT !.revoked = a.revoked + 1]
  BY <1>2, <1>5, <1>6 DEF Database
<1>8. \A v \in Users \ {u} : e.users[v] = d.users[v]
  BY <1>5, <1>6 DEF Database
<1>9. /\ e.users[u].state = a.state /\ e.users[u].active = a.active
      /\ e.users[u].revoked = a.revoked + 1
  BY <1>2, <1>7 DEF Account
<1> QED BY <1>2, <1>6, <1>8, <1>9 DEF e

LEMMA AdmitSound ==
    ASSUME NEW d \in Database, NEW s \in Sids, NEW u \in Users, NEW method \in {"local", "sso"},
           NEW revoked, Admit(d, s, u, method, revoked), Sound(d),
           d.users[u].active \/ revoked # db.users[u].revoked
    PROVE  Sound(db') /\ db'.users = d.users
<1> DEFINE x == [user |-> u, method |-> method, revoked |-> d.users[u].revoked,
                 late |-> revoked # db.users[u].revoked]
<1>1. db' = [d EXCEPT !.sessions[s] = x] /\ d.users[u].state = "live"
  BY DEF Admit
<1>2. x.user = u /\ x.revoked = d.users[u].revoked /\ (x.late <=> revoked # db.users[u].revoked)
  OBVIOUS
<1> HIDE DEF x
<1>3. db'.users = d.users /\ db'.sessions = [d.sessions EXCEPT ![s] = x]
  BY <1>1 DEF Database
<1>4. EarnedIn(db', x)
  BY <1>1, <1>2, <1>3 DEF EarnedIn
<1>5. ASSUME NEW t \in Sids, db'.sessions[t] # NoSession PROVE EarnedIn(db', db'.sessions[t])
  <2>1. CASE t = s
    BY <1>3, <1>4, <2>1 DEF Database
  <2>2. CASE t # s
    BY <1>3, <1>5, <2>2 DEF Sound, SoundBut, EarnedIn, Database
  <2> QED BY <2>1, <2>2
<1> QED BY <1>3, <1>5 DEF Sound, SoundBut
\* Evidence survives what accounts become, and a verification adds to it.
LEMMA EvidenceKept ==
    ASSUME IInv, Evidence, Aged(db'), db' \in Database,
           \A h \in Threads : req'[h].step = "verified" =>
               \/ req'[h] = req[h]
               \/ /\ req'[h].user \in Users /\ Usable(req'[h].user) /\ db' = db
                  /\ req'[h].revoked = db.users[req'[h].user].revoked
    PROVE  Evidence'
<1> SUFFICES ASSUME NEW h \in Threads, req'[h].step = "verified"
             PROVE  LET a == db'.users[req'[h].user] IN
                    /\ a.state # "unborn" /\ req'[h].revoked <= a.revoked
                    /\ req'[h].revoked = a.revoked => a.state = "live" /\ a.active
  BY DEF Evidence
<1>1. CASE req'[h] = req[h]
  <2>1. req[h].user \in Users /\ req[h].revoked \in Nat
    BY <1>1 DEF IInv, AllFit, Fit, TypeOK, Request
  <2>2. db.users[req[h].user] \in Account /\ db'.users[req[h].user] \in Account
    BY <2>1, AccountsInside DEF IInv, TypeOK
  <2>3. Ages(db.users[req[h].user], db'.users[req[h].user])
    BY <2>1 DEF Aged
  <2> DEFINE a == db.users[req[h].user]
             b == db'.users[req[h].user]
             n == req[h].revoked
  <2>4. a.state # "unborn" /\ n <= a.revoked /\ (n = a.revoked => a.state = "live" /\ a.active)
    BY <1>1 DEF Evidence
  <2>5. n \in Nat /\ a.revoked \in Nat /\ b.revoked \in Nat
    BY <2>1, <2>2 DEF Account
  <2> HIDE DEF a, b, n
  <2>6. \/ b = a
        \/ b.state # "unborn" /\ a.revoked < b.revoked
        \/ b.state = a.state /\ b.revoked = a.revoked /\ (a.active => b.active)
    BY <2>3, <2>4 DEF Ages, a, b
  <2>7. b.state # "unborn" /\ n <= b.revoked /\ (n = b.revoked => b.state = "live" /\ b.active)
    BY <2>4, <2>5, <2>6
  <2> QED BY <1>1, <2>7 DEF b, n
<1>2. CASE /\ req'[h].user \in Users /\ Usable(req'[h].user) /\ db' = db
           /\ req'[h].revoked = db.users[req'[h].user].revoked
  <2>1. db.users[req'[h].user] \in Account
    BY <1>2, AccountsInside DEF IInv, TypeOK
  <2> QED BY <1>2, <2>1 DEF Usable, Live, Account
<1> QED BY <1>1, <1>2

\* A step that leaves accounts and sessions alone, and verifies no password.
LEMMA NothingEarned ==
    ASSUME IInv, EInv, db'.users = db.users, db'.sessions = db.sessions, db' \in Database,
           \A h \in Threads : req'[h].step = "verified" => req'[h] = req[h]
    PROVE  EInv'
<1>1. Aged(db')
  BY DEF Aged, Ages
<1>2. Sound(db')
  BY DEF EInv, Sound, SoundBut, EarnedIn
<1> QED BY <1>1, <1>2, EvidenceKept DEF EInv

\* A request goes on or ends, without a verification.
LEMMA GoesOn ==
    ASSUME IInv, NEW h \in Threads, NEW r, Goes(h, r), r.step # "verified"
    PROVE  \A i \in Threads : req'[i].step = "verified" => req'[i] = req[i]
BY DEF Goes, IInv, TypeOK

LEMMA EndsUnverified ==
    ASSUME IInv, NEW h \in Threads, Ends(h)
    PROVE  \A i \in Threads : req'[i].step = "verified" => req'[i] = req[i]
BY GoesOn, IdleType DEF Ends

LEMMA BeginEarned ==
    ASSUME IInv, EInv, NEW h \in Threads, NEW u \in Users, NEW kind, NEW step,
           Begin(h, kind, step, u), step = "verified" => Usable(u)
    PROVE  EInv'
<1> DEFINE r == [Idle EXCEPT !.kind = kind, !.step = step, !.user = u,
                             !.password = db.users[u].password, !.revoked = db.users[u].revoked]
<1>1. r.step = step /\ r.user = u /\ r.revoked = db.users[u].revoked
  BY DEF Idle
<1>2. req' = [req EXCEPT ![h] = r] /\ db' = db
  BY DEF Begin, Goes
<1> HIDE DEF r
<1>3. \A i \in Threads : req'[i] = IF i = h THEN r ELSE req[i]
  BY <1>2 DEF IInv, TypeOK
<1>4. Aged(db') /\ Sound(db') /\ db' \in Database
  BY <1>2 DEF Aged, Ages, EInv, IInv, TypeOK
<1> QED BY <1>1, <1>2, <1>3, <1>4, EvidenceKept DEF EInv

LEMMA LoginEarned ==
    ASSUME IInv, IInv', EInv, NEW h \in Threads, FinishLogin(h) PROVE EInv'
<1> DEFINE u == req[h].user
<1>1. req[h].step = "verified" /\ u \in Users
  BY DEF FinishLogin, IInv, AllFit, Fit
<1>2. PICK s \in Sids : Admit(db, s, u, "local", req[h].revoked)
  BY DEF FinishLogin
<1>3. db.users[u].active \/ req[h].revoked # db.users[u].revoked
  BY <1>1 DEF EInv, Evidence
<1>4. Sound(db') /\ db'.users = db.users
  BY <1>1, <1>2, <1>3, AdmitSound DEF EInv, IInv, TypeOK
<1>5. Aged(db') /\ db' \in Database
  BY <1>4 DEF Aged, Ages, IInv, TypeOK
<1> QED BY <1>4, <1>5, EndsUnverified, EvidenceKept DEF FinishLogin, EInv

LEMMA ChangeEarned ==
    ASSUME IInv, IInv', EInv, NEW h \in Threads, FinishChange(h) PROVE EInv'
<1> DEFINE u == req[h].user
           d == SetPassword(db, u, Fresh, FALSE)
<1>1. req[h].step = "verified" /\ u \in Users /\ Fresh \in Passwords
  BY PasswordType DEF FinishChange, IInv, AllFit, Fit
<1>2. d \in Database /\ Sound(d)
  BY <1>1, SetPasswordType, SetPasswordSound DEF IInv, TypeOK, EInv
<1>3. /\ \A v \in Users \ {u} : d.users[v] = db.users[v]
      /\ d.users[u].active = db.users[u].active /\ d.users[u].state = db.users[u].state
      /\ d.users[u].revoked = db.users[u].revoked + 1
  <2>1. db \in Database /\ Sound(db)
    BY DEF IInv, TypeOK, EInv
  <2> QED BY <1>1, <2>1, SetPasswordSound
<1>5. db.users[u] \in Account /\ db.users[u].revoked \in Nat
  BY <1>1, AccountsInside DEF IInv, TypeOK, Account
<1>7. PICK s \in Sids : Admit(d, s, u, "local", req[h].revoked)
  BY DEF FinishChange
<1> HIDE DEF d
<1>8. /\ db.users[u].state # "unborn"
      /\ db.users[u].active \/ req[h].revoked # db.users[u].revoked
  BY <1>1 DEF EInv, Evidence
<1>9. Sound(db') /\ db'.users = d.users
  BY <1>1, <1>2, <1>3, <1>7, <1>8, AdmitSound
<1>10. Aged(db') /\ db' \in Database
  <2>1. db.users[u].revoked < d.users[u].revoked
    BY <1>3, <1>5
  <2> QED BY <1>3, <1>8, <1>9, <2>1 DEF Aged, Ages, IInv, TypeOK
<1> QED BY <1>9, <1>10, EndsUnverified, EvidenceKept DEF FinishChange, EInv

\* An account is born.
LEMMA BirthEarned ==
    ASSUME IInv, IInv', EInv, NEW u \in Users, NEW p \in Passwords, NEW forced \in BOOLEAN,
           db.users[u].state = "unborn", db' = [db EXCEPT !.users[u] = Born(p, forced)],
           \A h \in Threads : req'[h].step = "verified" => req'[h] = req[h]
    PROVE  EInv'
<1>1. Born(p, forced) \in Account
  BY BornType
<1>2. Sound(db')
  BY <1>1, HarmlessSound DEF EInv, IInv, TypeOK
<1>3. Aged(db')
  BY DEF Aged, Ages, Born, Unborn, IInv, TypeOK, Database
<1> QED BY <1>2, <1>3, EvidenceKept DEF EInv, IInv, TypeOK

\* A password is set for a living account.
LEMMA PasswordSetEarned ==
    ASSUME IInv, IInv', EInv, NEW u \in Users, NEW p \in Passwords, Live(u),
           db' = SetPassword(db, u, p, TRUE),
           \A h \in Threads : req'[h].step = "verified" => req'[h] = req[h]
    PROVE  EInv'
<1>1. /\ Sound(db')
      /\ \A v \in Users \ {u} : db'.users[v] = db.users[v]
      /\ db'.users[u].state = db.users[u].state
      /\ db'.users[u].revoked = db.users[u].revoked + 1
  <2>1. db \in Database /\ Sound(db)
    BY DEF IInv, TypeOK, EInv
  <2> QED BY <2>1, SetPasswordSound
<1>2. db.users[u].revoked < db'.users[u].revoked
  <2>1. db.users[u].revoked \in Nat
    BY PasswordType DEF IInv, Account
  <2>2. \A n \in Nat : n < n + 1
    OBVIOUS
  <2> QED BY <1>1, <2>1, <2>2, Zenon
<1>3. Ages(db.users[u], db'.users[u])
  BY <1>1, <1>2 DEF Ages, Live
<1>4. Aged(db')
  BY <1>1, <1>3 DEF Aged, Ages
<1> QED BY <1>1, <1>4, EvidenceKept DEF EInv, IInv, TypeOK

LEMMA UpdateEarned ==
    ASSUME IInv, IInv', EInv, NEW h \in Threads, UpdateUser(h) PROVE EInv'
<1> DEFINE u == req[h].user
           a(active) == [db.users[u] EXCEPT !.active = active]
           d(active) == [db EXCEPT !.users[u].active = active]
<1>1. u \in Users /\ Live(u)
  BY DEF UpdateUser, IInv, AllFit, Fit, Administered
<1>2. db.users[u] \in Account /\ db \in Database
  BY <1>1, AccountsInside DEF IInv, TypeOK
<1>3. \A active \in BOOLEAN : a(active) \in Account /\ d(active) = [db EXCEPT !.users[u] = a(active)]
  BY <1>2 DEF Account
<1>4. /\ a(TRUE).state = db.users[u].state /\ a(TRUE).revoked = db.users[u].revoked
      /\ a(TRUE).active
      /\ a(FALSE).state = db.users[u].state /\ a(FALSE).revoked = db.users[u].revoked
      /\ db.users[u].revoked \in Nat
  BY <1>2 DEF Account
<1>5. db' = Revoke(d(FALSE), u) \/ db' = d(TRUE)
  BY DEF UpdateUser
<1> HIDE DEF d, a, u
<1>6. CASE db' = d(TRUE)
  <2>0. a(TRUE) \in Account /\ db' = [db EXCEPT !.users[u] = a(TRUE)]
    BY <1>3, <1>6
  <2>1. Sound(db')
    BY <1>1, <1>2, <1>4, <2>0, HarmlessSound DEF EInv
  <2>2. \A v \in Users : db'.users[v] = IF v = u THEN a(TRUE) ELSE db.users[v]
    BY <1>1, <1>2, <2>0 DEF Database
  <2>3. Aged(db')
    BY <1>1, <1>4, <2>2 DEF Aged, Ages, Live
  <2> QED BY <2>1, <2>3, EndsUnverified, EvidenceKept DEF UpdateUser, EInv, IInv, TypeOK
<1>7. CASE db' = Revoke(d(FALSE), u)
  <2>0. a(FALSE) \in Account /\ d(FALSE) = [db EXCEPT !.users[u] = a(FALSE)]
    BY <1>3
  <2>1. d(FALSE) \in Database /\ SoundBut(d(FALSE), {u})
    <3>1. d(FALSE) \in Database
      <4>1. [db EXCEPT !.users[u] = a(FALSE)] \in Database
        BY <1>1, <1>2, <2>0, AccountType
      <4> QED BY <2>0, <4>1
    <3>2. SoundBut(d(FALSE), {u})
      BY <1>1, <1>2, <2>0, RewriteSound DEF EInv
    <3> QED BY <3>1, <3>2
  <2>2. \A v \in Users : d(FALSE).users[v] = IF v = u THEN a(FALSE) ELSE db.users[v]
    BY <1>1, <1>2, <2>0 DEF Database
  <2>3. /\ Sound(db')
        /\ db'.users = [d(FALSE).users EXCEPT ![u] = [d(FALSE).users[u] EXCEPT !.revoked = @ + 1]]
    BY <1>1, <1>7, <2>1, RevokeSound
  <2>4. \A v \in Users : db'.users[v] =
            IF v = u THEN [a(FALSE) EXCEPT !.revoked = a(FALSE).revoked + 1] ELSE db.users[v]
    BY <1>1, <2>1, <2>2, <2>3 DEF Database
  <2>5. Aged(db')
    <3>1. /\ db'.users[u].state = db.users[u].state
          /\ db'.users[u].revoked = db.users[u].revoked + 1
      BY <1>1, <1>4, <2>0, <2>4 DEF Account
    <3>2. db.users[u].revoked < db'.users[u].revoked
      BY <1>4, <3>1
    <3>3. \A v \in Users : v # u => db'.users[v] = db.users[v]
      BY <2>4
    <3> QED BY <1>1, <3>1, <3>2, <3>3 DEF Aged, Ages, Live
  <2> QED BY <2>3, <2>5, EndsUnverified, EvidenceKept DEF UpdateUser, EInv, IInv, TypeOK
<1> QED BY <1>5, <1>6, <1>7

LEMMA DeleteEarned ==
    ASSUME IInv, IInv', EInv, NEW h \in Threads, DeleteUser(h) PROVE EInv'
<1> DEFINE u == req[h].user
           d == Revoke(db, u)
           a == [d.users[u] EXCEPT !.state = "deleted"]
<1>1. u \in Users /\ Live(u) /\ db.users[u] \in Account /\ db \in Database
  BY AccountsInside DEF DeleteUser, IInv, AllFit, Fit, Administered, TypeOK
<1>2. /\ d \in Database /\ Sound(d)
      /\ d.users = [db.users EXCEPT ![u] = [db.users[u] EXCEPT !.revoked = @ + 1]]
  BY <1>1, RevokeType, RevokeSound DEF EInv, Sound, SoundBut
<1>3. \A s \in Sids : d.sessions[s].user # u
  <2>1. \A s \in Sids : d.sessions[s] = IF db.sessions[s].user = u THEN NoSession ELSE db.sessions[s]
    BY DEF Revoke, IInv, TypeOK, Database
  <2> QED BY <1>1, <2>1, UsersAssumption DEF NoSession
<1>4. d.users[u] \in Account /\ a \in Account
  BY <1>1, <1>2, AccountsInside DEF Account
<1>5. a.state = "deleted" /\ a.revoked = db.users[u].revoked + 1
  BY <1>1, <1>2 DEF Account, Database
<1>6. db' = [d EXCEPT !.users[u] = a]
  BY DEF DeleteUser
<1> HIDE DEF d, a
<1>7. SoundBut(db', {u}) /\ db'.sessions = d.sessions
  BY <1>1, <1>2, <1>4, <1>6, RewriteSound DEF Database
<1>8. Sound(db')
  BY <1>3, <1>7 DEF Sound, SoundBut
<1>9. \A v \in Users : db'.users[v] = IF v = u THEN a ELSE db.users[v]
  BY <1>1, <1>2, <1>6 DEF Database
<1>10. Aged(db')
  BY <1>1, <1>5, <1>9 DEF Aged, Ages, Live, Account
<1> QED BY <1>8, <1>10, EndsUnverified, EvidenceKept DEF DeleteUser, EInv, IInv, TypeOK

LEMMA LogoutEarned ==
    ASSUME IInv, IInv', EInv, NEW s \in Sids, Logout(s) PROVE EInv'
<1>1. db'.users = db.users /\ \A t \in Sids : db'.sessions[t] \in {NoSession, db.sessions[t]}
  BY DEF Logout, IInv, TypeOK, Database
<1>2. Sound(db') /\ Aged(db')
  BY <1>1 DEF EInv, Sound, SoundBut, EarnedIn, Aged, Ages
<1> QED BY <1>2, EvidenceKept DEF Logout, EInv, IInv, TypeOK

LEMMA CompleteEarned ==
    ASSUME IInv, IInv', EInv, NEW h \in Threads, NEW m \in Mails, Complete(h, m) PROVE EInv'
<1> DEFINE f == req[h].flow
           d == [db EXCEPT !.flows[f] = "gone"]
           e(u) == [d EXCEPT !.users[u] = Born(Unknown, FALSE)]
<1>1. d \in Database /\ d.users = db.users /\ d.sessions = db.sessions
  <2>1. f \in Flows
    BY DEF Complete, IInv, AllFit, Fit
  <2> QED BY <2>1 DEF IInv, TypeOK, Database
<1>2. Sound(d)
  BY <1>1 DEF EInv, Sound, SoundBut, EarnedIn
<1>3. Unknown \in Passwords /\ Born(Unknown, FALSE) \in Account
  <2>1. Unknown \in Passwords
    BY BoundsAssumption DEF Passwords, Unknown
  <2> QED BY <2>1, BornType
<1>4. PICK s \in Sids :
         \/ \E u \in SignsInAs(m) : Admit(d, s, u, "sso", db.users[u].revoked)
         \/ \E u \in Provisioned(m) : Admit(e(u), s, u, "sso", db.users[u].revoked)
  BY DEF Complete
<1> HIDE DEF d
<1>5. CASE \E u \in SignsInAs(m) : Admit(d, s, u, "sso", db.users[u].revoked)
  <2>1. PICK u \in SignsInAs(m) : Admit(d, s, u, "sso", db.users[u].revoked)
    BY <1>5
  <2>2. u \in Users /\ d.users[u].active
    BY <1>1 DEF SignsInAs, Addressed, Usable
  <2>3. Sound(db') /\ db'.users = db.users
    BY <1>1, <1>2, <2>1, <2>2, AdmitSound
  <2>4. Aged(db')
    BY <2>3 DEF Aged, Ages
  <2> QED BY <2>3, <2>4, EndsUnverified, EvidenceKept DEF Complete, EInv, IInv, TypeOK
<1>6. CASE \E u \in Provisioned(m) : Admit(e(u), s, u, "sso", db.users[u].revoked)
  <2>1. PICK u \in Provisioned(m) : Admit(e(u), s, u, "sso", db.users[u].revoked)
    BY <1>6
  <2>2. u \in Users /\ db.users[u].state = "unborn"
    BY DEF Provisioned, Addressed
  <2>3. e(u) \in Database /\ Sound(e(u))
    BY <1>1, <1>2, <1>3, <2>2, AccountType, HarmlessSound
  <2>4. \A v \in Users : e(u).users[v] = IF v = u THEN Born(Unknown, FALSE) ELSE db.users[v]
    BY <1>1, <2>2 DEF Database
  <2>5. Born(Unknown, FALSE).active /\ Born(Unknown, FALSE).state = "live"
    BY DEF Born, Unborn
  <2> HIDE DEF e
  <2>6. Sound(db') /\ db'.users = e(u).users
    BY <2>1, <2>2, <2>3, <2>4, <2>5, AdmitSound
  <2>7. Aged(db')
    BY <2>2, <2>4, <2>5, <2>6 DEF Aged, Ages
  <2> QED BY <2>6, <2>7, EndsUnverified, EvidenceKept DEF Complete, EInv, IInv, TypeOK
<1> QED BY <1>4, <1>5, <1>6

\* The console and the server's start.
LEMMA RootEarned ==
    ASSUME IInv, IInv', EInv, Start \/ ResetAdmin PROVE EInv'
<1> DEFINE r(kind) == [Idle EXCEPT !.kind = kind, !.step = "tell", !.user = Root,
                                   !.password = Fresh]
<1>1. Root \in Users /\ {Boot, Console} \subseteq Threads /\ \A kind : r(kind).step = "tell"
  BY UsersAssumption DEF Threads, Idle
<1>2. CASE ResetAdmin
  <2>1. Fresh \in Passwords /\ Goes(Console, r("console"))
    BY <1>2, PasswordType DEF ResetAdmin, IInv
  <2>2. \A i \in Threads : req'[i].step = "verified" => req'[i] = req[i]
    BY <1>1, <2>1, GoesOn
  <2>3. CASE Live(Root)
    BY <1>1, <1>2, <2>1, <2>2, <2>3, PasswordSetEarned DEF ResetAdmin
  <2>4. CASE ~Live(Root)
    BY <1>1, <1>2, <2>1, <2>2, <2>4, BirthEarned DEF ResetAdmin, Live
  <2> QED BY <2>3, <2>4
<1>3. CASE Start /\ FirstRun /\ server' = "starting"
  <2>1. Fresh \in Passwords /\ Goes(Boot, r("boot"))
    BY <1>3, PasswordType DEF Start, FirstRun, IInv
  <2>2. \A i \in Threads : req'[i].step = "verified" => req'[i] = req[i]
    BY <1>1, <2>1, GoesOn
  <2> QED BY <1>1, <1>3, <2>1, <2>2, BirthEarned DEF Start, FirstRun
<1>4. CASE Start /\ UNCHANGED <<db, req>>
  BY <1>4, NothingEarned DEF IInv, TypeOK
<1> QED BY <1>2, <1>3, <1>4 DEF Start

LEMMA AnswerEarned ==
    ASSUME IInv, IInv', EInv, NEW h \in Threads, CreateUser(h) \/ ResetPassword(h) PROVE EInv'
<1>1. req[h].user \in Users /\ Fresh \in Passwords
  BY PasswordType DEF CreateUser, ResetPassword, IInv, AllFit, Fit
<1>2. \A i \in Threads : req'[i].step = "verified" => req'[i] = req[i]
  <2>1. req[h] \in Request
    BY DEF IInv, TypeOK
  <2>2. [req[h] EXCEPT !.step = "tell", !.password = Fresh].step # "verified"
    BY <2>1 DEF Request
  <2> QED BY <2>2, GoesOn DEF CreateUser, ResetPassword, Answers
<1>3. CASE CreateUser(h)
  BY <1>1, <1>2, <1>3, BirthEarned DEF CreateUser
<1>4. CASE ResetPassword(h)
  BY <1>1, <1>2, <1>4, PasswordSetEarned DEF ResetPassword
<1> QED BY <1>3, <1>4

\* Steps that change no account and no session.
LEMMA OthersEarned ==
    ASSUME IInv, IInv', EInv,
           \/ Interrupt \/ Crash \/ UNCHANGED vars
           \/ \E f \in Flows : StartSso(f) \/ FlowExpires(f)
           \/ \E h \in Threads :
                 \/ \E f \in Flows : Consume(h, f)
                 \/ LoginFails(h) \/ AdministrationFails(h) \/ Refused(h) \/ BusyTimeout(h)
                 \/ Tell(h)
    PROVE  EInv'
<1>1. CASE Interrupt
  BY <1>1, EndsUnverified, NothingEarned DEF Interrupt, Threads, IInv, TypeOK
<1>2. CASE Crash
  <2>1. \A h \in Threads : req'[h] = IF h = Console THEN req[h] ELSE Idle
    BY <1>2 DEF Crash
  <2> QED BY <1>2, <2>1, IdleType, NothingEarned DEF Crash, IInv, TypeOK
<1>3. CASE UNCHANGED vars \/ \E f \in Flows : StartSso(f) \/ FlowExpires(f)
  <2>1. db'.users = db.users /\ db'.sessions = db.sessions /\ req' = req
    BY <1>3 DEF vars, StartSso, FlowExpires, IInv, TypeOK, Database
  <2> QED BY <2>1, NothingEarned DEF IInv, TypeOK
<1>4. ASSUME NEW h \in Threads, NEW f \in Flows, Consume(h, f) PROVE EInv'
  <2>1. [Idle EXCEPT !.kind = "callback", !.step = "claims", !.flow = f].step # "verified"
    BY DEF Idle
  <2> QED BY <1>4, <2>1, GoesOn, NothingEarned DEF Consume, IInv, TypeOK
<1>5. ASSUME NEW h \in Threads,
             LoginFails(h) \/ AdministrationFails(h) \/ Refused(h) \/ BusyTimeout(h) \/ Tell(h)
      PROVE  EInv'
  BY <1>5, EndsUnverified, NothingEarned
     DEF LoginFails, AdministrationFails, Refused, BusyTimeout, Tell, IInv, TypeOK
<1> QED BY <1>1, <1>2, <1>3, <1>4, <1>5

LEMMA BeginsEarned ==
    ASSUME IInv, EInv, NEW h \in Threads,
           \/ \E u \in Users : BeginLogin(h, u)
           \/ \E s \in Sids : BeginChange(h, s)
           \/ \E s \in Sids, op \in Administered, u \in Users : BeginAdministration(h, s, op, u)
    PROVE  EInv'
<1>1. CASE \E u \in Users : BeginLogin(h, u)
  BY <1>1, BeginEarned DEF BeginLogin
<1>2. CASE \E s \in Sids : BeginChange(h, s)
  <2>1. PICK s \in Sids : BeginChange(h, s)
    BY <1>2
  <2>2. Holder(s) \in Users /\ Usable(Holder(s))
    BY <2>1 DEF BeginChange, SignedIn, Open, Holder, IInv, TypeOK, Database, Session
  <2> QED BY <2>1, <2>2, BeginEarned DEF BeginChange
<1>3. CASE \E s \in Sids, op \in Administered, u \in Users : BeginAdministration(h, s, op, u)
  BY <1>3, BeginEarned DEF BeginAdministration
<1> QED BY <1>1, <1>2, <1>3

LEMMA InitEarned == Init => EInv
BY IdleType DEF Init, EInv, Evidence, Sound, SoundBut

LEMMA NextEarned == IInv /\ IInv' /\ EInv /\ [Next]_vars => EInv'
<1> SUFFICES ASSUME IInv, IInv', EInv, [Next]_vars PROVE EInv'
  OBVIOUS
<1>1. CASE Start \/ ResetAdmin \/ Interrupt \/ Crash \/ UNCHANGED vars
  BY <1>1, RootEarned, OthersEarned
<1>2. CASE (\E s \in Sids : Logout(s)) \/ (\E f \in Flows : StartSso(f) \/ FlowExpires(f))
  BY <1>2, LogoutEarned, OthersEarned
<1>3. ASSUME NEW h \in Threads,
             \/ \E f \in Flows : Consume(h, f)
             \/ LoginFails(h) \/ AdministrationFails(h) \/ Refused(h) \/ BusyTimeout(h)
             \/ Tell(h)
      PROVE  EInv'
  BY <1>3, OthersEarned
<1>4. ASSUME NEW h \in Threads,
             \/ \E m \in Mails : Complete(h, m)
             \/ FinishLogin(h) \/ FinishChange(h) \/ CreateUser(h) \/ ResetPassword(h)
             \/ UpdateUser(h) \/ DeleteUser(h)
      PROVE  EInv'
  BY <1>4, CompleteEarned, LoginEarned, ChangeEarned, AnswerEarned, UpdateEarned, DeleteEarned
<1> QED BY <1>1, <1>2, <1>3, <1>4, BeginsEarned DEF Next

\* A session that is not marked late belongs to an account that is active and has had no
\* password change, reset or deactivation since the session was made, for any number of
\* overlapping sign-ins, administrators and crashes (create_session, delete_user_sessions).
THEOREM SessionsStayEarned == Spec => []SessionsAreEarned
<1>1. IInv /\ EInv => SessionsAreEarned
  BY SoundIsEarned DEF IInv, EInv
<1> QED BY <1>1, InvHolds, InitEarned, NextEarned, PTL DEF Spec
-----------------------------------------------------------------------------
(* Nobody is locked out silently.                                           *)

Tells(h, kinds) == req[h].step = "tell" /\ req[h].kind \in kinds

\* Passwords are generated in sequence, and a request tells one that has been set.
InSequence ==
    /\ file <= issued
    /\ \A u \in Users : db.users[u].password <= issued
    /\ \A h \in Threads : req[h].step = "tell" =>
           /\ db.users[req[h].user].state # "unborn"
           /\ req[h].password <= db.users[req[h].user].password
Announcers ==
    \A h \in Threads :
        /\ Tells(h, {"boot"}) => h = Boot
        /\ Tells(h, {"boot", "console"}) => req[h].user = Root
        /\ h \notin Workers /\ req[h].step = "tell" => req[h].user = Root
\* Only the server's threads serve requests.
Outside == \A h \in Threads \ Workers : req[h].step \in {"idle", "tell"}

\* Nobody but the administrator can have password p, and it is older than any password the
\* command is about to write over it.
RootsAlone(p) ==
    /\ db.users[Root].state # "unborn"
    /\ \A u \in Users \ {Root} : db.users[u].password # p
    /\ \A h \in Threads : Tells(h, {"console"}) => p < req[h].password

\* What the credentials file alone holds is the administrator's, and what replaces it is newer.
FileOutdated ==
    /\ file \in told \cup {Unknown} \/ RootsAlone(file)
    /\ \A h \in Threads : Tells(h, {"boot"}) =>
           file \in told \cup {Unknown} /\ RootsAlone(req[h].password)

KInv == Outside /\ InSequence /\ Announcers /\ FileOutdated /\ NoSilentLockout

LEMMA Numbers ==
    ASSUME IInv
    PROVE  /\ file \in Nat /\ issued \in Nat /\ Fresh = issued + 1 /\ issued < Fresh
           /\ Unknown = 0 /\ Root \in Users
           /\ \A u \in Users : db.users[u] \in Account /\ db.users[u].password \in Nat
           /\ \A h \in Threads : req[h].password \in Nat
           /\ \A h \in Threads : req[h].step = "tell" => /\ req[h].user \in Users
                                                         /\ req[h].password # Unknown
<1>1. \A p \in Passwords : p \in Nat
  BY BoundsAssumption DEF Passwords
<1>2. \A u \in Users : db.users[u] \in Account /\ db.users[u].password \in Passwords
  BY PasswordType DEF IInv
<1>3. \A h \in Threads : req[h].password \in Passwords
  BY DEF IInv, TypeOK, Request
<1>4. file \in Passwords /\ issued \in Passwords
  BY DEF IInv, TypeOK
<1>5. Fresh = issued + 1 /\ issued < Fresh
  BY <1>1, <1>4 DEF Fresh
<1>6. \A h \in Threads : req[h].step = "tell" => req[h].user \in Users /\ req[h].password # Unknown
  BY DEF IInv, AllFit, Fit
<1> QED BY <1>1, <1>2, <1>3, <1>4, <1>5, <1>6, UsersAssumption DEF Unknown

\* Steps that generate no password and tell none: an account may be born without one, and
\* requests may die.
LEMMA NothingTold ==
    ASSUME IInv, IInv', KInv, Outside', UNCHANGED <<file, told, issued>>, lost \subseteq lost',
           \A u \in Users :
               \/ /\ db'.users[u].password = db.users[u].password
                  /\ db'.users[u].state = "unborn" => db.users[u].state = "unborn"
                  /\ db'.users[u].state = "live" => db.users[u].state = "live"
               \/ /\ db.users[u].state = "unborn" /\ db'.users[u].state # "unborn"
                  /\ db'.users[u].password = Unknown,
           \A h \in Threads : req'[h].step = "tell" => req'[h] = req[h],
           \A h \in Threads : req[h].step = "tell" => \/ req'[h] = req[h]
                                                      \/ Untold({h}) \subseteq lost'
    PROVE  KInv'
<1>1. InSequence'
  BY Numbers DEF InSequence, KInv
<1>2. Announcers'
  BY DEF Announcers, KInv, Tells
<1>3. ASSUME NEW p, p # Unknown, RootsAlone(p) PROVE RootsAlone(p)'
  BY <1>3, Numbers DEF RootsAlone, Tells
<1>4. FileOutdated'
  BY <1>3, Numbers DEF FileOutdated, KInv, Tells
<1>5. NoSilentLockout'
  <2> SUFFICES ASSUME NEW u \in Users, db'.users[u].state = "live",
                      db'.users[u].password \notin (Known' \cup {Unknown}), u \notin lost'
               PROVE  u \in Untold(Threads)'
    BY DEF NoSilentLockout, Live
  <2>1. db'.users[u].password = db.users[u].password /\ db.users[u].state = "live"
    OBVIOUS
  <2>2. Known' = Known
    BY DEF Known
  <2>3. u \in Untold(Threads)
    BY <2>1, <2>2 DEF KInv, NoSilentLockout, Live
  <2>4. PICK h \in Threads : u \in Untold({h})
    BY <2>3 DEF Untold
  <2>5. req[h].step = "tell" /\ req'[h] = req[h]
    BY <2>4 DEF Untold
  <2> QED BY <2>1, <2>4, <2>5 DEF Untold
<1> QED BY <1>1, <1>2, <1>4, <1>5 DEF KInv

\* A new password is chosen, and so known.
LEMMA Chosen ==
    ASSUME IInv, IInv', KInv, Outside', UNCHANGED <<file, lost>>, told' = told \cup {Fresh}, issued' = Fresh,
           NEW u \in Users, db.users[u].state # "unborn", db'.users[u].password = Fresh,
           db'.users[u].state # "unborn",
           \A v \in Users \ {u} : db'.users[v] = db.users[v],
           \A h \in Threads : req'[h] = req[h] \/ (req[h].step # "tell" /\ req'[h].step # "tell")
    PROVE  KInv'
<1>1. InSequence'
  <2>1. \A v \in Users : db'.users[v].password <= Fresh /\ db.users[v].password <= db'.users[v].password
    BY Numbers DEF InSequence, KInv
  <2>2. file' <= Fresh
    BY Numbers DEF InSequence, KInv
  <2>3. ASSUME NEW h \in Threads, req'[h].step = "tell"
        PROVE  /\ db'.users[req[h].user].state # "unborn"
               /\ req[h].password <= db'.users[req[h].user].password
    <3>1. req'[h] = req[h] /\ req[h].user \in Users /\ req[h].password \in Nat
      BY <2>3, Numbers
    <3>2. /\ db.users[req[h].user].state # "unborn"
          /\ req[h].password <= db.users[req[h].user].password
      BY <2>3, <3>1 DEF InSequence, KInv
    <3>3. /\ db.users[req[h].user].password \in Nat /\ db'.users[req[h].user].password \in Nat
          /\ db.users[req[h].user].password <= db'.users[req[h].user].password
      BY <2>1, <3>1, Numbers
    <3> QED BY <3>1, <3>2, <3>3
  <2> QED BY <2>1, <2>2, <2>3 DEF InSequence
<1>2. Announcers'
  BY DEF Announcers, KInv, Tells
<1>3. ASSUME NEW p \in Nat, p <= issued, RootsAlone(p) PROVE RootsAlone(p)'
  BY <1>3, Numbers DEF RootsAlone, Tells
<1>4. FileOutdated'
  <2>1. \A h \in Threads : req[h].step = "tell" => req[h].password \in Nat /\ req[h].password <= issued
    BY Numbers DEF KInv, InSequence
  <2>2. file \in Nat /\ file <= issued
    BY Numbers DEF KInv, InSequence
  <2> QED BY <1>3, <2>1, <2>2 DEF FileOutdated, KInv, Tells
<1>5. NoSilentLockout'
  <2>1. Known \subseteq Known' /\ Fresh \in Known' \cup {Unknown}
    BY DEF Known
  <2>2. \A v \in Users \ {u} : v \in Untold(Threads) => v \in Untold(Threads)'
    BY DEF Untold
  <2> QED BY <2>1, <2>2 DEF NoSilentLockout, KInv, Live
<1> QED BY <1>1, <1>2, <1>4, <1>5 DEF KInv

\* A new password is generated, and is about to be told.
LEMMA Promised ==
    ASSUME IInv, IInv', KInv, Outside', UNCHANGED <<file, told, lost>>, issued' = Fresh,
           NEW u \in Users, db'.users[u].password = Fresh, db'.users[u].state # "unborn",
           \A v \in Users \ {u} : db'.users[v] = db.users[v],
           NEW h \in Threads, req[h].step # "tell", req'[h].step = "tell",
           req'[h].user = u, req'[h].password = Fresh,
           \A i \in Threads \ {h} : req'[i] = req[i],
           h \in Workers \/ u = Root, req'[h].kind = "console" => u = Root,
           req'[h].kind = "boot" => h = Boot /\ u = Root /\ db.users[Root].state = "unborn"
    PROVE  KInv'
<1>1. InSequence'
  <2>1. \A v \in Users : db'.users[v].password <= Fresh /\ db.users[v].password <= db'.users[v].password
    BY Numbers DEF InSequence, KInv
  <2>2. file' <= Fresh
    BY Numbers DEF InSequence, KInv
  <2>3. ASSUME NEW i \in Threads, req'[i].step = "tell"
        PROVE  /\ db'.users[req'[i].user].state # "unborn"
               /\ req'[i].password <= db'.users[req'[i].user].password
    <3>1. CASE i = h
      BY <3>1, Numbers
    <3>2. CASE i # h
      <4>1. req'[i] = req[i] /\ req[i].user \in Users /\ req[i].password \in Nat
        BY <2>3, <3>2, Numbers
      <4>2. /\ db.users[req[i].user].state # "unborn"
            /\ req[i].password <= db.users[req[i].user].password
        BY <2>3, <4>1 DEF InSequence, KInv
      <4>3. /\ db.users[req[i].user].password \in Nat /\ db'.users[req[i].user].password \in Nat
            /\ db.users[req[i].user].password <= db'.users[req[i].user].password
        BY <2>1, <4>1, Numbers
      <4> QED BY <4>1, <4>2, <4>3
    <3> QED BY <3>1, <3>2
  <2> QED BY <2>1, <2>2, <2>3 DEF InSequence
<1>2. Announcers'
  BY DEF Announcers, KInv, Tells
<1>3. ASSUME NEW p \in Nat, p <= issued, RootsAlone(p) PROVE RootsAlone(p)'
  BY <1>3, Numbers DEF RootsAlone, Tells
<1>4. FileOutdated'
  <2>1. \A i \in Threads : req[i].step = "tell" => req[i].password \in Nat /\ req[i].password <= issued
    BY Numbers DEF KInv, InSequence
  <2>2. file \in Nat /\ file <= issued
    BY Numbers DEF KInv, InSequence
  <2>3. (file \in told \cup {Unknown} \/ RootsAlone(file))'
    BY <1>3, <2>2 DEF FileOutdated, KInv
  <2>4. ASSUME NEW i \in Threads, Tells(i, {"boot"})'
        PROVE  (file \in told \cup {Unknown} /\ RootsAlone(req[i].password))'
    <3>1. CASE i # h
      BY <1>3, <2>1, <2>4, <3>1 DEF FileOutdated, KInv, Tells
    <3>2. CASE i = h
      <4>1. u = Root /\ db.users[Root].state = "unborn"
        BY <2>4, <3>2 DEF Tells
      <4>2. \A j \in Threads \ {h} : ~Tells(j, {"console"})
        BY <4>1 DEF KInv, Announcers, InSequence, Tells
      <4>3. \A j \in Threads : ~Tells(j, {"console"})'
        BY <2>4, <3>2, <4>2 DEF Tells
      <4>4. file \in told \cup {Unknown}
        BY <4>1 DEF KInv, FileOutdated, RootsAlone
      <4>5. \A v \in Users \ {Root} : db'.users[v].password # Fresh
        BY <4>1, Numbers DEF KInv, InSequence
      <4> QED BY <3>2, <4>1, <4>3, <4>4, <4>5 DEF RootsAlone
    <3> QED BY <3>1, <3>2
  <2> QED BY <2>3, <2>4 DEF FileOutdated
<1>5. NoSilentLockout'
  <2>1. Known = Known' /\ u \in Untold(Threads)'
    BY DEF Known, Untold
  <2>2. \A v \in Users \ {u} : v \in Untold(Threads) => v \in Untold(Threads)'
    BY DEF Untold
  <2> QED BY <2>1, <2>2 DEF NoSilentLockout, KInv, Live
<1> QED BY <1>1, <1>2, <1>4, <1>5 DEF KInv

\* A password is told: what the credentials file loses is nobody's password any more.
LEMMA ToldKept ==
    ASSUME IInv, IInv', KInv, Outside', NEW h \in Threads, Tell(h)
    PROVE  KInv'
<1> DEFINE r == req[h]
<1>1. /\ r.step = "tell" /\ r.user \in Users /\ r.password \in Nat /\ r.password # Unknown
      /\ db' = db /\ issued' = issued
  BY Numbers DEF Tell, bounds
<1>2. \A i \in Threads : req'[i] = IF i = h THEN Idle ELSE req[i]
  BY DEF Tell, Ends, Goes, IInv, TypeOK
<1>3. \A i \in Threads : req'[i].step = "tell" => req'[i] = req[i] /\ i # h
  BY <1>2, IdleType
<1>4. /\ file' = IF r.kind \in {"boot", "console"} THEN r.password ELSE file
      /\ told' = IF r.kind = "boot" THEN told ELSE told \cup {r.password}
      /\ lost' = IF db.users[r.user].password = r.password THEN lost \ {r.user} ELSE lost
  BY DEF Tell
<1>5. r.password <= issued
  BY <1>1, Numbers DEF KInv, InSequence
<1>6. InSequence'
  BY <1>1, <1>3, <1>4, <1>5 DEF KInv, InSequence
<1>7. Announcers'
  BY <1>3 DEF KInv, Announcers, Tells
<1>8. \A p : RootsAlone(p) => RootsAlone(p)'
  BY <1>1, <1>3 DEF RootsAlone, Tells
<1>9. FileOutdated'
  <2>1. CASE r.kind = "boot"
    <3>0. RootsAlone(r.password)
      BY <1>1, <2>1 DEF KInv, FileOutdated, Tells
    <3>1. RootsAlone(file)'
      BY <1>1, <1>3, <1>4, <2>1, <3>0 DEF RootsAlone, Tells
    <3>2. \A i \in Threads : ~Tells(i, {"boot"})'
      BY <1>1, <1>3, <2>1 DEF KInv, Announcers, Tells
    <3> QED BY <3>1, <3>2 DEF FileOutdated
  <2>2. CASE r.kind = "console"
    BY <1>3, <1>4, <1>8, <2>2 DEF KInv, FileOutdated, Tells
  <2>3. CASE r.kind \notin {"boot", "console"}
    BY <1>3, <1>4, <1>8, <2>3 DEF KInv, FileOutdated, Tells
  <2> QED BY <2>1, <2>2, <2>3
<1>10. NoSilentLockout'
  <2> SUFFICES ASSUME NEW u \in Users, db.users[u].state = "live",
                      db.users[u].password \notin (Known' \cup {Unknown}), u \notin lost'
               PROVE  u \in Untold(Threads)'
    BY <1>1 DEF NoSilentLockout, Live
  <2>1. r.password \in Known'
    BY <1>1, <1>4 DEF Known
  <2>2. u \notin lost
    BY <1>4, <2>1
  <2>3. db.users[u].password \notin told
    BY <1>4 DEF Known, Unknown
  <2>4. db.users[u].password # file
    <3>1. SUFFICES ASSUME db.users[u].password = file PROVE FALSE
      OBVIOUS
    <3>2. file # file' /\ r.kind \in {"boot", "console"}
      BY <1>4, <3>1 DEF Known
    <3>3. RootsAlone(file) /\ file \notin told \cup {Unknown}
      BY <2>3, <3>1 DEF KInv, FileOutdated
    <3>4. r.kind = "console"
      BY <1>1, <3>2, <3>3 DEF KInv, FileOutdated, Tells
    <3>5. u = Root /\ r.user = Root /\ file < r.password
      BY <1>1, <3>1, <3>3, <3>4 DEF RootsAlone, KInv, Announcers, Tells
    <3>6. r.password <= db.users[u].password
      BY <1>1, <3>5 DEF KInv, InSequence
    <3> QED BY <1>1, <3>1, <3>5, <3>6, Numbers
  <2>5. u \in Untold(Threads)
    BY <2>2, <2>3, <2>4 DEF KInv, NoSilentLockout, Live, Known
  <2>6. PICK i \in Threads : u \in Untold({i})
    BY <2>5 DEF Untold
  <2>7. i # h
    BY <2>1, <2>6 DEF Untold
  <2> QED BY <1>1, <1>2, <2>6, <2>7 DEF Untold
<1> QED BY <1>6, <1>7, <1>9, <1>10 DEF KInv

LEMMA AbandonedKept == ASSUME IInv, IInv', KInv, Outside', Interrupt \/ Crash PROVE KInv'
<1>1. CASE Interrupt
  <2>1. \A h \in Threads : req'[h] = IF h = Console THEN Idle ELSE req[h]
    BY <1>1 DEF Interrupt, Ends, Goes, IInv, TypeOK
  <2>2. Untold({Console}) \subseteq lost' /\ lost \subseteq lost'
    BY <1>1 DEF Interrupt
  <2> QED BY <1>1, <2>1, <2>2, IdleType, NothingTold DEF Interrupt
<1>2. CASE Crash
  <2>1. \A h \in Threads : req'[h] = IF h = Console THEN req[h] ELSE Idle
    BY <1>2 DEF Crash
  <2>2. \A h \in Threads \ {Console} : Untold({h}) \subseteq lost'
    BY <1>2 DEF Crash, Untold
  <2>3. lost \subseteq lost'
    BY <1>2 DEF Crash
  <2> QED BY <1>2, <2>1, <2>2, <2>3, IdleType, NothingTold DEF Crash
<1> QED BY <1>1, <1>2


-----------------------------------------------------------------------------
(* What each operation tells.                                               *)

\* A request ends, or begins, without telling anything.
LEMMA QuietKept ==
    ASSUME IInv, IInv', KInv, Outside', UNCHANGED <<file, told, lost, issued>>,
           NEW h \in Threads, NEW r, Goes(h, r), r.step # "tell", req[h].step # "tell",
           \A u \in Users :
               \/ /\ db'.users[u].password = db.users[u].password
                  /\ db'.users[u].state = "unborn" => db.users[u].state = "unborn"
                  /\ db'.users[u].state = "live" => db.users[u].state = "live"
               \/ /\ db.users[u].state = "unborn" /\ db'.users[u].state # "unborn"
                  /\ db'.users[u].password = Unknown
    PROVE  KInv'
<1>1. \A i \in Threads : req'[i] = IF i = h THEN r ELSE req[i]
  BY DEF Goes, IInv, TypeOK
<1> QED BY <1>1, NothingTold

LEMMA BeginKept ==
    ASSUME IInv, IInv', KInv, Outside', NEW h \in Threads, NEW u \in Users, NEW kind,
           NEW step \in {"verified", "apply"}, Begin(h, kind, step, u)
    PROVE  KInv'
<1> DEFINE r == [Idle EXCEPT !.kind = kind, !.step = step, !.user = u,
                             !.password = db.users[u].password, !.revoked = db.users[u].revoked]
<1>1. r.step # "tell" /\ req[h].step # "tell" /\ Goes(h, r)
  BY IdleType DEF Begin, Serve, Free, Idle
<1> HIDE DEF r
<1> QED BY <1>1, QuietKept DEF Begin, history

LEMMA BeginsKept ==
    ASSUME IInv, IInv', KInv, Outside', NEW h \in Threads,
           \/ \E u \in Users : BeginLogin(h, u)
           \/ \E s \in Sids : BeginChange(h, s)
           \/ \E s \in Sids, op \in Administered, u \in Users : BeginAdministration(h, s, op, u)
    PROVE  KInv'
<1>1. CASE \E u \in Users : BeginLogin(h, u)
  BY <1>1, BeginKept DEF BeginLogin
<1>2. CASE \E s \in Sids : BeginChange(h, s)
  <2>1. PICK s \in Sids : BeginChange(h, s)
    BY <1>2
  <2>2. Holder(s) \in Users
    BY <2>1 DEF BeginChange, SignedIn, Open, Holder, IInv, TypeOK, Database, Session
  <2> QED BY <2>1, <2>2, BeginKept DEF BeginChange
<1>3. CASE \E s \in Sids, op \in Administered, u \in Users : BeginAdministration(h, s, op, u)
  BY <1>3, BeginKept DEF BeginAdministration
<1> QED BY <1>1, <1>2, <1>3

\* What the removal of an account's sessions, and a session's insertion, leave of accounts.
LEMMA RevokeAccounts ==
    ASSUME NEW d \in Database, NEW u \in Users
    PROVE  \A v \in Users : /\ Revoke(d, u).users[v].password = d.users[v].password
                            /\ Revoke(d, u).users[v].state = d.users[v].state
                            /\ v # u => Revoke(d, u).users[v] = d.users[v]
<1>1. d.users[u] \in Account
  BY DEF Database
<1>2. Revoke(d, u).users = [d.users EXCEPT ![u] = [d.users[u] EXCEPT !.revoked = @ + 1]]
  BY DEF Revoke, Database
<1> QED BY <1>1, <1>2 DEF Database, Account

LEMMA SetPasswordAccounts ==
    ASSUME NEW d \in Database, NEW u \in Users, NEW p \in Passwords, NEW forced \in BOOLEAN
    PROVE  LET e == SetPassword(d, u, p, forced) IN
           /\ e.users[u].password = p /\ e.users[u].state = d.users[u].state
           /\ \A v \in Users \ {u} : e.users[v] = d.users[v]
<1> DEFINE a == [d.users[u] EXCEPT !.password = p, !.forced = forced]
           w == [d EXCEPT !.users[u].password = p, !.users[u].forced = forced]
           e == SetPassword(d, u, p, forced)
<1>1. d.users[u] \in Account
  BY DEF Database
<1>2. a \in Account /\ a.state = d.users[u].state /\ a.password = p
  BY <1>1 DEF Account
<1>3. w = [d EXCEPT !.users[u] = a]
  BY DEF Database, Account
<1>4. e = Revoke(w, u)
  BY DEF SetPassword
<1> HIDE DEF w, a, e
<1>5. w \in Database /\ w.users = [d.users EXCEPT ![u] = a]
  BY <1>2, <1>3, AccountType DEF Database
<1>6. e.users[u].password = w.users[u].password /\ e.users[u].state = w.users[u].state
  BY <1>4, <1>5, RevokeAccounts
<1>7. \A v \in Users \ {u} : e.users[v] = w.users[v]
  BY <1>4, <1>5, RevokeAccounts
<1>8. w.users[u] = a /\ \A v \in Users \ {u} : w.users[v] = d.users[v]
  BY <1>5 DEF Database
<1> QED BY <1>2, <1>6, <1>7, <1>8 DEF e

LEMMA ChangeKept == ASSUME IInv, IInv', EInv, KInv, Outside', NEW h \in Threads, FinishChange(h) PROVE KInv'
<1> DEFINE u == req[h].user
           d == SetPassword(db, u, Fresh, FALSE)
<1>1. req[h].step = "verified" /\ u \in Users /\ Fresh \in Passwords
  BY PasswordType DEF FinishChange, IInv, AllFit, Fit
<1>2. db \in Database /\ d \in Database
  BY <1>1, SetPasswordType DEF IInv, TypeOK
<1>3. /\ d.users[u].password = Fresh /\ d.users[u].state = db.users[u].state
      /\ \A v \in Users \ {u} : d.users[v] = db.users[v]
  BY <1>1, <1>2, SetPasswordAccounts
<1>4. PICK s \in Sids : Admit(d, s, u, "local", req[h].revoked)
  BY DEF FinishChange
<1> HIDE DEF d
<1>5. db'.users = d.users /\ d.users[u].state = "live"
  BY <1>2, <1>4 DEF Admit, Database
<1>6. \A i \in Threads : req'[i] = IF i = h THEN Idle ELSE req[i]
  BY DEF FinishChange, Ends, Goes, IInv, TypeOK
<1>7. \A i \in Threads : req'[i] = req[i] \/ (req[i].step # "tell" /\ req'[i].step # "tell")
  BY <1>1, <1>6, IdleType
<1> QED BY <1>1, <1>3, <1>5, <1>7, Chosen DEF FinishChange, Issue

LEMMA AnswerKept ==
    ASSUME IInv, IInv', KInv, Outside', NEW h \in Threads, CreateUser(h) \/ ResetPassword(h) PROVE KInv'
<1> DEFINE u == req[h].user
           r == [req[h] EXCEPT !.step = "tell", !.password = Fresh]
<1>1. /\ req[h].step = "apply" /\ u \in Users /\ Fresh \in Passwords
      /\ req[h].kind \notin {"boot", "console"}
  BY PasswordType DEF CreateUser, ResetPassword, IInv, AllFit, Fit
<1>2. db \in Database
  BY DEF IInv, TypeOK
<1>3. /\ db'.users[u].password = Fresh /\ db'.users[u].state # "unborn"
      /\ \A v \in Users \ {u} : db'.users[v] = db.users[v]
  <2>1. CASE CreateUser(h)
    BY <1>1, <1>2, <2>1 DEF CreateUser, Born, Unborn, Database
  <2>2. CASE ResetPassword(h)
    <3>1. db' = SetPassword(db, u, Fresh, TRUE) /\ db.users[u].state = "live"
      BY <2>2 DEF ResetPassword, Live
    <3> DEFINE d == SetPassword(db, u, Fresh, TRUE)
    <3>3. /\ d.users[u].password = Fresh /\ d.users[u].state = db.users[u].state
          /\ \A v \in Users \ {u} : d.users[v] = db.users[v]
      BY <1>1, <1>2, SetPasswordAccounts
    <3> QED BY <3>1, <3>3
  <2> QED BY <2>1, <2>2
<1>6. h \in Workers
  BY <1>1 DEF KInv, Outside
<1>4. \A i \in Threads : req'[i] = IF i = h THEN r ELSE req[i]
  BY DEF CreateUser, ResetPassword, Answers, Goes, IInv, TypeOK
<1>5. r.step = "tell" /\ r.user = u /\ r.password = Fresh /\ r.kind = req[h].kind
  BY DEF IInv, TypeOK, Request
<1> HIDE DEF r
<1> QED BY <1>1, <1>3, <1>4, <1>5, <1>6, Promised DEF CreateUser, ResetPassword, Issue, history

LEMMA RootKept == ASSUME IInv, IInv', KInv, Outside', Start \/ ResetAdmin PROVE KInv'
<1> DEFINE r(kind) == [Idle EXCEPT !.kind = kind, !.step = "tell", !.user = Root,
                                   !.password = Fresh]
<1>1. /\ Root \in Users /\ {Boot, Console} \subseteq Threads /\ db \in Database
      /\ \A kind : /\ r(kind).step = "tell" /\ r(kind).user = Root /\ r(kind).password = Fresh
                   /\ r(kind).kind = kind
  BY UsersAssumption DEF Threads, Idle, IInv, TypeOK
<1>2. ASSUME db' = [db EXCEPT !.users[Root] = Born(Fresh, TRUE)]
      PROVE  /\ db'.users[Root].password = Fresh /\ db'.users[Root].state # "unborn"
             /\ \A v \in Users \ {Root} : db'.users[v] = db.users[v]
  BY <1>1, <1>2 DEF Born, Unborn, Database
<1>3. CASE ResetAdmin
  <2>1. Fresh \in Passwords /\ Goes(Console, r("console"))
    BY <1>3, PasswordType DEF ResetAdmin, IInv
  <2>2. /\ db'.users[Root].password = Fresh /\ db'.users[Root].state # "unborn"
        /\ \A v \in Users \ {Root} : db'.users[v] = db.users[v]
    <3>1. CASE Live(Root)
      <4>1. db' = SetPassword(db, Root, Fresh, TRUE) /\ db.users[Root].state = "live"
        BY <1>3, <3>1 DEF ResetAdmin, Live
      <4> DEFINE d == SetPassword(db, Root, Fresh, TRUE)
      <4>2. /\ d.users[Root].password = Fresh /\ d.users[Root].state = db.users[Root].state
            /\ \A v \in Users \ {Root} : d.users[v] = db.users[v]
        BY <1>1, <2>1, SetPasswordAccounts
      <4> QED BY <4>1, <4>2
    <3>2. CASE ~Live(Root)
      BY <1>2, <1>3, <3>2 DEF ResetAdmin
    <3> QED BY <3>1, <3>2
  <2> HIDE DEF r
  <2>3. \A i \in Threads : req'[i] = IF i = Console THEN r("console") ELSE req[i]
    BY <2>1 DEF Goes, IInv, TypeOK
  <2>4. req[Console].step # "tell"
    BY <1>3, IdleType DEF ResetAdmin, Serve, Free
  <2>5. UNCHANGED <<file, told, lost>> /\ issued' = Fresh
    BY <1>3 DEF ResetAdmin, Issue, history
  <2>6. /\ req'[Console].step = "tell" /\ req'[Console].user = Root
        /\ req'[Console].password = Fresh /\ req'[Console].kind = "console"
        /\ \A i \in Threads \ {Console} : req'[i] = req[i]
    BY <1>1, <2>3
  <2> QED BY <1>1, <2>2, <2>4, <2>5, <2>6, Promised
<1>4. CASE Start /\ FirstRun /\ server' = "starting"
  <2>1. Goes(Boot, r("boot")) /\ db.users[Root].state = "unborn"
    BY <1>4 DEF Start, FirstRun
  <2>2. /\ db'.users[Root].password = Fresh /\ db'.users[Root].state # "unborn"
        /\ \A v \in Users \ {Root} : db'.users[v] = db.users[v]
    BY <1>2, <1>4 DEF Start
  <2> HIDE DEF r
  <2>3. \A i \in Threads : req'[i] = IF i = Boot THEN r("boot") ELSE req[i]
    BY <2>1 DEF Goes, IInv, TypeOK
  <2>4. req[Boot].step # "tell"
    <3>1. Boot \in Threads \ Workers /\ Boot # Console
      BY ThreadsAssumption DEF Threads
    <3> QED BY <2>1, <3>1 DEF KInv, Announcers, InSequence, Tells
  <2> QED BY <1>1, <1>4, <2>1, <2>2, <2>3, <2>4, Promised DEF Start, Issue, history
<1>5. CASE Start /\ UNCHANGED <<db, req, issued>>
  BY <1>5, NothingTold DEF Start, history
<1> QED BY <1>3, <1>4, <1>5 DEF Start

\* Steps that touch no password and tell none.
LEMMA OthersKept ==
    ASSUME IInv, IInv', KInv, Outside',
           \/ UNCHANGED vars
           \/ \E s \in Sids : Logout(s)
           \/ \E f \in Flows : StartSso(f) \/ FlowExpires(f)
           \/ \E h \in Threads :
                 \/ \E f \in Flows : Consume(h, f)
                 \/ FinishLogin(h) \/ LoginFails(h) \/ AdministrationFails(h) \/ Refused(h)
                 \/ BusyTimeout(h)
    PROVE  KInv'
<1>1. CASE \/ UNCHANGED vars \/ \E s \in Sids : Logout(s)
           \/ \E f \in Flows : StartSso(f) \/ FlowExpires(f)
  <2>1. db'.users = db.users /\ req' = req /\ UNCHANGED <<file, told, lost, issued>>
    BY <1>1 DEF vars, Logout, StartSso, FlowExpires, IInv, TypeOK, Database, history, bounds
  <2> QED BY <2>1, NothingTold
<1>2. ASSUME NEW h \in Threads, NEW f \in Flows, Consume(h, f) PROVE KInv'
  <2> DEFINE r == [Idle EXCEPT !.kind = "callback", !.step = "claims", !.flow = f]
  <2>1. r.step # "tell" /\ req[h].step # "tell" /\ Goes(h, r)
    BY <1>2, IdleType DEF Consume, Serve, Free, Idle
  <2> HIDE DEF r
  <2> QED BY <1>2, <2>1, QuietKept DEF Consume, history
<1>3. ASSUME NEW h \in Threads,
             LoginFails(h) \/ AdministrationFails(h) \/ Refused(h) \/ BusyTimeout(h)
      PROVE  KInv'
  <2>1. req[h].step # "tell" /\ Goes(h, Idle) /\ Idle.step # "tell"
    BY <1>3, IdleType DEF LoginFails, AdministrationFails, Refused, BusyTimeout, Ends
  <2> QED BY <1>3, <2>1, QuietKept
          DEF LoginFails, AdministrationFails, Refused, BusyTimeout, history, bounds
<1>4. ASSUME NEW h \in Threads, FinishLogin(h) PROVE KInv'
  <2>1. req[h].step # "tell" /\ Goes(h, Idle) /\ Idle.step # "tell"
    BY <1>4, IdleType DEF FinishLogin, Ends, IInv, AllFit, Fit
  <2>2. db'.users = db.users
    BY <1>4 DEF FinishLogin, Admit, IInv, TypeOK, Database
  <2> QED BY <1>4, <2>1, <2>2, QuietKept DEF FinishLogin, history, bounds
<1> QED BY <1>1, <1>2, <1>3, <1>4

LEMMA UpdateKept ==
    ASSUME IInv, IInv', KInv, Outside', NEW h \in Threads, UpdateUser(h) \/ DeleteUser(h)
    PROVE  KInv'
<1> DEFINE u == req[h].user
           d(active) == [db EXCEPT !.users[u].active = active]
           e == Revoke(db, u)
<1>1. /\ req[h].step # "tell" /\ u \in Users /\ db.users[u].state = "live"
      /\ db \in Database /\ db.users[u] \in Account
  BY PasswordType
     DEF UpdateUser, DeleteUser, IInv, AllFit, Fit, TypeOK, Administered, Generated, Live
<1>2. Goes(h, Idle) /\ Idle.step # "tell" /\ UNCHANGED <<file, told, lost, issued>>
  BY IdleType DEF UpdateUser, DeleteUser, Ends, history, bounds
<1>3. ASSUME NEW active \in BOOLEAN
      PROVE  /\ d(active) \in Database
             /\ \A v \in Users : /\ d(active).users[v].password = db.users[v].password
                                 /\ d(active).users[v].state = db.users[v].state
  <2> DEFINE a == [db.users[u] EXCEPT !.active = active]
  <2>1. a \in Account /\ a.password = db.users[u].password /\ a.state = db.users[u].state
    BY <1>1 DEF Account
  <2>2. d(active) = [db EXCEPT !.users[u] = a]
    BY <1>1 DEF Account
  <2> HIDE DEF a, d
  <2>3. d(active) \in Database
    <3>1. [db EXCEPT !.users[u] = a] \in Database
      BY <1>1, <2>1, AccountType
    <3> QED BY <2>2, <3>1
  <2>4. \A v \in Users : d(active).users[v] = IF v = u THEN a ELSE db.users[v]
    BY <1>1, <2>2 DEF Database
  <2> QED BY <2>1, <2>3, <2>4
<1>4. CASE UpdateUser(h)
  <2>1. db' = Revoke(d(FALSE), u) \/ db' = d(TRUE)
    BY <1>4 DEF UpdateUser
  <2> HIDE DEF d, u
  <2>2. \A v \in Users : /\ db'.users[v].password = db.users[v].password
                         /\ db'.users[v].state = db.users[v].state
    <3>1. ASSUME NEW active \in BOOLEAN
          PROVE  \A v \in Users :
                    /\ Revoke(d(active), u).users[v].password = db.users[v].password
                    /\ Revoke(d(active), u).users[v].state = db.users[v].state
      BY <1>1, <1>3, RevokeAccounts
    <3>2. CASE db' = Revoke(d(FALSE), u)
      BY <3>1, <3>2
    <3>3. CASE db' = d(TRUE)
      BY <1>3, <3>3
    <3> QED BY <2>1, <3>2, <3>3
  <2> QED BY <1>1, <1>2, <2>2, QuietKept
<1>5. CASE DeleteUser(h)
  <2> DEFINE a == [e.users[u] EXCEPT !.state = "deleted"]
  <2>1. db' = [e EXCEPT !.users[u] = a]
    BY <1>5 DEF DeleteUser
  <2>2. /\ e \in Database
        /\ \A v \in Users : /\ e.users[v].password = db.users[v].password
                            /\ e.users[v].state = db.users[v].state
    BY <1>1, RevokeAccounts, RevokeType
  <2> HIDE DEF e
  <2>3. a.password = e.users[u].password /\ a.state = "deleted"
    BY <1>1, <2>2 DEF Database, Account
  <2> HIDE DEF a
  <2>4. \A v \in Users : db'.users[v] = IF v = u THEN a ELSE e.users[v]
    BY <1>1, <2>1, <2>2 DEF Database
  <2>5. \A v \in Users : /\ db'.users[v].password = db.users[v].password
                         /\ db'.users[v].state = IF v = u THEN "deleted" ELSE db.users[v].state
    BY <2>2, <2>3, <2>4
  <2> QED BY <1>1, <1>2, <2>5, QuietKept
<1> QED BY <1>4, <1>5

LEMMA CompleteKept ==
    ASSUME IInv, IInv', KInv, Outside', NEW h \in Threads, NEW m \in Mails, Complete(h, m)
    PROVE  KInv'
<1> DEFINE f == req[h].flow
           d == [db EXCEPT !.flows[f] = "gone"]
           e(u) == [d EXCEPT !.users[u] = Born(Unknown, FALSE)]
<1>1. d \in Database /\ d.users = db.users
  <2>1. f \in Flows
    BY DEF Complete, IInv, AllFit, Fit
  <2> QED BY <2>1 DEF IInv, TypeOK, Database
<1>2. PICK s \in Sids :
         \/ \E u \in SignsInAs(m) : Admit(d, s, u, "sso", db.users[u].revoked)
         \/ \E u \in Provisioned(m) : Admit(e(u), s, u, "sso", db.users[u].revoked)
  BY DEF Complete
<1> HIDE DEF d
<1>3. \/ db'.users = db.users
      \/ \E u \in Users : /\ db.users[u].state = "unborn"
                          /\ db'.users = [db.users EXCEPT ![u] = Born(Unknown, FALSE)]
  <2>1. CASE \E u \in SignsInAs(m) : Admit(d, s, u, "sso", db.users[u].revoked)
    BY <1>1, <2>1 DEF Admit, Database
  <2>2. CASE \E u \in Provisioned(m) : Admit(e(u), s, u, "sso", db.users[u].revoked)
    <3>1. PICK u \in Provisioned(m) : Admit(e(u), s, u, "sso", db.users[u].revoked)
      BY <2>2
    <3>2. e(u).users = [db.users EXCEPT ![u] = Born(Unknown, FALSE)]
      BY <1>1 DEF Database
    <3>3. db'.users = e(u).users
      <4>1. DOMAIN e(u) = DOMAIN d
        OBVIOUS
      <4> QED BY <1>1, <3>1, <4>1 DEF Admit, Database
    <3> QED BY <3>1, <3>2, <3>3 DEF Provisioned, Addressed
  <2> QED BY <1>2, <2>1, <2>2
<1>4. \A u \in Users :
         \/ db'.users[u] = db.users[u]
         \/ /\ db.users[u].state = "unborn" /\ db'.users[u].state # "unborn"
            /\ db'.users[u].password = Unknown
  <2>1. Born(Unknown, FALSE).state = "live" /\ Born(Unknown, FALSE).password = Unknown
    BY DEF Born, Unborn
  <2> QED BY <1>3, <2>1 DEF IInv, TypeOK, Database
<1>5. req[h].step # "tell" /\ Goes(h, Idle) /\ Idle.step # "tell"
  BY IdleType DEF Complete, Ends
<1>6. UNCHANGED <<file, told, lost, issued>>
  BY DEF Complete, bounds
<1> QED BY <1>4, <1>5, <1>6, QuietKept

\* Only a thread of the server begins, or goes on with, a request of another kind.
LEMMA OutsideNext == IInv /\ KInv /\ [Next]_vars => Outside'
<1> SUFFICES ASSUME IInv, KInv, [Next]_vars PROVE Outside'
  OBVIOUS
<1>1. ASSUME NEW h \in Threads, NEW r, Goes(h, r), h \in Workers \/ r.step \in {"idle", "tell"}
      PROVE  Outside'
  BY <1>1 DEF Goes, IInv, TypeOK, KInv, Outside
<1>2. CASE UNCHANGED vars \/ (\E s \in Sids : Logout(s))
           \/ \E f \in Flows : StartSso(f) \/ FlowExpires(f)
  BY <1>2 DEF vars, Logout, StartSso, FlowExpires, KInv, Outside
<1>3. CASE Crash
  BY <1>3, IdleType DEF Crash, KInv, Outside
<1>4. CASE Start \/ ResetAdmin \/ Interrupt
  <2>1. \A kind : [Idle EXCEPT !.kind = kind, !.step = "tell", !.user = Root,
                               !.password = Fresh].step = "tell"
    BY DEF Idle
  <2>2. {Boot, Console} \subseteq Threads
    BY DEF Threads
  <2>3. CASE ResetAdmin \/ Interrupt
    BY <1>1, <2>1, <2>2, <2>3, IdleType DEF ResetAdmin, Interrupt, Ends
  <2>4. CASE Start
    BY <1>1, <2>1, <2>2, <2>4 DEF Start, KInv, Outside
  <2> QED BY <1>4, <2>3, <2>4
<1>5. ASSUME NEW h \in Threads,
             \/ \E u \in Users : BeginLogin(h, u)
             \/ \E s \in Sids : BeginChange(h, s)
             \/ \E s \in Sids, op \in Administered, u \in Users : BeginAdministration(h, s, op, u)
             \/ \E f \in Flows : Consume(h, f)
      PROVE  Outside'
  BY <1>1, <1>5 DEF BeginLogin, BeginChange, BeginAdministration, Begin, Consume
<1>6. ASSUME NEW h \in Threads,
             \/ \E m \in Mails : Complete(h, m)
             \/ FinishLogin(h) \/ LoginFails(h) \/ FinishChange(h)
             \/ UpdateUser(h) \/ DeleteUser(h)
             \/ AdministrationFails(h) \/ Refused(h) \/ BusyTimeout(h) \/ Tell(h)
      PROVE  Outside'
  BY <1>1, <1>6, IdleType
     DEF Complete, FinishLogin, LoginFails, FinishChange, UpdateUser, DeleteUser,
         AdministrationFails, Refused, BusyTimeout, Tell, Ends
<1>7. ASSUME NEW h \in Threads, CreateUser(h) \/ ResetPassword(h)
      PROVE  Outside'
  <2>1. h \in Workers
    BY <1>7 DEF CreateUser, ResetPassword, KInv, Outside
  <2> QED BY <1>1, <1>7, <2>1 DEF CreateUser, ResetPassword, Answers
<1> QED BY <1>2, <1>3, <1>4, <1>5, <1>6, <1>7 DEF Next

LEMMA InitKept == Init => KInv
<1> SUFFICES ASSUME Init PROVE KInv
  OBVIOUS
<1>1. \A h \in Threads : req[h].step = "idle"
  BY IdleType DEF Init
<1>2. \A u \in Users : db.users[u].state = "unborn" /\ db.users[u].password = 0
  BY DEF Init, Unborn, Unknown
<1>3. file = 0 /\ issued = 0
  BY DEF Init, Unknown
<1> QED BY <1>1, <1>2, <1>3
        DEF KInv, Outside, InSequence, Announcers, FileOutdated, Tells, NoSilentLockout, Live, Unknown

LEMMA NextKept == IInv /\ IInv' /\ EInv /\ KInv /\ [Next]_vars => KInv'
<1> SUFFICES ASSUME IInv, IInv', EInv, KInv, [Next]_vars PROVE KInv'
  OBVIOUS
<1>0. Outside'
  BY OutsideNext
<1>1. CASE Start \/ ResetAdmin \/ Interrupt \/ Crash \/ UNCHANGED vars
  BY <1>0, <1>1, RootKept, AbandonedKept, OthersKept
<1>2. CASE (\E s \in Sids : Logout(s)) \/ (\E f \in Flows : StartSso(f) \/ FlowExpires(f))
  BY <1>0, <1>2, OthersKept
<1>3. ASSUME NEW h \in Threads,
             \/ \E f \in Flows : Consume(h, f)
             \/ FinishLogin(h) \/ LoginFails(h) \/ AdministrationFails(h) \/ Refused(h)
             \/ BusyTimeout(h)
      PROVE  KInv'
  BY <1>0, <1>3, OthersKept
<1>4. ASSUME NEW h \in Threads,
             \/ \E m \in Mails : Complete(h, m)
             \/ FinishChange(h) \/ CreateUser(h) \/ ResetPassword(h)
             \/ UpdateUser(h) \/ DeleteUser(h) \/ Tell(h)
      PROVE  KInv'
  BY <1>0, <1>4, CompleteKept, ChangeKept, AnswerKept, UpdateKept, ToldKept
<1> QED BY <1>0, <1>1, <1>2, <1>3, <1>4, BeginsKept DEF Next

\* The password of every living account is known, about to be told, or was lost to a mishap
\* between its commit and its announcement, for any number of accounts, requests and mishaps
\* (ensure_first_run_admin, reset_admin_password, reset_user_password).
THEOREM NobodyIsLockedOutSilently == Spec => []NoSilentLockout
<1>1. KInv => NoSilentLockout
  BY DEF KInv
<1> QED BY <1>1, InvHolds, InitEarned, NextEarned, InitKept, NextKept, PTL DEF Spec
=============================================================================
