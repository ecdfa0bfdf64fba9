-------------------------------- MODULE Sessions --------------------------------
(***************************************************************************)
(* Who is signed in, and who could be: passwords, sessions, single sign-on *)
(* flows and the first administrator (backend/app/routers/auth.py and      *)
(* users.py over sessions.py, sso.py, admin.py, deps.py).  A password is   *)
(* verified outside any transaction and the session it earns is inserted   *)
(* later; a single sign-on callback keeps the write lock while it talks to *)
(* the identity provider; a generated password is committed before anybody *)
(* is told.                                                                *)
(***************************************************************************)
EXTENDS Naturals, FiniteSets

CONSTANTS
    Users,        \* ids of accounts (AUTOINCREMENT: an id is never reused)
    Root,         \* the account named "admin"
    Admins,       \* accounts that are administrators from birth
    Mails, mail,  \* e-mail addresses; the one each account but Root signs in with
    Workers,      \* threads of the server
    Boot,         \* the server's start
    Console,      \* reset-admin-password, run in a process of its own
    Sids,         \* session ids
    Flows,        \* states of single sign-on attempts (sso_auth_flows)
    Nobody, NoRequest,
    MaxPasswords, \* bound: passwords generated or chosen
    MaxRequests,  \* bound: requests served
    MaxMishaps    \* bound: crashes and failing writes of the credentials file

ASSUME UsersAssumption == Root \in Admins /\ Admins \subseteq Users /\ Nobody \notin Users
ASSUME MailAssumption == mail \in [Users \ {Root} -> Mails] /\ Nobody \notin Mails
ASSUME ThreadsAssumption ==
    /\ Boot # Console /\ {Boot, Console} \cap Workers = {}
    /\ NoRequest \notin Workers \cup {Boot, Console}
ASSUME FlowsAssumption == Nobody \notin Flows
ASSUME BoundsAssumption == {MaxPasswords, MaxRequests, MaxMishaps} \subseteq Nat

VARIABLES
    db,      \* the committed database: accounts, sessions, flows
    writer,  \* the single sign-on callback that holds the write lock
    req,     \* the request each thread serves
    server,  \* whether the server accepts requests
    file,    \* the password in first-run-admin-credentials.txt
    told,    \* passwords somebody has been told or has chosen (history)
    lost,    \* accounts whose new password died with its request (history)
    signed,  \* how often each flow completed a sign-in (history)
    issued, served, mishaps

history == <<told, lost, signed>>
bounds == <<issued, served, mishaps>>
vars == <<db, writer, req, server, file, history, bounds>>

Threads == Workers \cup {Boot, Console}
Passwords == 0 .. MaxPasswords
Unknown == 0      \* the random password of an account made by single sign-on
Generated == {"boot", "console", "newUser", "reset"}
Administered == {"newUser", "reset", "disable", "enable", "delete"}

\* revoked counts the times all sessions of an account were removed.
Account == [state : {"unborn", "live", "deleted"}, active : BOOLEAN, password : Passwords,
            forced : BOOLEAN, revoked : Nat]
Session == [user : Users, method : {"local", "sso"}, revoked : Nat, late : BOOLEAN]
NoSession == [user |-> Nobody]
Unborn == [state |-> "unborn", active |-> FALSE, password |-> Unknown,
           forced |-> FALSE, revoked |-> 0]
Idle == [kind |-> "none", step |-> "idle", user |-> Nobody, password |-> Unknown,
         revoked |-> 0, flow |-> Nobody]
Request == [kind : Generated \cup Administered \cup {"none", "login", "change", "callback"},
            step : {"idle", "verified", "apply", "claims", "tell"},
            user : Users \cup {Nobody}, password : Passwords, revoked : Nat,
            flow : Flows \cup {Nobody}]
Database == [users : [Users -> Account], sessions : [Sids -> Session \cup {NoSession}],
             flows : [Flows -> {"unused", "open", "gone"}]]

TypeOK ==
    /\ db \in Database
    /\ writer \in Workers \cup {NoRequest}
    /\ req \in [Threads -> Request]
    /\ server \in {"down", "starting", "up"}
    /\ file \in Passwords /\ told \subseteq Passwords \ {Unknown} /\ lost \subseteq Users
    /\ signed \in [Flows -> Nat]
    /\ issued \in Passwords /\ served \in 0 .. MaxRequests /\ mishaps \in 0 .. MaxMishaps
    /\ writer # NoRequest => req[writer].step = "claims"
    /\ \A h \in Workers : req[h].step # "idle" => server = "up"

Init ==
    /\ db = [users |-> [u \in Users |-> Unborn], sessions |-> [s \in Sids |-> NoSession],
             flows |-> [f \in Flows |-> "unused"]]
    /\ writer = NoRequest
    /\ req = [h \in Threads |-> Idle]
    /\ server = "down" /\ file = Unknown
    /\ told = {} /\ lost = {} /\ signed = [f \in Flows |-> 0]
    /\ issued = 0 /\ served = 0 /\ mishaps = 0

-----------------------------------------------------------------------------
(* What requests read.                                                      *)

Live(u) == db.users[u].state = "live"
Usable(u) == Live(u) /\ db.users[u].active

\* An expired session authenticates nobody: it is as good as deleted.
Open == {s \in Sids : db.sessions[s] # NoSession}
Holder(s) == db.sessions[s].user
SignedIn(s) == s \in Open /\ Usable(Holder(s))

\* What a person can type: what they were told, chose, or read in the file.
Known == (told \cup {file}) \ {Unknown}

\* _guard_last_admin, and the same test in update_user.
Guarded(u) == u \in Admins /\ Usable(u) /\ ~\E a \in Admins \ {u} : Usable(a)

Addressed(m) == {u \in Users \ {Root} : mail[u] = m}
Taken(m) == \E u \in Addressed(m) : Live(u)

-----------------------------------------------------------------------------
(* Transactions and requests.                                               *)

CanWrite(h) == writer \in {NoRequest, h}
Free(h) == req[h] = Idle
Fresh == issued + 1
CanIssue == issued < MaxPasswords
Issue == issued' = Fresh

Goes(h, r) == req' = [req EXCEPT ![h] = r]
Ends(h) == Goes(h, Idle)
Serve(h) == Free(h) /\ served < MaxRequests /\ served' = served + 1
Begin(h, kind, step, u) ==
    /\ server = "up" /\ h \in Workers /\ Serve(h)
    /\ Goes(h, [Idle EXCEPT !.kind = kind, !.step = step, !.user = u,
                            !.password = db.users[u].password,
                            !.revoked = db.users[u].revoked])
    /\ UNCHANGED <<db, writer, server, file, history, issued, mishaps>>

RevokeLocal(d, u) ==    \* seeded bug
    [d EXCEPT !.users[u].revoked = @ + 1,
              !.sessions = [s \in Sids |-> IF @[s].user = u /\ @[s].method = "local"
                                           THEN NoSession ELSE @[s]]]
\* delete_user_sessions.
Revoke(d, u) ==
    [d EXCEPT !.users[u].revoked = @ + 1,
              !.sessions = [s \in Sids |-> IF @[s].user = u THEN NoSession ELSE @[s]]]

\* set_password, always followed by the removal of the account's sessions.
SetPassword(d, u, p, forced) ==
    Revoke([d EXCEPT !.users[u].password = p, !.users[u].forced = forced], u)

\* create_session: the id is random; late if what earned it had been revoked before.
Admit(d, s, u, method, revoked) ==
    /\ s \notin Open /\ d.users[u].state = "live"
    /\ db' = [d EXCEPT !.sessions[s] =
                 [user |-> u, method |-> method, revoked |-> d.users[u].revoked,
                  late |-> revoked # db.users[u].revoked]]

Born(p, forced) == [Unborn EXCEPT !.state = "live", !.active = TRUE, !.password = p,
                                  !.forced = forced]
-----------------------------------------------------------------------------
(* Signing in and out with a password.                                      *)

\* login: the hash is read and verified, which takes a while on purpose.
BeginLogin(h, u) ==
    /\ Usable(u) /\ db.users[u].password \in Known
    /\ Begin(h, "login", "verified", u)

\* _create_session_response; the account is read again, but not its state.
FinishLogin(h) ==
    LET r == req[h] IN
    /\ r.kind = "login" /\ CanWrite(h)
    /\ \E s \in Sids : Admit(db, s, r.user, "local", r.revoked)
    /\ Ends(h)
    /\ UNCHANGED <<writer, server, file, history, bounds>>

\* The account was deleted meanwhile: the insert violates its foreign key.
LoginFails(h) ==
    /\ req[h].step = "verified" /\ ~Live(req[h].user) /\ CanWrite(h)
    /\ Ends(h)
    /\ UNCHANGED <<db, writer, server, file, history, bounds>>

\* logout, or twelve hours passed.
Logout(s) ==
    /\ server = "up" /\ s \in Open /\ writer = NoRequest
    /\ db' = [db EXCEPT !.sessions[s] = NoSession]
    /\ UNCHANGED <<writer, req, server, file, history, bounds>>

\* change_own_password: the caller is signed in and types the current password.
BeginChange(h, s) ==
    /\ SignedIn(s) /\ db.users[Holder(s)].password \in Known /\ CanIssue
    /\ Begin(h, "change", "verified", Holder(s))

\* Every other session goes, the caller gets a fresh one.
FinishChange(h) ==
    LET r == req[h] IN
    /\ r.kind = "change" /\ CanWrite(h) /\ CanIssue
    /\ \E s \in Sids :
           Admit(SetPassword(db, r.user, Fresh, FALSE), s, r.user, "local", r.revoked)
    /\ Issue /\ told' = told \cup {Fresh}
    /\ Ends(h)
    /\ UNCHANGED <<writer, server, file, lost, signed, served, mishaps>>

-----------------------------------------------------------------------------
(* Administration of accounts.                                              *)

\* What the handler checks before it writes.
Admissible(op, u, admin) ==
    CASE op = "newUser" -> /\ db.users[u].state = "unborn" /\ u # Root /\ ~Taken(mail[u])
                           /\ CanIssue
      [] op = "reset"   -> Live(u) /\ CanIssue
      [] op = "enable"  -> Live(u)
      [] op = "disable" -> Live(u) /\ ~Guarded(u)
      [] op = "delete"  -> Live(u) /\ ~Guarded(u) /\ u # admin

BeginAdministration(h, s, op, u) ==
    /\ SignedIn(s) /\ Holder(s) \in Admins /\ Admissible(op, u, Holder(s))
    /\ Begin(h, op, "apply", u)

\* A generated password is in the answer, after the commit.
Answers(h) == Goes(h, [req[h] EXCEPT !.step = "tell", !.password = Fresh])

CreateUser(h) ==
    LET u == req[h].user IN
    /\ req[h].kind = "newUser" /\ req[h].step = "apply" /\ CanWrite(h) /\ CanIssue
    /\ db.users[u].state = "unborn" /\ ~Taken(mail[u])
    /\ db' = [db EXCEPT !.users[u] = Born(Fresh, TRUE)]
    /\ Issue /\ Answers(h)
    /\ UNCHANGED <<writer, server, file, history, served, mishaps>>

ResetPassword(h) ==
    LET u == req[h].user IN
    /\ req[h].kind = "reset" /\ req[h].step = "apply" /\ CanWrite(h) /\ CanIssue /\ Live(u)
    /\ db' = SetPassword(db, u, Fresh, TRUE)
    /\ Issue /\ Answers(h)
    /\ UNCHANGED <<writer, server, file, history, served, mishaps>>

UpdateUser(h) ==
    LET r == req[h] IN
    /\ r.kind \in {"enable", "disable"} /\ CanWrite(h) /\ Live(r.user)
    /\ db' = IF r.kind = "disable"
             THEN Revoke([db EXCEPT !.users[r.user].active = FALSE], r.user)
             ELSE [db EXCEPT !.users[r.user].active = TRUE]
    /\ Ends(h)
    /\ UNCHANGED <<writer, server, file, history, bounds>>

DeleteUser(h) ==
    LET r == req[h] IN
    /\ r.kind = "delete" /\ CanWrite(h) /\ Live(r.user)
    /\ db' = [Revoke(db, r.user) EXCEPT !.users[r.user].state = "deleted"]
    /\ Ends(h)
    /\ UNCHANGED <<writer, server, file, history, bounds>>

\* The account is gone, or the address taken, since the handler looked.
AdministrationFails(h) ==
    LET r == req[h] IN
    /\ r.step = "apply" /\ CanWrite(h)
    /\ IF r.kind = "newUser" THEN Taken(mail[r.user]) \/ db.users[r.user].state # "unborn"
                             ELSE ~Live(r.user)
    /\ Ends(h)
    /\ UNCHANGED <<db, writer, server, file, history, bounds>>

-----------------------------------------------------------------------------
(* Single sign-on.                                                          *)

\* create_flow, and the redirect to the identity provider.
StartSso(f) ==
    /\ server = "up" /\ db.flows[f] = "unused" /\ writer = NoRequest
    /\ db' = [db EXCEPT !.flows[f] = "open"]
    /\ UNCHANGED <<writer, req, server, file, history, bounds>>

ConsumeUnlocked(h, f) ==    \* seeded bug
    /\ server = "up" /\ h \in Workers /\ Serve(h) /\ db.flows[f] = "open"
    /\ Goes(h, [Idle EXCEPT !.kind = "callback", !.step = "claims", !.flow = f])
    /\ UNCHANGED <<db, writer, server, file, history, issued, mishaps>>
\* consume_flow: its first statement deletes expired flows, and so takes the write lock
\* even if there are none.  The flow's own deletion is not committed yet.
Consume(h, f) ==
    /\ server = "up" /\ h \in Workers /\ Serve(h) /\ db.flows[f] = "open"
    /\ writer = NoRequest /\ writer' = h
    /\ Goes(h, [Idle EXCEPT !.kind = "callback", !.step = "claims", !.flow = f])
    /\ UNCHANGED <<db, server, file, history, issued, mishaps>>

\* user_from_sso_claims: an account with the address, or a new one.
SignsInAs(m) == {u \in Addressed(m) : Usable(u)}
Provisioned(m) == {u \in Addressed(m) : db.users[u].state = "unborn" /\ ~Taken(m)}

\* The identity provider vouches for an address; the session and the flow's deletion
\* commit together.
Complete(h, m) ==
    LET f == req[h].flow
        d == [db EXCEPT !.flows[f] = "gone"] IN
    /\ req[h].step = "claims" /\ CanWrite(h)
    /\ \E s \in Sids :
           \/ \E u \in SignsInAs(m) : Admit(d, s, u, "sso", db.users[u].revoked)
           \/ \E u \in Provisioned(m) :
                  Admit([d EXCEPT !.users[u] = Born(Unknown, FALSE)], s, u, "sso",
                        db.users[u].revoked)
    /\ signed' = [signed EXCEPT ![f] = @ + 1]
    /\ writer' = NoRequest /\ Ends(h)
    /\ UNCHANGED <<server, file, told, lost, bounds>>

RefusedStillWriting(h) ==    \* seeded bug
    /\ req[h].step = "claims"
    /\ Ends(h)
    /\ UNCHANGED <<db, writer, server, file, history, bounds>>
\* The provider does not answer, the claims are invalid, the account is inactive or the
\* address not allowed: the transaction rolls back, and the flow is there again.
Refused(h) ==
    /\ req[h].step = "claims"
    /\ writer' = NoRequest /\ Ends(h)
    /\ UNCHANGED <<db, server, file, history, bounds>>

\* Ten minutes passed.
FlowExpires(f) ==
    /\ db.flows[f] = "open" /\ writer = NoRequest
    /\ db' = [db EXCEPT !.flows[f] = "gone"]
    /\ UNCHANGED <<writer, req, server, file, history, bounds>>

\* Five seconds of another request's network calls.
BusyTimeout(h) ==
    /\ req[h].step \in {"verified", "apply"} /\ ~CanWrite(h)
    /\ Ends(h)
    /\ UNCHANGED <<db, writer, server, file, history, bounds>>

-----------------------------------------------------------------------------
(* The first administrator, and the way back in.                            *)

\* Bound: an administrator "admin" that was deleted is not made again.
NoUsers == \A u \in Users : ~Live(u)
FirstRun == NoUsers /\ db.users[Root].state = "unborn" /\ CanIssue

StartUntold ==    \* seeded bug
    /\ server = "down" /\ server' = "up"
    /\ \/ FirstRun /\ Issue /\ db' = [db EXCEPT !.users[Root] = Born(Fresh, TRUE)]
       \/ ~NoUsers /\ UNCHANGED <<db, issued>>
    /\ UNCHANGED <<writer, req, file, history, served, mishaps>>
\* ensure_first_run_admin, during the server's start.
Start ==
    /\ server = "down"
    /\ \/ /\ FirstRun /\ server' = "starting"
          /\ db' = [db EXCEPT !.users[Root] = Born(Fresh, TRUE)]
          /\ Goes(Boot, [Idle EXCEPT !.kind = "boot", !.step = "tell", !.user = Root,
                                     !.password = Fresh])
          /\ Issue
       \/ ~NoUsers /\ server' = "up" /\ UNCHANGED <<db, req, issued>>
    /\ UNCHANGED <<writer, file, history, served, mishaps>>

\* reset_admin_password, whatever the server does.
ResetAdmin ==
    /\ Serve(Console) /\ CanIssue /\ writer = NoRequest
    /\ db.users[Root].state \in {"unborn", "live"}
    /\ db' = IF Live(Root) THEN SetPassword(db, Root, Fresh, TRUE)
             ELSE [db EXCEPT !.users[Root] = Born(Fresh, TRUE)]
    /\ Goes(Console, [Idle EXCEPT !.kind = "console", !.step = "tell", !.user = Root,
                                  !.password = Fresh])
    /\ Issue
    /\ UNCHANGED <<writer, server, file, history, mishaps>>

\* The credentials file is written, the command prints, the answer arrives.
Tell(h) ==
    LET r == req[h] IN
    /\ r.step = "tell"
    /\ file' = IF r.kind \in {"boot", "console"} THEN r.password ELSE file
    /\ told' = IF r.kind = "boot" THEN told ELSE told \cup {r.password}
    /\ server' = IF r.kind = "boot" THEN "up" ELSE server
    /\ lost' = IF db.users[r.user].password = r.password THEN lost \ {r.user} ELSE lost
    /\ Ends(h)
    /\ UNCHANGED <<db, writer, signed, bounds>>

\* Accounts whose password is only in the memory of these threads.
Untold(T) ==
    {u \in Users : \E h \in T : /\ req[h].step = "tell" /\ req[h].user = u
                                /\ db.users[u].password = req[h].password}

\* The command is interrupted, or cannot write the credentials file.
Interrupt ==
    /\ ~Free(Console) /\ mishaps < MaxMishaps /\ mishaps' = mishaps + 1
    /\ lost' = lost \cup Untold({Console})
    /\ Ends(Console)
    /\ UNCHANGED <<db, writer, server, file, told, signed, issued, served>>

\* The server is killed, or cannot write the credentials file when it starts.
Crash ==
    /\ server # "down" /\ server' = "down" /\ mishaps < MaxMishaps /\ mishaps' = mishaps + 1
    /\ lost' = lost \cup Untold(Threads \ {Console})
    /\ req' = [h \in Threads |-> IF h = Console THEN req[h] ELSE Idle]
    /\ writer' = NoRequest
    /\ UNCHANGED <<db, file, told, signed, issued, served>>

-----------------------------------------------------------------------------

Next ==
    \/ Start \/ ResetAdmin \/ Interrupt \/ Crash
    \/ \E s \in Sids : Logout(s)
    \/ \E f \in Flows : StartSso(f) \/ FlowExpires(f)
    \/ \E h \in Threads :
          \/ \E u \in Users : BeginLogin(h, u)
          \/ \E s \in Sids : BeginChange(h, s)
          \/ \E s \in Sids, op \in Administered, u \in Users : BeginAdministration(h, s, op, u)
          \/ \E f \in Flows : Consume(h, f)
          \/ \E m \in Mails : Complete(h, m)
          \/ FinishLogin(h) \/ LoginFails(h) \/ FinishChange(h)
          \/ CreateUser(h) \/ ResetPassword(h) \/ UpdateUser(h) \/ DeleteUser(h)
          \/ AdministrationFails(h) \/ Refused(h) \/ BusyTimeout(h) \/ Tell(h)

Spec == Init /\ [][Next]_vars

-----------------------------------------------------------------------------
(* Properties.                                                              *)

\* Every session belongs to a living account and was earned by what is in force now: the
\* account is active and no password change, reset or deactivation came since, unless
\* that happened while the request that made the session was under way.
SessionsAreEarned ==
    \A s \in Open :
        LET x == db.sessions[s] IN
        /\ Live(x.user)
        /\ x.late \/ (Usable(x.user) /\ x.revoked = db.users[x.user].revoked)

\* A state sent to the identity provider completes one sign-in at most, although a failed
\* callback brings its flow back and callbacks may overlap (consume_flow).
FlowUsedOnce == \A f \in Flows : signed[f] <= 1

\* Somebody knows, or is just being told, the password of every account that has one,
\* unless a crash, an interruption or a full disk came between its commit and its
\* announcement (ensure_first_run_admin, reset_admin_password, reset_user_password).
NoSilentLockout ==
    \A u \in Users :
        Live(u) => \/ db.users[u].password \in Known \cup {Unknown}
                   \/ u \in Untold(Threads) \cup lost

\* What README.md says of reset-admin-password: the administrator's next sign-in with the
\* new password must change it.  A change that verified the old password before the
\* reset and commits after it takes the flag away.
ResetForcesChange ==
    [][\A h \in Threads :
           req[h].kind = "change" /\ req[h].user = Root /\ req'[h] = Idle
           /\ db'.users[Root].password # db.users[Root].password
           => req[h].password = db.users[Root].password]_vars
=============================================================================
