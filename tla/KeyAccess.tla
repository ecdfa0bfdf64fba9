------------------------------- MODULE KeyAccess -------------------------------
(***************************************************************************)
(* Where the SSH keys of accounts are trusted: on each owner's servers, and *)
(* on the jump server, in the owner's own account or in one that all share. *)
(* Every request reads the database, runs commands on those hosts, and      *)
(* writes: backend/app/routers/auth.py (regenerate), provisioning.py        *)
(* (create, reset access, jump-server sync and account mode), users.py      *)
(* (create, delete) over jumpserver.py and servers.py.                      *)
(***************************************************************************)
EXTENDS Integers, FiniteSets

CONSTANTS
    Users,         \* accounts; the jump server's per-user account has the user's name
    Servers,       \* servers ever created
    owner,         \* whose each is
    Shared,        \* the jumper account
    Threads,       \* threads serving requests
    Modes,         \* jump_account_mode: how this instance starts
    Kinds,         \* the requests it makes
    Nobody, NoRequest,
    MaxKey,        \* bound: keys generated for one account
    MaxRequests,   \* bound: requests served
    MaxMishaps     \* bound: failed commands, crashes

ASSUME OwnerAssumption == owner \in [Servers -> Users]
ASSUME PlacesAssumption == Servers \cap Users = {} /\ Shared \notin Servers \cup Users
ASSUME ModesAssumption == Modes \subseteq {"per_user", "shared"}
ASSUME ThreadsAssumption == NoRequest \notin Threads
ASSUME BoundsAssumption == MaxKey \in Nat \ {0} /\ {MaxRequests, MaxMishaps} \subseteq Nat

VARIABLES
    db,         \* the committed database: key served to each account, servers, mode
    draft,      \* the database as the writer sees it
    writer,     \* the request that holds the write lock
    up,         \* guests that run
    keys,       \* authorized_keys of each place
    issued,     \* keys generated for each account
    req,        \* the request each thread serves
    doubt,      \* places no command is known to have brought up to date (history)
    overlapped, \* whether two requests were ever in progress (history)
    served, mishaps

database == <<db, draft, writer>>
bounds   == <<served, overlapped>>
vars     == <<database, up, keys, issued, req, doubt, bounds, mishaps>>

NoKey    == 0
Accounts == Users \cup {Shared}
Places   == Servers \cup Accounts
Keys     == Users \X (1 .. MaxKey)
Pairs    == Users \X Places

Idle == [kind |-> "none", step |-> "idle", user |-> Nobody, old |-> NoKey, key |-> NoKey,
         place |-> Nobody, todo |-> {}, ok |-> TRUE, done |-> {}, held |-> {}]
Steps == {"idle", "install", "insert", "set", "rotate", "reinstall", "load", "onboard",
          "offboard", "write", "revoke", "sync", "drain", "commit"}
Request == [kind : Kinds \cup {"none"}, step : Steps, user : Users \cup {Nobody},
            old : 0 .. MaxKey, key : 0 .. MaxKey, place : Places \cup {Nobody},
            todo : SUBSET Places, ok : BOOLEAN, done : SUBSET Pairs, held : SUBSET Pairs]
Database == [key : [Users -> 0 .. MaxKey], gone : SUBSET Users, rows : SUBSET Servers,
             mode : {"per_user", "shared"}]

Live(d, u)   == d.key[u] # NoKey
Owned(d, u)  == {s \in d.rows : owner[s] = u}
Target(d, u) == IF d.mode = "shared" THEN Shared ELSE u

\* Where the key served to an account has to be, and nowhere else.
Wanted(d, u, p) == IF Live(d, u) /\ p \in Owned(d, u) \cup {Target(d, u)}
                   THEN {d.key[u]} ELSE {}
KeysAt(p, u) == {n \in 1 .. MaxKey : <<u, n>> \in keys[p]}

TypeOK ==
    /\ db \in Database /\ draft \in Database
    /\ writer \in Threads \cup {NoRequest}
    /\ up \subseteq Servers
    /\ keys \in [Places -> SUBSET Keys]
    /\ issued \in [Users -> 0 .. MaxKey]
    /\ req \in [Threads -> Request]
    /\ doubt \subseteq Pairs
    /\ served \in 0 .. MaxRequests /\ mishaps \in 0 .. MaxMishaps /\ overlapped \in BOOLEAN

\* Accounts have their first key or are still to be created; hosts agree.
Init ==
    /\ db \in [key : [Users -> 0 .. 1], gone : {{}}, rows : SUBSET Servers, mode : Modes]
    /\ \A s \in db.rows : Live(db, owner[s])
    /\ draft = db /\ writer = NoRequest
    /\ up = db.rows
    /\ keys = [p \in Places |-> {<<u, 1>> : u \in {v \in Users : Wanted(db, v, p) # {}}}]
    /\ issued = db.key
    /\ req = [h \in Threads |-> Idle]
    /\ doubt = {} /\ overlapped = FALSE
    /\ served = 0 /\ mishaps = 0

-----------------------------------------------------------------------------
(* Transactions and requests.                                               *)

CanWrite(h) == writer \in {NoRequest, h}
View(h)     == IF writer = h THEN draft ELSE db
Hold(h, d)  == draft' = d /\ writer' = h /\ UNCHANGED db
Save(d)     == draft' = d /\ db' = d /\ writer' = NoRequest
Reads       == UNCHANGED database
Mishap      == mishaps < MaxMishaps /\ mishaps' = mishaps + 1

Goes(h, r)  == req' = [req EXCEPT ![h] = r]
Ends(h)     == Goes(h, Idle)

\* What becomes doubtful and what is settled when a request commits.
Altered(d, e) == {q \in Pairs : Wanted(d, q[1], q[2]) # Wanted(e, q[1], q[2])}
Commits(h, d, done) == Save(d) /\ doubt' = (doubt \cup Altered(db, d)) \ done

Starts(h, r) ==
    /\ req[h] = Idle /\ r.kind \in Kinds
    /\ Goes(h, r)
    /\ served < MaxRequests /\ served' = served + 1
    /\ overlapped' = (overlapped \/ \E g \in Threads : req[g] # Idle)
    /\ UNCHANGED <<up, keys, doubt, mishaps>>

-----------------------------------------------------------------------------
(* Commands on the hosts: each rewrites one authorized_keys file by renaming *)
(* a new one over it, and may be reported failed before or after that.       *)

AppendTo(p, u, n) == keys[p] \cup {<<u, n>>}                  \* seeded bug

\* install_public_key and onboard_user: the account's other keys bear its marker.
Replacing(p, u, n) == {k \in keys[p] : k[1] # u} \cup {<<u, n>>}

\* rotate_public_key: only where the old key is.
Rotated(p, u, old, n) == IF <<u, old>> \in keys[p] THEN (keys[p] \ {<<u, old>>}) \cup {<<u, n>>}
                         ELSE keys[p]
Becomes(p, after, ok) ==
    IF ok THEN keys' = [keys EXCEPT ![p] = after] /\ UNCHANGED mishaps
    ELSE keys' \in {keys, [keys EXCEPT ![p] = after]} /\ Mishap

\* A request that will settle places when it commits gives up one that others write to.
Forgets(r, q) ==
    [r EXCEPT !.done = @ \ {q}, !.held = IF r.kind \in {"switch", "delete"} THEN @ \cup {q} ELSE @]
Touched(h, q, r) == req' = [g \in Threads |-> IF g = h THEN r ELSE Forgets(req[g], q)]
Settles(q, good) == doubt' = IF good THEN doubt \ {q} ELSE doubt \cup {q}
Pending(h, q, good, r) ==
    /\ Touched(h, q, [r EXCEPT !.done = IF good THEN @ \cup {q} ELSE @ \ {q}])
    /\ doubt' = doubt \cup {q}

-----------------------------------------------------------------------------
(* A new server trusts the key its owner had when the request began.        *)

BeginServer(h, s) ==
    /\ s \notin db.rows \cup draft.rows \cup up
    /\ \A g \in Threads : req[g].place # s /\ s \notin req[g].todo
    /\ Live(db, owner[s])
    /\ Starts(h, [Idle EXCEPT !.kind = "server", !.step = "install", !.user = owner[s],
                              !.key = db.key[owner[s]], !.place = s])
    /\ Reads /\ UNCHANGED issued

Install(h) ==
    /\ req[h].step = "install"
    /\ up' = up \cup {req[h].place}
    /\ \E ok \in BOOLEAN :
          /\ Becomes(req[h].place, {<<req[h].user, req[h].key>>}, ok)
          /\ Pending(h, <<req[h].user, req[h].place>>, ok, [req[h] EXCEPT !.step = "insert"])
    /\ Reads /\ UNCHANGED <<issued, bounds>>

\* Without its owner, or the write lock, the guest is left without a record.
Insert(h) ==
    /\ req[h].step = "insert"
    /\ IF CanWrite(h) /\ Live(db, req[h].user)
       THEN Commits(h, [db EXCEPT !.rows = @ \cup {req[h].place}],
                    IF req[h].key = db.key[req[h].user] THEN req[h].done ELSE {})
       ELSE Reads /\ UNCHANGED doubt
    /\ Ends(h)
    /\ UNCHANGED <<up, keys, issued, bounds, mishaps>>

-----------------------------------------------------------------------------
(* Regenerating the key of an account.                                      *)

BeginRegenerate(h, u) ==
    /\ Live(db, u)
    /\ Starts(h, [Idle EXCEPT !.kind = "regenerate", !.step = "set", !.user = u,
                              !.old = db.key[u]])
    /\ Reads /\ UNCHANGED issued

Rotation(r, todo) == [r EXCEPT !.todo = todo, !.step = IF todo = {} THEN "load" ELSE "rotate"]

\* The key is committed before any host is touched; the account may be gone by now.
SetKey(h) ==
    LET u == req[h].user
        n == issued[u] + 1
    IN  /\ req[h].step = "set" /\ CanWrite(h) /\ n <= MaxKey
        /\ issued' = [issued EXCEPT ![u] = n]
        /\ Commits(h, IF Live(db, u) THEN [db EXCEPT !.key[u] = n] ELSE db, {})
        /\ Goes(h, Rotation([req[h] EXCEPT !.key = n], Owned(db, u)))
        /\ UNCHANGED <<up, keys, bounds, mishaps>>

\* The log of a server is written after its rotation and keeps the write lock from then
\* on; a lock that another request keeps too long ends the rotation there.
Rotate(h, s) ==
    /\ req[h].step = "rotate" /\ s \in req[h].todo
    /\ \E ok \in BOOLEAN :
          LET r == req[h]
              after == Rotated(s, r.user, r.old, r.key)
              updated == ok /\ <<r.user, r.old>> \in keys[s]
          IN  /\ Becomes(s, after, ok)
              /\ Settles(<<r.user, s>>, updated /\ db.key[r.user] = r.key)
              /\ Touched(h, <<r.user, s>>,
                         IF CanWrite(h) THEN Rotation(r, r.todo \ {s}) ELSE Idle)
    /\ IF CanWrite(h) THEN Hold(h, draft) ELSE Reads
    /\ UNCHANGED <<up, issued, bounds>>

-----------------------------------------------------------------------------
(* The jump server: one account at a time.                                  *)

LoadOwnAccount(h) ==                                   \* seeded bug
    /\ req[h].step = "load" /\ req[h].kind # "sync"
    /\ Goes(h, [req[h] EXCEPT !.place = req[h].user, !.step = "onboard"])
    /\ Reads /\ UNCHANGED <<up, keys, issued, doubt, bounds, mishaps>>

\* The configuration, and in a bulk synchronisation the next account and its key, are read.
Load(h) ==
    LET r == req[h]
    IN  /\ r.step = "load"
        /\ IF r.kind = "sync"
           THEN \E u \in r.todo :
                  Goes(h, [r EXCEPT !.user = u, !.key = View(h).key[u], !.todo = @ \ {u},
                                    !.place = Target(View(h), u), !.step = "onboard"])
           ELSE Goes(h, [r EXCEPT !.place = Target(View(h), r.user), !.step = "onboard"])
    /\ Reads /\ UNCHANGED <<up, keys, issued, doubt, bounds, mishaps>>

\* Whether what a request read is still so.
Current(r) == db.key[r.user] = r.key /\ Live(db, r.user) /\ r.place = Target(db, r.user)

Onboarded(r) ==
    IF r.kind = "regenerate" THEN [r EXCEPT !.step = "offboard"]
    ELSE IF r.kind = "newUser" THEN [r EXCEPT !.step = "commit"]
    ELSE IF r.kind = "sync" /\ r.todo # {} THEN [r EXCEPT !.step = "load"]
    ELSE Idle

OnboardBlank(h) ==                                     \* seeded bug
    LET r == req[h]
        q == <<r.user, r.place>>
    IN  /\ r.step = "onboard"
        /\ \E ok \in BOOLEAN :
              /\ Becomes(r.place, Replacing(r.place, r.user, r.key), ok)
              /\ IF r.kind = "newUser" THEN Pending(h, q, ok, Onboarded(r))
                 ELSE Settles(q, ok /\ Current(r)) /\ Touched(h, q, Onboarded(r))
        /\ Reads /\ UNCHANGED <<up, issued, bounds>>

\* An account whose key is gone by then is skipped.
Onboard(h) ==
    LET r == req[h]
        q == <<r.user, r.place>>
    IN  /\ r.step = "onboard"
        /\ IF r.key = NoKey
           THEN Goes(h, Onboarded(r)) /\ UNCHANGED <<keys, doubt, mishaps>>
           ELSE \E ok \in BOOLEAN :
                  /\ Becomes(r.place, Replacing(r.place, r.user, r.key), ok)
                  /\ IF r.kind = "newUser" THEN Pending(h, q, ok, Onboarded(r))
                     ELSE Settles(q, ok /\ Current(r)) /\ Touched(h, q, Onboarded(r))
        /\ Reads /\ UNCHANGED <<up, issued, bounds>>

\* After the new key, whatever came of it, the old one is taken away; the request commits.
Offboard(h) ==
    LET r == req[h]
        q == <<r.user, r.place>>
    IN  /\ r.step = "offboard"
        /\ \E ok \in BOOLEAN :
              /\ Becomes(r.place, keys[r.place] \ {<<r.user, r.old>>}, ok)
              /\ doubt' = IF ok /\ Current(r) THEN doubt ELSE doubt \cup {q}
        /\ Touched(h, q, Idle)
        /\ IF writer = h THEN Save(draft) ELSE Reads
        /\ UNCHANGED <<up, issued, bounds>>

\* "Reset access": the key that was read first goes to every server, then to the jump server.
BeginReset(h, u) ==
    /\ Live(db, u)
    /\ \A g \in Threads : req[g].kind = "reset" => req[g].user # u
    /\ Starts(h, [Idle EXCEPT !.kind = "reset", !.user = u, !.key = db.key[u],
                              !.todo = Owned(db, u),
                              !.step = IF Owned(db, u) = {} THEN "load" ELSE "reinstall"])
    /\ Reads /\ UNCHANGED issued

Reinstall(h, s) ==
    LET r == req[h]
        next == [r EXCEPT !.todo = @ \ {s}, !.step = IF r.todo = {s} THEN "load" ELSE @]
    IN  /\ r.step = "reinstall" /\ s \in r.todo
        /\ IF s \in up
           THEN \E ok \in BOOLEAN :
                  /\ Becomes(s, Replacing(s, r.user, r.key), ok)
                  /\ Settles(<<r.user, s>>, ok /\ db.key[r.user] = r.key)
                  /\ Touched(h, <<r.user, s>>, next)
           ELSE Goes(h, next) /\ UNCHANGED <<keys, doubt, mishaps>>
        /\ Reads /\ UNCHANGED <<up, issued, bounds>>

\* "Sync users to jump server".
BeginSync(h) ==
    LET users == {u \in Users : Live(db, u)}
    IN  /\ users # {}
        /\ Starts(h, [Idle EXCEPT !.kind = "sync", !.step = "load", !.todo = users])
        /\ Reads /\ UNCHANGED issued

-----------------------------------------------------------------------------
(* Creating and deleting an account.                                        *)

\* The account and its key are written first, and committed after the jump server.
BeginNewUser(h, u) ==
    LET d == [db EXCEPT !.key[u] = issued[u] + 1]
    IN  /\ ~Live(db, u) /\ u \notin db.gone /\ issued[u] < MaxKey /\ CanWrite(h)
        /\ issued' = [issued EXCEPT ![u] = @ + 1]
        /\ Hold(h, d)
        /\ Starts(h, [Idle EXCEPT !.kind = "newUser", !.step = "onboard", !.user = u,
                                  !.key = issued[u] + 1, !.place = Target(d, u)])

\* The key and where it is are read before the guests are destroyed.
BeginDelete(h, u) ==
    /\ Live(db, u)
    /\ Starts(h, [Idle EXCEPT !.kind = "delete", !.step = "write", !.user = u,
                              !.key = db.key[u], !.place = Target(db, u),
                              !.todo = Owned(db, u), !.held = doubt])
    /\ Reads /\ UNCHANGED issued

\* Rows of guests nobody listed go with the account; their guests stay.
WriteDelete(h) ==
    LET r == req[h]
    IN  /\ r.step = "write" /\ CanWrite(h)
        /\ up' = up \ r.todo
        /\ keys' = [p \in Places |-> IF p \in r.todo THEN {} ELSE keys[p]]
        /\ Hold(h, [db EXCEPT !.key[r.user] = NoKey, !.gone = @ \cup {r.user},
                           !.rows = @ \ Owned(db, r.user)])
        /\ Goes(h, [r EXCEPT !.done = {r.user} \X r.todo, !.todo = {}, !.step = "revoke"])
        /\ doubt' = doubt \cup ({r.user} \X r.todo)
        /\ UNCHANGED <<issued, bounds, mishaps>>

RevokeReadLate(h) ==                                   \* seeded bug
    LET r == req[h]
        q == <<r.user, r.place>>
    IN  /\ r.step = "revoke"
        /\ Becomes(r.place, keys[r.place] \ {<<r.user, draft.key[r.user]>>}, TRUE)
        /\ Pending(h, q, q \notin r.held /\ Current(r), [r EXCEPT !.step = "commit"])
        /\ Reads /\ UNCHANGED <<up, issued, bounds>>

Revoke(h) ==
    LET r == req[h]
        q == <<r.user, r.place>>
    IN  /\ r.step = "revoke"
        /\ \E ok \in BOOLEAN :
              /\ Becomes(r.place, keys[r.place] \ {<<r.user, r.key>>}, ok)
              /\ Pending(h, q, ok /\ q \notin r.held /\ Current(r), [r EXCEPT !.step = "commit"])
        /\ Reads /\ UNCHANGED <<up, issued, bounds>>

Commit(h) ==
    /\ req[h].step = "commit"
    /\ Commits(h, draft, req[h].done)
    /\ Ends(h)
    /\ UNCHANGED <<up, keys, issued, bounds, mishaps>>

-----------------------------------------------------------------------------
(* Changing the account mode, under the write lock from beginning to end.   *)

LiveUsers == {u \in Users : Live(draft, u)}

BeginSwitch(h, mode) ==
    /\ mode # db.mode /\ CanWrite(h)
    /\ Hold(h, [db EXCEPT !.mode = mode])
    /\ Starts(h, [Idle EXCEPT !.kind = "switch", !.step = "sync", !.held = doubt,
                              !.todo = {u \in Users : Live(db, u)}])
    /\ UNCHANGED issued

\* Every account goes to the place the new mode names.
Sync(h, u) ==
    LET r == req[h]
        a == Target(draft, u)
    IN  /\ r.step = "sync" /\ u \in r.todo
        /\ \E ok \in BOOLEAN :
              /\ Becomes(a, Replacing(a, u, draft.key[u]), ok)
              /\ Pending(h, <<u, a>>, ok, [r EXCEPT !.todo = @ \ {u}, !.ok = @ /\ ok])
        /\ Reads /\ UNCHANGED <<up, issued, bounds>>

ToDrainAnyway(r) == IF db.mode = "shared" THEN {Shared} ELSE LiveUsers   \* seeded bug

\* All went well: the old places are drained.  If not, the shared account is, when
\* that was where the keys went; those of per-user accounts stay.
ToDrain(r) ==
    IF r.ok THEN (IF db.mode = "shared" THEN {Shared} ELSE LiveUsers)
    ELSE (IF draft.mode = "shared" THEN {Shared} ELSE {})
Synced(h) ==
    LET r == req[h]
    IN  /\ r.step = "sync" /\ r.todo = {}
        /\ Goes(h, [r EXCEPT !.step = "drain", !.todo = ToDrain(r),
                             !.done = IF r.ok THEN @ ELSE {}])
        /\ Reads /\ UNCHANGED <<up, keys, issued, doubt, bounds, mishaps>>

\* Every account's current key is removed; a failure is passed over.
Drain(h, a) ==
    LET r == req[h]
    IN  /\ r.step = "drain" /\ a \in r.todo
        /\ \E drained \in {LiveUsers} \cup {LiveUsers \ {u} : u \in LiveUsers} :
              LET swept == drained \X {a}
              IN  /\ keys' = [keys EXCEPT ![a] = @ \ {<<u, draft.key[u]>> : u \in drained}]
                  /\ IF drained = LiveUsers THEN UNCHANGED mishaps ELSE Mishap
                  /\ Goes(h, [r EXCEPT !.todo = @ \ {a},
                                       !.done = (@ \ (Users \X {a})) \cup (swept \ r.held)])
                  /\ doubt' = doubt \cup (LiveUsers \X {a})
        /\ Reads /\ UNCHANGED <<up, issued, bounds>>

Drained(h) ==
    LET r == req[h]
    IN  /\ r.step = "drain" /\ r.todo = {}
        /\ Commits(h, IF r.ok THEN draft ELSE db, r.done)
        /\ Ends(h)
        /\ UNCHANGED <<up, keys, issued, bounds, mishaps>>

-----------------------------------------------------------------------------
(* What ends a request early.                                               *)

\* "database is locked", after five seconds.
BusyTimeout(h) ==
    /\ req[h].step \in {"set", "write"} /\ ~CanWrite(h)
    /\ Ends(h)
    /\ Reads /\ UNCHANGED <<up, keys, issued, doubt, bounds, mishaps>>

Crash ==
    /\ \E h \in Threads : req[h] # Idle
    /\ Mishap
    /\ req' = [h \in Threads |-> Idle]
    /\ Save(db)
    /\ UNCHANGED <<up, keys, issued, doubt, bounds>>

Begin(h) ==
    \/ \E s \in Servers : BeginServer(h, s)
    \/ \E u \in Users : \/ BeginRegenerate(h, u) \/ BeginReset(h, u)
                        \/ BeginNewUser(h, u) \/ BeginDelete(h, u)
    \/ BeginSync(h)
    \/ \E mode \in {"per_user", "shared"} : BeginSwitch(h, mode)
Advance(h) ==
    \/ Install(h) \/ Insert(h) \/ SetKey(h)
    \/ \E s \in Servers : Rotate(h, s) \/ Reinstall(h, s)
    \/ Load(h) \/ Onboard(h) \/ Offboard(h)
    \/ WriteDelete(h) \/ Revoke(h) \/ Commit(h)
    \/ \E u \in Users : Sync(h, u)
    \/ Synced(h) \/ (\E a \in Accounts : Drain(h, a)) \/ Drained(h)
    \/ BusyTimeout(h)
Next == Crash \/ \E h \in Threads : Begin(h) \/ Advance(h)

Spec == Init /\ [][Next]_vars

-----------------------------------------------------------------------------
(* Properties.                                                              *)

\* A regenerated key replaces its predecessor: nowhere are two keys of one account
\* accepted at once, whatever overlaps, fails or crashes.
OneKeyPerPlace == \A p \in Places, u \in Users : Cardinality(KeysAt(p, u)) <= 1

\* A place that a successful command brought up to date, with the key and the mode that
\* are still committed, trusts the key the account is served if it is the account's, and
\* no key of the account if it is not; a reported failure, an abandoned request, or a
\* request overtaken by another is what it takes to be wrong.
SettledPlacesAgree ==
    \A q \in Pairs \ doubt : KeysAt(q[2], q[1]) = Wanted(db, q[1], q[2])

\* One request at a time and no failures: every request brings every place up to date.
QuietUseSettles ==
    (~overlapped /\ mishaps = 0 /\ \A h \in Threads : req[h] = Idle) => doubt = {}

\* Until the mode is committed an account that could use the jump server still can:
\* old places are drained once the new ones are all filled, and not before.
SwitchKeepsAccess ==
    \A h \in Threads : req[h].kind = "switch" =>
       \A u \in LiveUsers :
          \/ <<u, Target(db, u)>> \in req[h].held
          \/ \E a \in {Target(db, u), Target(draft, u)} :
                <<u, draft.key[u]>> \in keys[a] \/ <<u, a>> \in req[h].held

\* "Install the new key FIRST so the account never loses access": regenerating a key
\* leaves an account that could use the jump server able to.
RotationKeepsAccess ==
    [][\A u \in Users, a \in Accounts :
          (\E h \in Threads : req[h].kind = "regenerate" /\ <<req[h].user, req[h].place>> = <<u, a>>)
          /\ KeysAt(a, u) # {} => KeysAt(a, u)' # {}]_vars

\* "A failed switch cannot widen access": after one, no account's key is where the
\* restored mode does not put it.
FailedSwitchIsReverted ==
    \A h \in Threads : req[h].step = "drain" /\ req[h].todo = {} /\ ~req[h].ok =>
       \A u \in Users, a \in Accounts :
          KeysAt(a, u) = {} \/ a = Target(db, u) \/ <<u, a>> \in req[h].held
=============================================================================
