---------------------------- MODULE KeyAccessProofs ----------------------------
(***************************************************************************)
(* Proofs about where keys are trusted, for every set of accounts, servers *)
(* and threads and every bound: types, one key of an account in a file,    *)
(* settled places agree with the database, a mode switch keeps access, and *)
(* undisturbed use settles every place.                                    *)
(***************************************************************************)
EXTENDS KeyAccess, FiniteSetTheorems, TLAPS

\* What a request carries at each of its steps.
Fit(r) ==
    /\ r.kind = "none" <=> r.step = "idle"
    /\ r.step = "idle" => r.todo = {}
    /\ r.kind = "server" => /\ r.step \in {"install", "insert"}
                            /\ r.place \in Servers /\ r.user = owner[r.place] /\ r.todo = {}
    /\ r.kind = "regenerate" => r.step \in {"set", "rotate", "load", "onboard", "offboard"}
    /\ r.kind = "reset" => r.step \in {"reinstall", "load", "onboard"}
    /\ r.kind = "sync" => r.step \in {"load", "onboard"} /\ r.todo \subseteq Users
    /\ r.kind = "newUser" => r.step \in {"onboard", "commit"}
    /\ r.kind = "delete" => r.step \in {"write", "revoke", "commit"} /\ r.place \in Accounts
    /\ r.kind = "switch" => r.step \in {"sync", "drain"} /\ r.todo \subseteq Accounts
    /\ r.step \in {"install", "insert"} => r.kind = "server"
    /\ r.step \in {"set", "rotate", "offboard"} => r.kind = "regenerate"
    /\ r.step = "reinstall" => r.kind = "reset"
    /\ r.step = "load" => r.kind \in {"regenerate", "reset", "sync"}
    /\ r.step = "onboard" => r.kind \in {"regenerate", "reset", "sync", "newUser"}
    /\ r.step \in {"write", "revoke"} => r.kind = "delete"
    /\ r.step = "commit" => r.kind \in {"newUser", "delete"}
    /\ r.step \in {"sync", "drain"} => r.kind = "switch"
    /\ r.kind \in {"server", "regenerate", "reset", "newUser", "delete"} => r.user \in Users
    /\ r.kind \in {"server", "reset", "newUser"} => r.key # NoKey
    /\ r.kind = "regenerate" /\ r.step # "set" => r.key # NoKey
    /\ r.step \in {"onboard", "offboard"} => r.user \in Users /\ r.place \in Accounts
    /\ r.step \in {"idle", "install", "set", "rotate", "reinstall", "load", "onboard", "offboard",
                   "write"} => r.done = {}

\* The servers a request is to visit are its account's, as long as the account exists.
Visit(r) ==
    r.step \in {"rotate", "reinstall", "write"} =>
       \A s \in r.todo : /\ s \in Servers /\ owner[s] = r.user
                         /\ s \in db.rows \/ r.user \in db.gone

\* A regenerated key differs from the one it replaces.
Newer(r) ==
    r.kind = "regenerate" =>
       IF r.step = "set" THEN r.old <= issued[r.user] ELSE r.old < r.key

Task(r) == Fit(r) /\ Visit(r) /\ Newer(r)
Tasks   == \A h \in Threads : Task(req[h])

\* The database: a server's owner has a key, a deleted account has none and never gets one.
Rows ==
    /\ \A s \in db.rows : Live(db, owner[s])
    /\ \A u \in db.gone : ~Live(db, u)
    /\ \A u \in Users : db.key[u] <= issued[u]

\* The write lock, and what its holder has written.
Drafted(r) ==
    \/ r.kind = "regenerate" /\ r.step # "set" /\ draft = db
    \/ /\ r.kind = "newUser" /\ r.user \notin db.gone /\ ~Live(db, r.user)
       /\ draft = [db EXCEPT !.key = [db.key EXCEPT ![r.user] = r.key]]
       /\ r.key <= issued[r.user] /\ r.place = Target(draft, r.user)
    \/ /\ r.kind = "delete" /\ r.step \in {"revoke", "commit"}
       /\ draft = [db EXCEPT !.key = [db.key EXCEPT ![r.user] = NoKey],
                             !.gone = db.gone \cup {r.user},
                             !.rows = db.rows \ Owned(db, r.user)]
    \/ /\ r.kind = "switch"
       /\ \E mode \in {"per_user", "shared"} \ {db.mode} : draft = [db EXCEPT !.mode = mode]
       /\ r.todo \subseteq IF r.step = "sync" THEN LiveUsers ELSE ToDrain(r)
Holds(r) == r.kind \in {"newUser", "switch"} \/ r.step \in {"revoke", "commit"}
Locked ==
    /\ writer = NoRequest => draft = db
    /\ \A h \in Threads : /\ Holds(req[h]) => writer = h
                          /\ writer = h => Drafted(req[h])

\* A server being created is nobody else's business.
Creates ==
    \A h \in Threads : req[h].kind = "server" =>
       /\ req[h].place \notin db.rows
       /\ \A g \in Threads \ {h} : /\ req[h].place \notin req[g].todo
                                   /\ req[g].kind = "server" => req[g].place # req[h].place

AInv == TypeOK /\ Tasks /\ Rows /\ Locked /\ Creates

-----------------------------------------------------------------------------
(* One step: the request that takes it, and the others.                     *)

\* Another request's step leaves a request its task; it may take from what the request will
\* settle and add to what it leaves alone.
Same(r, q) ==
    /\ q.kind = r.kind /\ q.step = r.step /\ q.user = r.user /\ q.old = r.old
    /\ q.key = r.key /\ q.place = r.place /\ q.todo = r.todo /\ q.ok = r.ok
    /\ q.done \subseteq r.done /\ r.held \subseteq q.held

LEMMA IdleFacts ==
    /\ Idle \in Request /\ Idle.kind = "none" /\ Idle.step = "idle" /\ Idle.user = Nobody
    /\ Idle.old = NoKey /\ Idle.key = NoKey /\ Idle.place = Nobody /\ Idle.todo = {}
    /\ Idle.ok = TRUE /\ Idle.done = {} /\ Idle.held = {}
BY BoundsAssumption DEF Idle, Request, Steps, NoKey

LEMMA SameFacts == \A r : Same(r, r)
BY DEF Same

LEMMA GoesFacts ==
    ASSUME TypeOK, NEW h \in Threads, NEW r \in Request, Goes(h, r)
    PROVE  /\ req' \in [Threads -> Request] /\ req'[h] = r
           /\ \A g \in Threads \ {h} : req'[g] = req[g] /\ Same(req[g], req'[g])
BY SameFacts DEF Goes, TypeOK

LEMMA ForgetsFacts ==
    ASSUME NEW r \in Request, NEW q \in Pairs
    PROVE  /\ Forgets(r, q) \in Request /\ Same(r, Forgets(r, q)) /\ q \notin Forgets(r, q).done
           /\ r.kind \in {"switch", "delete"} => q \in Forgets(r, q).held
<1> DEFINE held == IF r.kind \in {"switch", "delete"} THEN r.held \cup {q} ELSE r.held
<1>1. Forgets(r, q) = [r EXCEPT !.done = r.done \ {q}, !.held = held]
  BY DEF Forgets, Request
<1>2. held \in SUBSET Pairs /\ r.held \subseteq held /\ r.done \ {q} \in SUBSET Pairs
      /\ (r.kind \in {"switch", "delete"} => q \in held)
  BY DEF Request
<1> HIDE DEF held
<1> QED BY <1>1, <1>2 DEF Request, Same

LEMMA TouchedFacts ==
    ASSUME TypeOK, NEW h \in Threads, NEW r \in Request, NEW q \in Pairs, Touched(h, q, r)
    PROVE  /\ req' \in [Threads -> Request] /\ req'[h] = r
           /\ \A g \in Threads \ {h} :
                 /\ Same(req[g], req'[g]) /\ q \notin req'[g].done
                 /\ req[g].kind \in {"switch", "delete"} => q \in req'[g].held
<1>1. \A g \in Threads : req'[g] = IF g = h THEN r ELSE Forgets(req[g], q)
  BY DEF Touched
<1>2. req' \in [Threads -> Request]
  BY <1>1, ForgetsFacts DEF Touched, TypeOK
<1> QED BY <1>1, <1>2, ForgetsFacts DEF TypeOK

LEMMA BecomesFacts ==
    ASSUME TypeOK, NEW p \in Places, NEW after \in SUBSET Keys, NEW ok \in BOOLEAN,
           Becomes(p, after, ok)
    PROVE  /\ keys' \in [Places -> SUBSET Keys] /\ mishaps' \in 0 .. MaxMishaps
           /\ \A x \in Places \ {p} : keys'[x] = keys[x]
           /\ keys'[p] \in {keys[p], after} /\ (ok => keys'[p] = after)
           /\ mishaps' = 0 => ok /\ mishaps = 0
<1>1. CASE ok
  BY <1>1 DEF Becomes, TypeOK
<1>2. CASE ~ok
  BY <1>2, BoundsAssumption DEF Becomes, TypeOK, Mishap
<1> QED BY <1>1, <1>2

\* Accounts that go do not come back, a server goes only with its owner, keys are only issued.
Grows == /\ db.gone \subseteq db'.gone
         /\ \A s \in db.rows : s \in db'.rows \/ owner[s] \in db'.gone
         /\ \A u \in Users : issued[u] <= issued'[u]

LEMMA TaskKept ==
    ASSUME TypeOK, NEW r \in Request, NEW q \in Request, Task(r), Same(r, q), Grows,
           issued' \in [Users -> 0 .. MaxKey]
    PROVE  Task(q)'
<1>1. Fit(q)'
  BY DEF Task, Same, Fit
<1>2. Visit(q)'
  BY DEF Task, Same, Visit, Grows
<1>3. Newer(q)'
  <2>1. r.kind = "regenerate" => r.user \in Users
    BY DEF Task, Fit
  <2>2. ASSUME r.kind = "regenerate", r.step = "set" PROVE r.old <= issued'[r.user]
    <3>1. /\ r.old <= issued[r.user] /\ issued[r.user] <= issued'[r.user]
          /\ r.old \in Int /\ issued[r.user] \in Int /\ issued'[r.user] \in Int
      BY <2>1, <2>2 DEF Task, Newer, Grows, TypeOK, Request
    <3> QED BY <3>1
  <2> QED BY <2>2 DEF Task, Same, Newer
<1> QED BY <1>1, <1>2, <1>3 DEF Task

\* What the step of request h has to show.
Proceeds(h) ==
    /\ \A g \in Threads \ {h} : Same(req[g], req'[g])
    /\ Task(req[h])'
    /\ req'[h].todo \subseteq req[h].todo \cup db.rows \cup Accounts
    /\ req'[h].kind = "server" =>
          \/ req[h].kind = "server" /\ req'[h].place = req[h].place /\ db' = db
          \/ /\ req'[h].place \notin db'.rows
             /\ \A g \in Threads \ {h} : /\ req'[h].place \notin req[g].todo
                                         /\ req[g].kind = "server" => req[g].place # req'[h].place

LEMMA StepKeeps ==
    ASSUME AInv, NEW h \in Threads, TypeOK', Grows, Proceeds(h), Rows', Locked',
           db'.rows \subseteq db.rows \cup (IF req[h].kind = "server" THEN {req[h].place} ELSE {})
    PROVE  AInv'
<1>1. Tasks'
  <2>1. ASSUME NEW g \in Threads \ {h} PROVE Task(req[g])'
    BY <2>1, TaskKept DEF AInv, Tasks, TypeOK, Proceeds
  <2> QED BY <2>1 DEF Tasks, Proceeds
<1>2. Creates'
  <2>1. ASSUME NEW g \in Threads \ {h}, req'[g].kind = "server"
        PROVE  /\ req'[g].place \notin db'.rows
               /\ req'[g].place \notin req'[h].todo
               /\ req'[h].kind = "server" => req'[h].place # req'[g].place
    <3>1. req[g].kind = "server" /\ req'[g].place = req[g].place /\ req[g].place \in Servers
      BY <2>1 DEF Proceeds, Same, AInv, Tasks, Task, Fit
    <3>2. req[g].place \notin db.rows \cup Accounts /\ req[g].place \notin req[h].todo
          /\ (req[h].kind = "server" => req[h].place # req[g].place)
      BY <3>1, PlacesAssumption DEF AInv, Creates, Accounts
    <3> QED BY <3>1, <3>2 DEF Proceeds
  <2>2. ASSUME req'[h].kind = "server" PROVE req'[h].place \notin db'.rows
    BY <2>2 DEF Proceeds, AInv, Creates
  <2>3. ASSUME NEW g \in Threads \ {h}, NEW f \in Threads \ {h}, f # g, req'[g].kind = "server"
        PROVE  /\ req'[g].place \notin req'[f].todo
               /\ req'[f].kind = "server" => req'[f].place # req'[g].place
    BY <2>3 DEF Proceeds, Same, AInv, Creates
  <2>4. ASSUME NEW g \in Threads \ {h}, req'[h].kind = "server"
        PROVE  /\ req'[h].place \notin req'[g].todo
               /\ req'[g].kind = "server" => req'[g].place # req'[h].place
    BY <2>4 DEF Proceeds, Same, AInv, Creates
  <2> QED BY <2>1, <2>2, <2>3, <2>4 DEF Creates
<1> QED BY <1>1, <1>2 DEF AInv

LEMMA DraftedKept ==
    ASSUME NEW r, NEW q, Drafted(r), Same(r, q), UNCHANGED <<db, draft, issued>>
    PROVE  Drafted(q)'
<1>1. CASE r.kind = "regenerate" /\ r.step # "set" /\ draft = db
  BY <1>1 DEF Drafted, Same
<1>2. CASE r.kind = "newUser"
  BY <1>2 DEF Drafted, Same, Live, Target
<1>3. CASE r.kind = "delete"
  BY <1>3 DEF Drafted, Same, Owned
<1>4. CASE r.kind = "switch"
  BY <1>4 DEF Drafted, Same, LiveUsers, Live, ToDrain
<1> QED BY <1>1, <1>2, <1>3, <1>4 DEF Drafted

\* The same, for a step that only reads the database.
LEMMA ReadsKeep ==
    ASSUME AInv, NEW h \in Threads, TypeOK', Proceeds(h), Reads, issued' = issued,
           Holds(req'[h]) => writer = h,
           writer = h => Drafted(req'[h])
    PROVE  AInv'
<1>1. Grows /\ Rows' /\ db' = db
  BY DEF Grows, AInv, Rows, Reads, database, TypeOK, Live
<1>2. Locked'
  <2>1. \A g \in Threads \ {h} : Holds(req'[g]) <=> Holds(req[g])
    BY DEF Proceeds, Same, Holds
  <2>2. ASSUME NEW g \in Threads \ {h}, writer = g PROVE Drafted(req[g])'
    BY <2>2, DraftedKept DEF AInv, Locked, Proceeds, Reads, database
  <2>3. ASSUME writer = h PROVE Drafted(req[h])'
    BY <2>3, SameFacts, DraftedKept DEF Reads, database
  <2> QED BY <2>1, <2>2, <2>3 DEF AInv, Locked, Reads, database
<1> QED BY <1>1, <1>2, StepKeeps

-----------------------------------------------------------------------------
(* Types and tasks: the requests begin.                                     *)

LEMMA DatabaseFacts ==
    ASSUME TypeOK
    PROVE  /\ \A d \in {db, draft} : /\ d \in Database /\ d.rows \subseteq Servers
                                     /\ d.gone \subseteq Users
                                     /\ \A u \in Users : d.key[u] \in 0 .. MaxKey /\ d.key[u] \in Int
                                     /\ \A u \in Users : Owned(d, u) \subseteq Servers
                                     /\ \A u \in Users : Target(d, u) \in Accounts
           /\ Servers \subseteq Places /\ Accounts \subseteq Places /\ Users \subseteq Accounts
           /\ \A s \in Servers : owner[s] \in Users
           /\ \A u \in Users : issued[u] \in 0 .. MaxKey /\ issued[u] \in Int
BY OwnerAssumption, BoundsAssumption DEF TypeOK, Database, Owned, Target, Accounts, Places

LEMMA StartsFacts ==
    ASSUME AInv, NEW h \in Threads, NEW r \in Request, Starts(h, r)
    PROVE  /\ req' \in [Threads -> Request] /\ req'[h] = r
           /\ \A g \in Threads \ {h} : req'[g] = req[g] /\ Same(req[g], req'[g])
           /\ served' \in 0 .. MaxRequests /\ overlapped' \in BOOLEAN
           /\ UNCHANGED <<up, keys, doubt, mishaps>>
           /\ req[h].kind = "none" /\ writer # h
<1>1. req[h].kind = "none" /\ req[h].step = "idle"
  BY IdleFacts DEF Starts
<1>2. writer # h
  BY <1>1 DEF AInv, Locked, Drafted
<1>3. served' \in 0 .. MaxRequests /\ overlapped' \in BOOLEAN
  BY BoundsAssumption DEF AInv, TypeOK, Starts
<1> QED BY <1>1, <1>2, <1>3, GoesFacts DEF AInv, Starts

LEMMA BeginServerAInv ==
    ASSUME AInv, NEW h \in Threads, NEW s \in Servers, BeginServer(h, s)
    PROVE  AInv'
<1> DEFINE r == [Idle EXCEPT !.kind = "server", !.step = "install", !.user = owner[s],
                             !.key = db.key[owner[s]], !.place = s]
<1>1. /\ r \in Request /\ r.kind = "server" /\ r.step = "install" /\ r.user = owner[s]
      /\ r.key = db.key[owner[s]] /\ r.place = s /\ r.todo = {} /\ r.done = {}
  BY DatabaseFacts, IdleFacts DEF AInv, Request, Steps, BeginServer, Starts, Places
<1>2. Starts(h, r) /\ Reads /\ issued' = issued
  BY DEF BeginServer
<1> HIDE DEF r
<1>3. TypeOK'
  BY <1>1, <1>2, StartsFacts DEF AInv, TypeOK, Reads, database
<1>4. Task(r)
  BY <1>1, DatabaseFacts DEF AInv, Task, Fit, Visit, Newer, BeginServer, Live
<1>5. Proceeds(h)
  BY <1>1, <1>2, <1>4, StartsFacts DEF AInv, Proceeds, Reads, database, BeginServer, Task, Fit, Visit, Newer
<1> QED BY <1>1, <1>2, <1>3, <1>5, StartsFacts, ReadsKeep DEF Holds

LEMMA BeginRegenerateAInv ==
    ASSUME AInv, NEW h \in Threads, NEW u \in Users, BeginRegenerate(h, u)
    PROVE  AInv'
<1> DEFINE r == [Idle EXCEPT !.kind = "regenerate", !.step = "set", !.user = u,
                             !.old = db.key[u]]
<1>1. /\ r \in Request /\ r.kind = "regenerate" /\ r.step = "set" /\ r.user = u
      /\ r.old = db.key[u] /\ r.todo = {} /\ r.done = {}
  BY DatabaseFacts, IdleFacts DEF AInv, Request, Steps, BeginRegenerate, Starts
<1>2. Starts(h, r) /\ Reads /\ issued' = issued
  BY DEF BeginRegenerate
<1> HIDE DEF r
<1>3. TypeOK'
  BY <1>1, <1>2, StartsFacts DEF AInv, TypeOK, Reads, database
<1>4. Task(r)
  BY <1>1 DEF AInv, Task, Fit, Visit, Newer, Rows
<1>5. Proceeds(h)
  BY <1>1, <1>2, <1>4, StartsFacts DEF Proceeds, Reads, database, Task, Fit, Visit, Newer
<1> QED BY <1>1, <1>2, <1>3, <1>5, StartsFacts, ReadsKeep DEF Holds

LEMMA BeginResetAInv ==
    ASSUME AInv, NEW h \in Threads, NEW u \in Users, BeginReset(h, u)
    PROVE  AInv'
<1> DEFINE r == [Idle EXCEPT !.kind = "reset", !.user = u, !.key = db.key[u],
                             !.todo = Owned(db, u),
                             !.step = IF Owned(db, u) = {} THEN "load" ELSE "reinstall"]
<1>1. /\ r \in Request /\ r.kind = "reset" /\ r.step \in {"load", "reinstall"} /\ r.user = u
      /\ r.key = db.key[u] /\ r.todo = Owned(db, u) /\ r.done = {}
  BY DatabaseFacts, IdleFacts DEF AInv, Request, Steps, BeginReset, Starts
<1>2. Starts(h, r) /\ Reads /\ issued' = issued
  BY DEF BeginReset
<1> HIDE DEF r
<1>3. TypeOK'
  BY <1>1, <1>2, StartsFacts DEF AInv, TypeOK, Reads, database
<1>4. Task(r)
  BY <1>1, DatabaseFacts DEF AInv, Task, Fit, Visit, Newer, Owned, BeginReset, Live
<1>5. Proceeds(h)
  BY <1>1, <1>2, <1>4, StartsFacts DEF Proceeds, Reads, database, Task, Fit, Visit, Newer, Owned
<1> QED BY <1>1, <1>2, <1>3, <1>5, StartsFacts, ReadsKeep DEF Holds

LEMMA BeginSyncAInv ==
    ASSUME AInv, NEW h \in Threads, BeginSync(h)
    PROVE  AInv'
<1> DEFINE users == {u \in Users : Live(db, u)}
           r == [Idle EXCEPT !.kind = "sync", !.step = "load", !.todo = users]
<1>1. /\ r \in Request /\ r.kind = "sync" /\ r.step = "load" /\ r.todo = users
      /\ r.done = {} /\ users \subseteq Users
  BY DatabaseFacts, IdleFacts DEF AInv, Request, Steps, BeginSync, Starts
<1>2. Starts(h, r) /\ Reads /\ issued' = issued
  BY DEF BeginSync
<1> HIDE DEF r, users
<1>3. TypeOK'
  BY <1>1, <1>2, StartsFacts DEF AInv, TypeOK, Reads, database
<1>4. Task(r)
  BY <1>1 DEF Task, Fit, Visit, Newer
<1>5. Proceeds(h)
  BY <1>1, <1>2, <1>4, StartsFacts
     DEF Proceeds, Reads, database, Task, Fit, Visit, Newer, Accounts
<1> QED BY <1>1, <1>2, <1>3, <1>5, StartsFacts, ReadsKeep DEF Holds

LEMMA BeginDeleteAInv ==
    ASSUME AInv, NEW h \in Threads, NEW u \in Users, BeginDelete(h, u)
    PROVE  AInv'
<1> DEFINE r == [Idle EXCEPT !.kind = "delete", !.step = "write", !.user = u,
                             !.key = db.key[u], !.place = Target(db, u),
                             !.todo = Owned(db, u), !.held = doubt]
<1>1. /\ r \in Request /\ r.kind = "delete" /\ r.step = "write" /\ r.user = u
      /\ r.place \in Accounts /\ r.todo = Owned(db, u) /\ r.done = {}
  BY DatabaseFacts, IdleFacts DEF AInv, TypeOK, Request, Steps, BeginDelete, Starts
<1>2. Starts(h, r) /\ Reads /\ issued' = issued
  BY DEF BeginDelete
<1> HIDE DEF r
<1>3. TypeOK'
  BY <1>1, <1>2, StartsFacts DEF AInv, TypeOK, Reads, database
<1>4. Task(r)
  BY <1>1, DatabaseFacts DEF AInv, Task, Fit, Visit, Newer, Owned
<1>5. Proceeds(h)
  BY <1>1, <1>2, <1>4, StartsFacts DEF Proceeds, Reads, database, Task, Fit, Visit, Newer, Owned
<1> QED BY <1>1, <1>2, <1>3, <1>5, StartsFacts, ReadsKeep DEF Holds

\* A step that takes the write lock, or keeps it.
LEMMA HoldKeeps ==
    ASSUME AInv, NEW h \in Threads, TypeOK', Proceeds(h), CanWrite(h), NEW d, Hold(h, d),
           \A u \in Users : issued[u] <= issued'[u], Drafted(req[h])'
    PROVE  AInv'
<1>1. db' = db /\ writer' = h /\ writer \in {NoRequest, h}
  BY DEF Hold, CanWrite
<1>2. Grows
  BY <1>1 DEF Grows
<1>3. Rows'
  <2>1. ASSUME NEW u \in Users PROVE db'.key[u] <= issued'[u]
    <3>1. /\ db.key[u] <= issued[u] /\ issued[u] <= issued'[u] /\ db.key[u] \in Int
          /\ issued[u] \in Int /\ issued'[u] \in Int
      BY DatabaseFacts, BoundsAssumption DEF AInv, Rows, TypeOK
    <3> QED BY <1>1, <3>1
  <2> QED BY <1>1, <2>1 DEF AInv, Rows, Live
<1>4. Locked'
  <2>1. \A g \in Threads \ {h} : ~Holds(req'[g])
    BY <1>1, ThreadsAssumption DEF AInv, Locked, Proceeds, Same, Holds
  <2> QED BY <1>1, <2>1, ThreadsAssumption DEF Locked
<1> QED BY <1>1, <1>2, <1>3, <1>4, StepKeeps

\* A step that commits.
LEMMA SaveKeeps ==
    ASSUME AInv, NEW h \in Threads, TypeOK', Proceeds(h), CanWrite(h), NEW d, Save(d),
           Grows, Rows', ~Holds(req'[h]),
           db'.rows \subseteq db.rows \cup (IF req[h].kind = "server" THEN {req[h].place} ELSE {})
    PROVE  AInv'
<1>1. Locked'
  <2>1. \A g \in Threads \ {h} : ~Holds(req'[g])
    BY ThreadsAssumption DEF AInv, Locked, Proceeds, Same, Holds, CanWrite
  <2> QED BY <2>1, ThreadsAssumption DEF Locked, Save
<1> QED BY <1>1, StepKeeps

LEMMA IdleTask == Task(Idle) /\ Task(Idle)' /\ ~Holds(Idle)
BY IdleFacts DEF Task, Fit, Visit, Newer, Holds

\* A request that ends does nothing more.
LEMMA EndsProceeds ==
    ASSUME TypeOK, NEW h \in Threads, Ends(h)
    PROVE  Proceeds(h) /\ req' \in [Threads -> Request] /\ req'[h] = Idle
<1>1. /\ req' \in [Threads -> Request] /\ req'[h] = Idle
      /\ \A g \in Threads \ {h} : Same(req[g], req'[g])
  BY GoesFacts, IdleFacts DEF Ends
<1> QED BY <1>1, IdleTask, IdleFacts DEF Proceeds, Task

LEMMA BeginNewUserAInv ==
    ASSUME AInv, NEW h \in Threads, NEW u \in Users, BeginNewUser(h, u)
    PROVE  AInv'
<1> DEFINE d == [db EXCEPT !.key = [db.key EXCEPT ![u] = issued[u] + 1]]
           r == [Idle EXCEPT !.kind = "newUser", !.step = "onboard", !.user = u,
                             !.key = issued[u] + 1, !.place = Target(d, u)]
<1>0. issued[u] + 1 \in 1 .. MaxKey
  BY DatabaseFacts, BoundsAssumption DEF AInv, BeginNewUser
<1>1. d \in Database /\ Target(d, u) \in Accounts
  BY <1>0 DEF AInv, TypeOK, Database, Target, Accounts
<1>2. Starts(h, r) /\ Hold(h, d) /\ issued' = [issued EXCEPT ![u] = issued[u] + 1]
  BY DEF BeginNewUser, AInv, TypeOK, Database
<1>3. db' = db /\ draft' = d /\ d = [db EXCEPT !.key = [db.key EXCEPT ![u] = issued[u] + 1]]
  BY <1>2 DEF Hold
<1> HIDE DEF d
<1>4. /\ r \in Request /\ r.kind = "newUser" /\ r.step = "onboard" /\ r.user = u
      /\ r.key = issued[u] + 1 /\ r.todo = {} /\ r.done = {} /\ r.place = Target(d, u)
  <2>1. r.kind \in Kinds
    BY <1>2 DEF Starts
  <2>2. r.kind = "newUser" /\ r.key = issued[u] + 1 /\ issued[u] + 1 \in 0 .. MaxKey
    BY <1>0, IdleFacts DEF Request
  <2>3. Target(d, u) \in Places
    BY <1>1 DEF Places
  <2> QED BY <2>1, <2>2, <2>3, IdleFacts DEF Request, Steps
<1> HIDE DEF r
<1>5. /\ req'[h].kind = "newUser" /\ req'[h].step = "onboard" /\ req'[h].user = u
      /\ req'[h].key = issued[u] + 1 /\ req'[h].todo = {} /\ req'[h].done = {}
      /\ req'[h].place = Target(d, u)
  BY <1>2, <1>4, StartsFacts
<1>6. CanWrite(h) /\ writer = NoRequest /\ u \notin db.gone /\ ~Live(db, u)
  BY <1>2, <1>4, StartsFacts DEF BeginNewUser, CanWrite
<1>7. issued' \in [Users -> 0 .. MaxKey] /\ issued'[u] = issued[u] + 1
      /\ \A v \in Users : issued[v] <= issued'[v]
  <2>1. \A v \in Users : issued[v] <= issued[v] + 1 /\ issued[v] <= issued[v]
    BY DatabaseFacts DEF AInv
  <2> QED BY <1>0, <1>2, <2>1 DEF AInv, TypeOK
<1>8. TypeOK'
  BY <1>1, <1>2, <1>4, <1>7, StartsFacts DEF AInv, TypeOK, Hold
<1>9. Proceeds(h)
  <2>1. Task(req[h])'
    BY <1>0, <1>1, <1>5, BoundsAssumption DEF Task, Fit, Visit, Newer, NoKey
  <2> QED BY <1>2, <1>4, <1>5, <2>1, StartsFacts DEF Proceeds
<1>10. Drafted(req[h])'
  <2>1. req'[h].key <= issued'[req'[h].user]
    BY <1>0, <1>5, <1>7
  <2>2. draft' = [db' EXCEPT !.key = [db'.key EXCEPT ![req'[h].user] = req'[h].key]]
        /\ req'[h].place = Target(draft', req'[h].user)
    BY <1>3, <1>5
  <2>3. req'[h].user \notin db'.gone /\ db'.key[req'[h].user] = NoKey
    BY <1>3, <1>5, <1>6 DEF Live
  <2> QED BY <1>5, <2>1, <2>2, <2>3 DEF Drafted, Live, Target
<1> QED BY <1>2, <1>6, <1>7, <1>8, <1>9, <1>10, HoldKeeps

LEMMA BeginSwitchAInv ==
    ASSUME AInv, NEW h \in Threads, NEW mode \in {"per_user", "shared"}, BeginSwitch(h, mode)
    PROVE  AInv'
<1> DEFINE users == {u \in Users : Live(db, u)}
           d == [db EXCEPT !.mode = mode]
           r == [Idle EXCEPT !.kind = "switch", !.step = "sync", !.held = doubt, !.todo = users]
<1>1. Starts(h, r) /\ Hold(h, d) /\ issued' = issued /\ mode # db.mode
  BY DEF BeginSwitch
<1>2. /\ r \in Request /\ r.kind = "switch" /\ r.step = "sync" /\ r.todo = users /\ r.done = {}
      /\ users \subseteq Users
  BY <1>1, IdleFacts, DatabaseFacts DEF AInv, TypeOK, Request, Steps, Starts
<1>3. d \in Database
  BY DEF AInv, TypeOK, Database
<1> HIDE DEF r, users
<1>4. CanWrite(h)
  BY DEF BeginSwitch
<1>5. TypeOK'
  BY <1>1, <1>2, <1>3, StartsFacts DEF AInv, TypeOK, Hold
<1>6. /\ req'[h].kind = "switch" /\ req'[h].step = "sync" /\ req'[h].todo = users
      /\ req'[h].done = {} /\ users \subseteq Users
  BY <1>1, <1>2, StartsFacts
<1>7. Proceeds(h)
  <2>1. Task(req[h])'
    BY <1>6 DEF Task, Fit, Visit, Newer, Accounts
  <2> QED BY <1>1, <1>2, <1>6, <2>1, StartsFacts DEF Proceeds, Accounts
<1>8. Drafted(req[h])'
  <2>1. users \subseteq LiveUsers'
    BY <1>1, <1>3 DEF users, LiveUsers, Live, Hold, Database, AInv, TypeOK
  <2> QED BY <1>1, <1>6, <2>1 DEF Drafted, Hold
<1>9. \A u \in Users : issued[u] <= issued'[u]
  BY <1>1, DatabaseFacts DEF AInv
<1> QED BY <1>1, <1>4, <1>5, <1>7, <1>8, <1>9, HoldKeeps

-----------------------------------------------------------------------------
(* Types and tasks: the requests go on.                                     *)

LEMMA PendingFacts ==
    ASSUME TypeOK, NEW h \in Threads, NEW r \in Request, NEW q \in Pairs, NEW good \in BOOLEAN,
           Pending(h, q, good, r)
    PROVE  /\ req' \in [Threads -> Request]
           /\ req'[h].kind = r.kind /\ req'[h].step = r.step /\ req'[h].user = r.user
           /\ req'[h].old = r.old /\ req'[h].key = r.key /\ req'[h].place = r.place
           /\ req'[h].todo = r.todo /\ req'[h].ok = r.ok /\ req'[h].held = r.held
           /\ good => req'[h].done = r.done \cup {q}
           /\ ~good => req'[h].done = r.done \ {q}
           /\ \A g \in Threads \ {h} :
                 /\ Same(req[g], req'[g]) /\ q \notin req'[g].done
                 /\ req[g].kind \in {"switch", "delete"} => q \in req'[g].held
           /\ doubt' = doubt \cup {q} /\ doubt' \subseteq Pairs
<1> DEFINE done == IF good THEN r.done \cup {q} ELSE r.done \ {q}
           r2 == [r EXCEPT !.done = done]
<1>1. done \in SUBSET Pairs
  BY DEF Request
<1>2. Touched(h, q, r2) /\ doubt' = doubt \cup {q}
  BY DEF Pending, Request
<1> HIDE DEF done
<1>3. /\ r2 \in Request /\ r2.kind = r.kind /\ r2.step = r.step /\ r2.user = r.user
      /\ r2.old = r.old /\ r2.key = r.key /\ r2.place = r.place
      /\ r2.todo = r.todo /\ r2.ok = r.ok /\ r2.held = r.held /\ r2.done = done
  BY <1>1 DEF Request
<1> HIDE DEF r2
<1> QED BY <1>2, <1>3, TouchedFacts DEF done, TypeOK

LEMMA TaskFacts ==
    ASSUME AInv, NEW h \in Threads
    PROVE  /\ req[h] \in Request /\ Task(req[h]) /\ Fit(req[h])
           /\ req[h].user \in Users /\ req[h].place \in Places =>
                 <<req[h].user, req[h].place>> \in Pairs
           /\ req[h].key \in 0 .. MaxKey /\ req[h].done \in SUBSET Pairs
           /\ req[h].key # NoKey => req[h].key \in 1 .. MaxKey
           /\ req[h].key # NoKey /\ req[h].user \in Users => <<req[h].user, req[h].key>> \in Keys
BY BoundsAssumption DEF AInv, TypeOK, Tasks, Task, Request, Pairs, Keys, NoKey

LEMMA InstallAInv ==
    ASSUME AInv, NEW h \in Threads, Install(h)
    PROVE  AInv'
<1> DEFINE r == req[h]
           r1 == [r EXCEPT !.step = "insert"]
           q == <<r.user, r.place>>
           after == {<<r.user, r.key>>}
<1>1. /\ r.kind = "server" /\ r.place \in Servers /\ r.user = owner[r.place] /\ r.todo = {}
      /\ r.user \in Users /\ r.key # NoKey /\ r \in Request
  BY TaskFacts DEF Install, Fit
<1>2. r.place \in Places /\ q \in Pairs /\ after \in SUBSET Keys
  BY <1>1, TaskFacts DEF Places
<1>3. r1 \in Request /\ r1.kind = "server" /\ r1.step = "insert" /\ r1.user = r.user
      /\ r1.place = r.place /\ r1.todo = {} /\ r1.key = r.key
  BY <1>1 DEF Request, Steps
<1>4. PICK ok \in BOOLEAN : Becomes(r.place, after, ok) /\ Pending(h, q, ok, r1)
  BY DEF Install
<1>5. Reads /\ UNCHANGED <<issued, bounds>> /\ up' \subseteq Servers
  BY <1>1 DEF Install, AInv, TypeOK
<1> HIDE DEF r1, after, q
<1>6. keys' \in [Places -> SUBSET Keys] /\ mishaps' \in 0 .. MaxMishaps
  BY <1>2, <1>4, BecomesFacts DEF AInv
<1>7. /\ req' \in [Threads -> Request] /\ req'[h].kind = "server" /\ req'[h].step = "insert"
      /\ req'[h].user = r.user /\ req'[h].place = r.place /\ req'[h].todo = {}
      /\ req'[h].key = r.key /\ doubt' \subseteq Pairs
      /\ \A g \in Threads \ {h} : Same(req[g], req'[g])
  BY <1>2, <1>3, <1>4, PendingFacts DEF AInv
<1>8. TypeOK'
  BY <1>5, <1>6, <1>7 DEF AInv, TypeOK, Reads, database, bounds
<1>9. Proceeds(h)
  <2>1. Task(req[h])'
    BY <1>1, <1>7 DEF Task, Fit, Visit, Newer
  <2> QED BY <1>1, <1>5, <1>7, <2>1 DEF Proceeds, Reads, database
<1>10. writer # h
  BY <1>1 DEF AInv, Locked, Drafted
<1> QED BY <1>5, <1>7, <1>8, <1>9, <1>10, ReadsKeep DEF Holds

LEMMA InsertAInv ==
    ASSUME AInv, NEW h \in Threads, Insert(h)
    PROVE  AInv'
<1> DEFINE r == req[h]
           d == [db EXCEPT !.rows = db.rows \cup {r.place}]
<1>1. /\ r.kind = "server" /\ r.place \in Servers /\ r.user = owner[r.place] /\ r.todo = {}
      /\ r.user \in Users /\ r.key # NoKey /\ r \in Request
  BY TaskFacts DEF Insert, Fit
<1>2. Proceeds(h) /\ req' \in [Threads -> Request] /\ req'[h] = Idle
  BY EndsProceeds DEF Insert, AInv
<1>3. UNCHANGED <<up, keys, issued, bounds, mishaps>>
  BY DEF Insert
<1>4. CASE CanWrite(h) /\ Live(db, r.user)
  <2>1. Save(d) /\ doubt' \subseteq Pairs
    BY <1>4, TaskFacts DEF Insert, Commits, Altered, AInv, TypeOK, Database
  <2>2. /\ d \in Database /\ d.key = db.key /\ d.gone = db.gone /\ d.rows = db.rows \cup {r.place}
    BY <1>1 DEF AInv, TypeOK, Database
  <2> HIDE DEF d
  <2>3. TypeOK'
    BY <1>2, <1>3, <2>1, <2>2 DEF AInv, TypeOK, Save, bounds
  <2>4. Grows /\ Rows'
    BY <1>1, <1>3, <1>4, <2>1, <2>2, DatabaseFacts DEF Grows, AInv, Rows, Save, Live
  <2> QED BY <1>1, <1>2, <1>4, <2>1, <2>2, <2>3, <2>4, IdleTask, SaveKeeps DEF Save
<1>5. CASE Reads /\ doubt' = doubt
  <2>1. TypeOK'
    BY <1>2, <1>3, <1>5 DEF AInv, TypeOK, Reads, database, bounds
  <2>2. writer # h
    BY <1>1 DEF AInv, Locked, Drafted
  <2> QED BY <1>2, <1>3, <1>5, <2>1, <2>2, IdleTask, ReadsKeep
<1> QED BY <1>4, <1>5 DEF Insert

LEMMA RotationFacts ==
    ASSUME NEW r \in Request, NEW todo \in SUBSET Places
    PROVE  LET x == Rotation(r, todo) IN
           /\ x \in Request /\ x.kind = r.kind /\ x.user = r.user /\ x.old = r.old /\ x.key = r.key
           /\ x.place = r.place /\ x.todo = todo /\ x.ok = r.ok /\ x.done = r.done
           /\ x.held = r.held /\ x.step = IF todo = {} THEN "load" ELSE "rotate"
BY DEF Rotation, Request, Steps

LEMMA SetKeyAInv ==
    ASSUME AInv, NEW h \in Threads, SetKey(h)
    PROVE  AInv'
<1> DEFINE r == req[h]
           u == r.user
           n == issued[u] + 1
           r1 == [r EXCEPT !.key = n]
           r2 == Rotation(r1, Owned(db, u))
           d == IF Live(db, u) THEN [db EXCEPT !.key = [db.key EXCEPT ![u] = n]] ELSE db
<1>1. r.kind = "regenerate" /\ u \in Users /\ r.old <= issued[u] /\ r.done = {} /\ r \in Request
  BY TaskFacts DEF SetKey, Fit, Task, Newer
<1>2. n \in 1 .. MaxKey /\ r.old < n /\ issued[u] < n
  BY <1>1, DatabaseFacts, BoundsAssumption DEF SetKey, AInv, Request
<1> HIDE DEF n
<1>3. Commits(h, d, {}) /\ Goes(h, r2) /\ CanWrite(h) /\ issued' = [issued EXCEPT ![u] = n]
      /\ UNCHANGED <<up, keys, bounds, mishaps>>
  BY DEF SetKey, n, AInv, TypeOK, Database
<1>4. r1 \in Request /\ r1.kind = "regenerate" /\ r1.user = u /\ r1.old = r.old /\ r1.key = n
      /\ r1.done = {}
  BY <1>1, <1>2 DEF Request
<1>5. d \in Database /\ d.gone = db.gone /\ d.rows = db.rows
      /\ \A v \in Users : d.key[v] = IF v = u /\ Live(db, u) THEN n ELSE db.key[v]
  BY <1>1, <1>2 DEF AInv, TypeOK, Database
<1> HIDE DEF d, r1
<1>6. /\ r2 \in Request /\ r2.kind = "regenerate" /\ r2.user = u /\ r2.old = r.old /\ r2.key = n
      /\ r2.done = {} /\ r2.todo = Owned(db, u) /\ r2.step \in {"load", "rotate"}
  <2>1. Owned(db, u) \in SUBSET Places
    BY <1>1, DatabaseFacts DEF AInv
  <2> QED BY <1>4, <2>1, RotationFacts
<1> HIDE DEF r2
<1>7. /\ req' \in [Threads -> Request] /\ req'[h] = r2
      /\ \A g \in Threads \ {h} : Same(req[g], req'[g])
  BY <1>3, <1>6, GoesFacts DEF AInv
<1>8. issued' \in [Users -> 0 .. MaxKey] /\ \A v \in Users : issued[v] <= issued'[v]
  <2>1. \A v \in Users : issued[v] <= issued[v]
    BY DatabaseFacts DEF AInv
  <2> QED BY <1>1, <1>2, <1>3, <2>1 DEF AInv, TypeOK
<1>9. Save(d) /\ doubt' \subseteq Pairs
  BY <1>3 DEF Commits, Altered, AInv, TypeOK
<1>10. TypeOK'
  BY <1>3, <1>5, <1>7, <1>8, <1>9 DEF AInv, TypeOK, Save, bounds
<1>11. Grows /\ Rows'
  <2>1. Grows
    BY <1>5, <1>8, <1>9 DEF Grows, Save
  <2>2. \A v \in Users : Live(d, v) <=> Live(db, v)
    BY <1>2, <1>5, BoundsAssumption DEF Live, NoKey
  <2>3. \A v \in Users : d.key[v] <= issued'[v]
    <3>1. issued'[u] = n /\ n <= n /\ \A v \in Users \ {u} : issued'[v] = issued[v]
      BY <1>1, <1>2, <1>3 DEF AInv, TypeOK
    <3>2. db.key[u] <= n
      BY <1>1, <1>2, DatabaseFacts DEF AInv, Rows
    <3> QED BY <1>5, <3>1, <3>2 DEF AInv, Rows
  <2> QED BY <1>5, <1>9, <2>1, <2>2, <2>3, DatabaseFacts DEF AInv, Rows, Save
<1>12. Proceeds(h)
  <2>1. \A s \in Owned(db, u) : s \in Servers /\ owner[s] = u /\ s \in db'.rows
    BY <1>1, <1>5, <1>9, DatabaseFacts DEF Owned, AInv, Save
  <2>2. Task(req[h])'
    BY <1>1, <1>2, <1>6, <1>7, <2>1, BoundsAssumption DEF Task, Fit, Visit, Newer, NoKey
  <2> QED BY <1>6, <1>7, <2>2 DEF Proceeds, Owned
<1> QED BY <1>3, <1>5, <1>6, <1>7, <1>9, <1>10, <1>11, <1>12, SaveKeeps DEF Save, Holds

\* A step of a request that keeps its errand.
LEMMA SameErrand ==
    ASSUME AInv, NEW h \in Threads, NEW r \in Request,
           r.kind = req[h].kind, r.user = req[h].user, r.old = req[h].old, r.key = req[h].key,
           r.todo \subseteq req[h].todo, r.step \in {"rotate", "reinstall"} => r.step = req[h].step,
           r.step \notin {"set", "write"}, req[h].step # "set",
           Fit(r)
    PROVE  Task(r)
BY DEF AInv, Tasks, Task, Visit, Newer

LEMMA RotateAInv ==
    ASSUME AInv, NEW h \in Threads, NEW s \in Servers, Rotate(h, s)
    PROVE  AInv'
<1> DEFINE r == req[h]
           q == <<r.user, s>>
           after == Rotated(s, r.user, r.old, r.key)
           r1 == Rotation(r, r.todo \ {s})
<1>1. /\ r.kind = "regenerate" /\ r.step = "rotate" /\ r.user \in Users /\ r.key # NoKey
      /\ r.done = {} /\ r \in Request /\ <<r.user, r.key>> \in Keys
  BY TaskFacts DEF Rotate, Fit
<1>2. s \in Places /\ q \in Pairs /\ after \in SUBSET Keys
  BY <1>1 DEF Places, Pairs, Rotated, AInv, TypeOK
<1>3. /\ r1 \in Request /\ r1.kind = "regenerate" /\ r1.user = r.user /\ r1.old = r.old
      /\ r1.key = r.key /\ r1.todo = r.todo \ {s} /\ r1.done = {}
      /\ r1.step \in {"load", "rotate"}
  BY <1>1, RotationFacts DEF Request
<1>4. PICK ok \in BOOLEAN :
        /\ Becomes(s, after, ok)
        /\ doubt' \in {doubt \ {q}, doubt \cup {q}}
        /\ Touched(h, q, IF CanWrite(h) THEN r1 ELSE Idle)
  BY DEF Rotate, Settles
<1> HIDE DEF r1, after, q
<1>5. keys' \in [Places -> SUBSET Keys] /\ mishaps' \in 0 .. MaxMishaps /\ doubt' \subseteq Pairs
  BY <1>2, <1>4, BecomesFacts DEF AInv, TypeOK
<1>6. UNCHANGED <<up, issued, bounds>>
  BY DEF Rotate
<1>7. CASE CanWrite(h)
  <2>1. /\ req' \in [Threads -> Request] /\ req'[h] = r1
        /\ \A g \in Threads \ {h} : Same(req[g], req'[g])
    BY <1>2, <1>3, <1>4, <1>7, TouchedFacts DEF AInv
  <2>2. Hold(h, draft)
    BY <1>7 DEF Rotate
  <2>3. TypeOK'
    BY <1>5, <1>6, <2>1, <2>2 DEF AInv, TypeOK, Hold, bounds
  <2>4. Task(r1)
    BY <1>1, <1>3, SameErrand DEF Fit
  <2>5. Task(req[h])' /\ Proceeds(h)
    BY <1>1, <1>3, <1>6, <2>1, <2>2, <2>4 DEF Proceeds, Task, Fit, Visit, Newer, Hold
  <2>6. Drafted(req[h])'
    <3>1. draft = db
      BY <1>1, <1>7 DEF CanWrite, AInv, Locked, Drafted
    <3> QED BY <1>3, <2>1, <2>2, <3>1 DEF Drafted, Hold
  <2>7. \A u \in Users : issued[u] <= issued'[u]
    BY <1>6, DatabaseFacts DEF AInv
  <2> QED BY <1>7, <2>2, <2>3, <2>5, <2>6, <2>7, HoldKeeps
<1>8. CASE ~CanWrite(h)
  <2>1. /\ req' \in [Threads -> Request] /\ req'[h] = Idle
        /\ \A g \in Threads \ {h} : Same(req[g], req'[g])
    BY <1>2, <1>4, <1>8, IdleFacts, TouchedFacts DEF AInv
  <2>2. Reads /\ writer # h
    BY <1>8 DEF Rotate, CanWrite
  <2>3. TypeOK'
    BY <1>5, <1>6, <2>1, <2>2 DEF AInv, TypeOK, Reads, database, bounds
  <2>4. Proceeds(h)
    BY <2>1, IdleTask, IdleFacts DEF Proceeds, Task
  <2> QED BY <1>6, <2>1, <2>2, <2>3, <2>4, IdleTask, ReadsKeep
<1> QED BY <1>7, <1>8

LEMMA ReinstallAInv ==
    ASSUME AInv, NEW h \in Threads, NEW s \in Servers, Reinstall(h, s)
    PROVE  AInv'
<1> DEFINE r == req[h]
           q == <<r.user, s>>
           after == Replacing(s, r.user, r.key)
           r1 == [r EXCEPT !.todo = r.todo \ {s}, !.step = IF r.todo = {s} THEN "load" ELSE r.step]
<1>1. /\ r.kind = "reset" /\ r.step = "reinstall" /\ r.user \in Users /\ r.key # NoKey
      /\ r.done = {} /\ r \in Request /\ <<r.user, r.key>> \in Keys
  BY TaskFacts DEF Reinstall, Fit
<1>2. s \in Places /\ q \in Pairs /\ after \in SUBSET Keys
  BY <1>1 DEF Places, Pairs, Replacing, AInv, TypeOK
<1>3. /\ r1 \in Request /\ r1.kind = "reset" /\ r1.user = r.user /\ r1.old = r.old
      /\ r1.key = r.key /\ r1.todo = r.todo \ {s} /\ r1.done = {}
      /\ r1.step \in {"load", "reinstall"}
  BY <1>1 DEF Request, Steps
<1>4. \/ /\ \E ok \in BOOLEAN : Becomes(s, after, ok)
         /\ doubt' \in {doubt \ {q}, doubt \cup {q}}
         /\ Touched(h, q, r1)
      \/ Goes(h, r1) /\ UNCHANGED <<keys, doubt, mishaps>>
  BY <1>1 DEF Reinstall, Settles, Request
<1>5. Reads /\ UNCHANGED <<up, issued, bounds>>
  BY DEF Reinstall
<1> HIDE DEF r1, after, q
<1>6. /\ keys' \in [Places -> SUBSET Keys] /\ mishaps' \in 0 .. MaxMishaps /\ doubt' \subseteq Pairs
      /\ req' \in [Threads -> Request] /\ req'[h] = r1
      /\ \A g \in Threads \ {h} : Same(req[g], req'[g])
  BY <1>2, <1>3, <1>4, BecomesFacts, TouchedFacts, GoesFacts DEF AInv, TypeOK
<1>7. TypeOK'
  BY <1>5, <1>6 DEF AInv, TypeOK, Reads, database, bounds
<1>8. Task(r1)
  BY <1>1, <1>3, SameErrand DEF Fit
<1>9. Proceeds(h)
  BY <1>1, <1>3, <1>5, <1>6, <1>8 DEF Proceeds, Task, Fit, Visit, Newer, Reads, database
<1>10. writer # h
  BY <1>1 DEF AInv, Locked, Drafted
<1> QED BY <1>3, <1>5, <1>6, <1>7, <1>9, <1>10, ReadsKeep DEF Holds

LEMMA LoadAInv ==
    ASSUME AInv, NEW h \in Threads, Load(h)
    PROVE  AInv'
<1> DEFINE r == req[h]
<1>1. /\ r.kind \in {"regenerate", "reset", "sync"} /\ r.step = "load" /\ r \in Request
      /\ r.done = {} /\ Fit(r)
  BY TaskFacts DEF Load, Fit
<1>2. /\ Reads /\ UNCHANGED <<up, keys, issued, doubt, bounds, mishaps>>
      /\ View(h) \in {db, draft}
  BY DEF Load, View
<1>3. PICK r1 \in Request :
        /\ Goes(h, r1) /\ r1.kind = r.kind /\ r1.old = r.old /\ r1.step = "onboard"
        /\ r1.todo \subseteq r.todo /\ r1.done = {} /\ r1.user \in Users /\ r1.place \in Accounts
        /\ r.kind # "sync" => r1.user = r.user /\ r1.key = r.key
  <2>1. CASE r.kind = "sync"
    <3>1. PICK u \in r.todo :
             Goes(h, [r EXCEPT !.user = u, !.key = View(h).key[u], !.todo = r.todo \ {u},
                               !.place = Target(View(h), u), !.step = "onboard"])
      BY <1>1, <2>1 DEF Load, Request
    <3>2. u \in Users /\ View(h).key[u] \in 0 .. MaxKey /\ Target(View(h), u) \in Accounts
          /\ Target(View(h), u) \in Places
      BY <1>1, <1>2, <2>1, DatabaseFacts DEF AInv, Fit
    <3> DEFINE r1 == [r EXCEPT !.user = u, !.key = View(h).key[u], !.todo = r.todo \ {u},
                               !.place = Target(View(h), u), !.step = "onboard"]
    <3>3. /\ r1 \in Request /\ r1.kind = r.kind /\ r1.old = r.old /\ r1.step = "onboard"
          /\ r1.todo \subseteq r.todo /\ r1.done = {} /\ r1.user = u
          /\ r1.place = Target(View(h), u)
      BY <1>1, <3>2 DEF Request, Steps
    <3> HIDE DEF r1
    <3> QED BY <2>1, <3>1, <3>2, <3>3 DEF r1
  <2>2. CASE r.kind # "sync"
    <3> DEFINE r1 == [r EXCEPT !.place = Target(View(h), r.user), !.step = "onboard"]
    <3>1. Goes(h, r1)
      BY <2>2 DEF Load
    <3>2. r.user \in Users /\ Target(View(h), r.user) \in Accounts
          /\ Target(View(h), r.user) \in Places
      BY <1>1, <1>2, <2>2, DatabaseFacts DEF AInv, Fit
    <3>3. /\ r1 \in Request /\ r1.kind = r.kind /\ r1.old = r.old /\ r1.step = "onboard"
          /\ r1.todo = r.todo /\ r1.done = {} /\ r1.user = r.user /\ r1.key = r.key
          /\ r1.place = Target(View(h), r.user)
      BY <1>1, <3>2 DEF Request, Steps
    <3> HIDE DEF r1
    <3> QED BY <2>2, <3>1, <3>2, <3>3
  <2> QED BY <2>1, <2>2
<1>4. /\ req' \in [Threads -> Request] /\ req'[h] = r1
      /\ \A g \in Threads \ {h} : Same(req[g], req'[g])
  BY <1>3, GoesFacts DEF AInv
<1>5. TypeOK'
  BY <1>2, <1>4 DEF AInv, TypeOK, Reads, database, bounds
<1>6. Task(r1)
  <2>1. Newer(r1)
    BY <1>1, <1>3, TaskFacts DEF Task, Newer
  <2> QED BY <1>1, <1>3, <2>1 DEF Task, Fit, Visit
<1>7. Proceeds(h)
  BY <1>1, <1>2, <1>3, <1>4, <1>6 DEF Proceeds, Task, Fit, Visit, Newer, Reads, database
<1>8. writer = h => Drafted(r1)
  BY <1>1, <1>3 DEF AInv, Locked, Drafted
<1> QED BY <1>1, <1>2, <1>3, <1>4, <1>5, <1>7, <1>8, ReadsKeep DEF Holds

LEMMA OnboardedFacts ==
    ASSUME NEW r \in Request, Fit(r), r.step = "onboard"
    PROVE  LET x == Onboarded(r) IN
           /\ x \in Request
           /\ \/ x = Idle /\ r.kind \in {"reset", "sync"}
              \/ /\ x.kind = r.kind /\ x.user = r.user /\ x.old = r.old /\ x.key = r.key
                 /\ x.place = r.place /\ x.todo = r.todo /\ x.ok = r.ok /\ x.done = r.done
                 /\ x.held = r.held
                 /\ \/ r.kind = "regenerate" /\ x.step = "offboard"
                    \/ r.kind = "newUser" /\ x.step = "commit"
                    \/ r.kind = "sync" /\ r.todo # {} /\ x.step = "load"
<1> DEFINE y(step) == [r EXCEPT !.step = step]
<1>1. \A step \in {"offboard", "commit", "load"} :
        /\ y(step) \in Request /\ y(step).kind = r.kind /\ y(step).user = r.user
        /\ y(step).old = r.old /\ y(step).key = r.key
        /\ y(step).place = r.place /\ y(step).todo = r.todo /\ y(step).ok = r.ok
        /\ y(step).done = r.done /\ y(step).held = r.held /\ y(step).step = step
  BY DEF Request, Steps
<1>2. Onboarded(r) = IF r.kind = "regenerate" THEN y("offboard")
                     ELSE IF r.kind = "newUser" THEN y("commit")
                     ELSE IF r.kind = "sync" /\ r.todo # {} THEN y("load") ELSE Idle
  BY DEF Onboarded
<1>3. r.kind \in {"regenerate", "reset", "sync", "newUser"}
  BY DEF Fit
<1> HIDE DEF y
<1> QED BY <1>1, <1>2, <1>3, IdleFacts

\* What the next step of an onboarding is, however it went.
LEMMA OnboardShape ==
    ASSUME AInv, NEW h \in Threads, Onboard(h)
    PROVE  /\ req' \in [Threads -> Request] /\ doubt' \subseteq Pairs
           /\ keys' \in [Places -> SUBSET Keys] /\ mishaps' \in 0 .. MaxMishaps
           /\ \A g \in Threads \ {h} : Same(req[g], req'[g])
           /\ \/ req'[h] = Idle /\ req[h].kind \in {"reset", "sync"}
              \/ /\ req'[h].kind = req[h].kind /\ req'[h].user = req[h].user
                 /\ req'[h].old = req[h].old /\ req'[h].key = req[h].key
                 /\ req'[h].place = req[h].place /\ req'[h].todo = req[h].todo
                 /\ \/ req[h].kind = "regenerate" /\ req'[h].step = "offboard" /\ req'[h].done = {}
                    \/ req[h].kind = "newUser" /\ req'[h].step = "commit"
                    \/ /\ req[h].kind = "sync" /\ req'[h].step = "load" /\ req'[h].done = {}
<1> DEFINE r == req[h]
           q == <<r.user, r.place>>
           after == Replacing(r.place, r.user, r.key)
           r1 == Onboarded(r)
<1>1. /\ r.step = "onboard" /\ r.user \in Users /\ r.place \in Accounts /\ r.place \in Places
      /\ r.done = {} /\ r \in Request /\ q \in Pairs /\ Fit(r)
  BY TaskFacts, DatabaseFacts DEF Onboard, Fit, AInv
<1>2. r.key # NoKey => after \in SUBSET Keys
  BY <1>1, TaskFacts DEF Replacing, AInv, TypeOK
<1>3. /\ r1 \in Request
      /\ \/ r1 = Idle /\ r.kind \in {"reset", "sync"}
         \/ /\ r1.kind = r.kind /\ r1.user = r.user /\ r1.old = r.old /\ r1.key = r.key
            /\ r1.place = r.place /\ r1.todo = r.todo /\ r1.done = {}
            /\ \/ r.kind = "regenerate" /\ r1.step = "offboard"
               \/ r.kind = "newUser" /\ r1.step = "commit"
               \/ r.kind = "sync" /\ r1.step = "load"
  BY <1>1, OnboardedFacts
<1> HIDE DEF r1, after, q
<1>4. CASE r.key = NoKey
  <2>1. Goes(h, r1) /\ UNCHANGED <<keys, doubt, mishaps>> /\ r.kind # "newUser"
    BY <1>1, <1>4 DEF Onboard, r1, Fit
  <2> QED BY <1>3, <2>1, GoesFacts DEF AInv, TypeOK
<1>5. CASE r.key # NoKey
  <2>1. PICK ok \in BOOLEAN :
          /\ Becomes(r.place, after, ok)
          /\ IF r.kind = "newUser" THEN Pending(h, q, ok, r1)
             ELSE Settles(q, ok /\ Current(r)) /\ Touched(h, q, r1)
    BY <1>5 DEF Onboard, r1, after, q
  <2>2. keys' \in [Places -> SUBSET Keys] /\ mishaps' \in 0 .. MaxMishaps
    BY <1>1, <1>2, <1>5, <2>1, BecomesFacts DEF AInv
  <2>3. CASE r.kind = "newUser"
    <3>1. Pending(h, q, ok, r1)
      BY <2>1, <2>3
    <3> QED BY <1>1, <1>3, <2>2, <2>3, <3>1, PendingFacts, IdleFacts DEF AInv
  <2>4. CASE r.kind # "newUser"
    <3>1. Touched(h, q, r1) /\ doubt' \in {doubt \ {q}, doubt \cup {q}}
      BY <2>1, <2>4 DEF Settles
    <3>2. doubt' \subseteq Pairs
      BY <1>1, <3>1 DEF AInv, TypeOK
    <3> QED BY <1>1, <1>3, <2>2, <2>4, <3>1, <3>2, TouchedFacts DEF AInv
  <2> QED BY <2>3, <2>4
<1> QED BY <1>4, <1>5

LEMMA OnboardAInv ==
    ASSUME AInv, NEW h \in Threads, Onboard(h)
    PROVE  AInv'
<1>1. /\ req[h].step = "onboard" /\ Fit(req[h]) /\ req[h] \in Request /\ Newer(req[h])
      /\ Reads /\ UNCHANGED <<up, issued, bounds>>
  BY TaskFacts DEF Onboard, Task
<1>2. TypeOK'
  BY <1>1, OnboardShape DEF AInv, TypeOK, Reads, database, bounds
<1>3. Task(req'[h])
  BY <1>1, OnboardShape, IdleTask DEF Task, Fit, Visit, Newer
<1>4. Proceeds(h)
  BY <1>1, <1>3, OnboardShape, IdleFacts DEF Proceeds, Task, Fit, Visit, Newer, Reads, database
<1>5. Holds(req'[h]) => writer = h
  BY <1>1, OnboardShape, IdleTask, IdleFacts DEF AInv, Locked, Holds
<1>6. writer = h => Drafted(req'[h])
  <2>1. ASSUME writer = h PROVE Drafted(req[h]) /\ req[h].kind \in {"regenerate", "newUser"}
    BY <1>1, <2>1 DEF AInv, Locked, Drafted, Fit
  <2>2. ASSUME req[h].kind = "regenerate", Drafted(req[h]) PROVE Drafted(req'[h])
    BY <2>2, OnboardShape, IdleFacts DEF Drafted
  <2>3. ASSUME req[h].kind = "newUser", Drafted(req[h]) PROVE Drafted(req'[h])
    BY <2>3, OnboardShape, IdleFacts DEF Drafted
  <2> QED BY <2>1, <2>2, <2>3
<1> QED BY <1>1, <1>2, <1>4, <1>5, <1>6, ReadsKeep

LEMMA OffboardAInv ==
    ASSUME AInv, NEW h \in Threads, Offboard(h)
    PROVE  AInv'
<1> DEFINE r == req[h]
           q == <<r.user, r.place>>
           after == keys[r.place] \ {<<r.user, r.old>>}
<1>1. /\ r.kind = "regenerate" /\ r.step = "offboard" /\ r.user \in Users /\ r.place \in Places
      /\ q \in Pairs /\ r \in Request
  BY TaskFacts, DatabaseFacts DEF Offboard, Fit, AInv
<1>2. after \in SUBSET Keys
  BY <1>1 DEF AInv, TypeOK
<1>3. /\ \E ok \in BOOLEAN : Becomes(r.place, after, ok)
      /\ doubt' \in {doubt, doubt \cup {q}} /\ Touched(h, q, Idle)
      /\ UNCHANGED <<up, issued, bounds>>
  BY DEF Offboard
<1> HIDE DEF after, q
<1>4. /\ keys' \in [Places -> SUBSET Keys] /\ mishaps' \in 0 .. MaxMishaps /\ doubt' \subseteq Pairs
      /\ req' \in [Threads -> Request] /\ req'[h] = Idle
      /\ \A g \in Threads \ {h} : Same(req[g], req'[g])
  BY <1>1, <1>2, <1>3, BecomesFacts, TouchedFacts, IdleFacts DEF AInv, TypeOK
<1>5. Proceeds(h)
  BY <1>4, IdleTask, IdleFacts DEF Proceeds, Task
<1>6. CASE writer = h
  <2>1. draft = db
    BY <1>1, <1>6 DEF AInv, Locked, Drafted
  <2>2. Save(db)
    BY <1>6, <2>1 DEF Offboard
  <2>3. TypeOK' /\ Grows /\ Rows'
    BY <1>3, <1>4, <2>2, DatabaseFacts
       DEF AInv, TypeOK, Save, bounds, Grows, Rows, Live
  <2> QED BY <1>4, <1>5, <1>6, <2>2, <2>3, IdleTask, SaveKeeps DEF CanWrite, Save
<1>7. CASE writer # h
  <2>1. Reads
    BY <1>7 DEF Offboard
  <2>2. TypeOK'
    BY <1>3, <1>4, <2>1 DEF AInv, TypeOK, Reads, database, bounds
  <2> QED BY <1>3, <1>4, <1>5, <1>7, <2>1, <2>2, IdleTask, ReadsKeep
<1> QED BY <1>6, <1>7

LEMMA WriteDeleteAInv ==
    ASSUME AInv, NEW h \in Threads, WriteDelete(h)
    PROVE  AInv'
<1> DEFINE r == req[h]
           u == r.user
           gone == {u} \X r.todo
           d == [db EXCEPT !.key = [db.key EXCEPT ![u] = NoKey], !.gone = db.gone \cup {u},
                           !.rows = db.rows \ Owned(db, u)]
           r1 == [r EXCEPT !.done = gone, !.todo = {}, !.step = "revoke"]
<1>1. /\ r.kind = "delete" /\ r.step = "write" /\ u \in Users /\ r.place \in Accounts
      /\ r \in Request
  BY TaskFacts DEF WriteDelete, Fit
<1>2. gone \subseteq Pairs
  BY <1>1 DEF Pairs, Request
<1>3. /\ CanWrite(h) /\ up' = up \ r.todo /\ Hold(h, d) /\ Goes(h, r1)
      /\ keys' = [p \in Places |-> IF p \in r.todo THEN {} ELSE keys[p]]
      /\ doubt' = doubt \cup gone /\ UNCHANGED <<issued, bounds, mishaps>>
  BY DEF WriteDelete, AInv, TypeOK, Database
<1>4. d \in Database
  <2>1. db.rows \ Owned(db, u) \in SUBSET Servers /\ db.gone \cup {u} \in SUBSET Users
    BY <1>1, DatabaseFacts DEF AInv
  <2>2. [db.key EXCEPT ![u] = NoKey] \in [Users -> 0 .. MaxKey]
    BY <1>1, BoundsAssumption DEF AInv, TypeOK, Database, NoKey
  <2>3. db \in Database
    BY DEF AInv, TypeOK
  <2> QED BY <2>1, <2>2, <2>3 DEF Database
<1> HIDE DEF gone
<1>5. /\ r1 \in Request /\ r1.kind = "delete" /\ r1.step = "revoke" /\ r1.user = u
      /\ r1.place = r.place /\ r1.todo = {}
  BY <1>1, <1>2 DEF Request, Steps
<1> HIDE DEF r1
<1>6. /\ req' \in [Threads -> Request] /\ req'[h] = r1
      /\ \A g \in Threads \ {h} : Same(req[g], req'[g])
  BY <1>3, <1>5, GoesFacts DEF AInv
<1>7. TypeOK'
  BY <1>2, <1>3, <1>4, <1>6 DEF AInv, TypeOK, Hold, bounds
<1>8. Proceeds(h)
  <2>1. Task(req[h])'
    BY <1>1, <1>5, <1>6 DEF Task, Fit, Visit, Newer
  <2> QED BY <1>5, <1>6, <2>1 DEF Proceeds
<1>9. Drafted(req[h])'
  <2>1. db' = db /\ draft' = d /\ req'[h].user = u /\ req'[h].kind = "delete"
        /\ req'[h].step = "revoke"
    BY <1>3, <1>5, <1>6 DEF Hold
  <2>2. Owned(db, u)' = Owned(db, u)
    BY <2>1 DEF Owned
  <2> QED BY <2>1, <2>2 DEF Drafted, Owned
<1>10. \A v \in Users : issued[v] <= issued'[v]
  BY <1>3, DatabaseFacts DEF AInv
<1> HIDE DEF d
<1> QED BY <1>3, <1>7, <1>8, <1>9, <1>10, HoldKeeps

LEMMA RevokeAInv ==
    ASSUME AInv, NEW h \in Threads, Revoke(h)
    PROVE  AInv'
<1> DEFINE r == req[h]
           q == <<r.user, r.place>>
           after == keys[r.place] \ {<<r.user, r.key>>}
           r1 == [r EXCEPT !.step = "commit"]
<1>1. /\ r.kind = "delete" /\ r.step = "revoke" /\ r.user \in Users /\ r.place \in Accounts
      /\ r.place \in Places /\ q \in Pairs /\ r \in Request
  BY TaskFacts, DatabaseFacts DEF Revoke, Fit, AInv
<1>2. after \in SUBSET Keys
  BY <1>1 DEF AInv, TypeOK
<1>3. \E ok, good \in BOOLEAN : Becomes(r.place, after, ok) /\ Pending(h, q, good, r1)
  <2>1. PICK ok \in BOOLEAN :
          /\ Becomes(r.place, after, ok)
          /\ Pending(h, q, ok /\ q \notin r.held /\ Current(r), r1)
    BY DEF Revoke
  <2>2. (ok /\ q \notin r.held /\ Current(r)) \in BOOLEAN
    OBVIOUS
  <2> QED BY <2>1, <2>2
<1>4. /\ r1 \in Request /\ r1.kind = "delete" /\ r1.step = "commit" /\ r1.user = r.user
      /\ r1.place = r.place /\ r1.todo = r.todo
  BY <1>1 DEF Request, Steps
<1>5. Reads /\ UNCHANGED <<up, issued, bounds>>
  BY DEF Revoke
<1> HIDE DEF after, r1, q
<1>6. /\ keys' \in [Places -> SUBSET Keys] /\ mishaps' \in 0 .. MaxMishaps /\ doubt' \subseteq Pairs
      /\ req' \in [Threads -> Request]
      /\ req'[h].kind = "delete" /\ req'[h].step = "commit" /\ req'[h].user = r.user
      /\ req'[h].place = r.place /\ req'[h].todo = r.todo
      /\ \A g \in Threads \ {h} : Same(req[g], req'[g])
  BY <1>1, <1>2, <1>3, <1>4, BecomesFacts, PendingFacts DEF AInv
<1>7. TypeOK'
  BY <1>5, <1>6 DEF AInv, TypeOK, Reads, database, bounds
<1>8. Proceeds(h)
  <2>1. Task(req[h])'
    BY <1>1, <1>6 DEF Task, Fit, Visit, Newer
  <2> QED BY <1>1, <1>6, <2>1 DEF Proceeds
<1>9. writer = h /\ Drafted(req[h])
  BY <1>1 DEF AInv, Locked, Holds
<1>10. Drafted(req'[h])
  BY <1>1, <1>6, <1>9 DEF Drafted
<1> QED BY <1>5, <1>7, <1>8, <1>9, <1>10, ReadsKeep

\* What the holder of the lock may commit keeps the database in order.
LEMMA DraftFacts ==
    ASSUME AInv, NEW h \in Threads, writer = h, Save(draft), issued' = issued
    PROVE  Grows /\ Rows' /\ db'.rows \subseteq db.rows
<1>1. db' = draft /\ Drafted(req[h]) /\ Rows /\ db \in Database /\ req[h] \in Request
      /\ (req[h].kind \in {"newUser", "delete"} => req[h].user \in Users)
  BY TaskFacts DEF Save, AInv, Locked, TypeOK, Fit
<1>2. issued \in [Users -> 0 .. MaxKey] /\ \A v \in Users : issued[v] <= issued[v]
  BY DatabaseFacts DEF AInv, TypeOK
<1>3. CASE draft = db
  BY <1>1, <1>2, <1>3 DEF Grows, Rows, Live
<1>4. CASE /\ req[h].kind = "newUser" /\ req[h].user \notin db.gone /\ ~Live(db, req[h].user)
           /\ draft = [db EXCEPT !.key = [db.key EXCEPT ![req[h].user] = req[h].key]]
           /\ req[h].key <= issued[req[h].user]
  <2>1. req[h].key # NoKey
    BY <1>4, TaskFacts DEF Fit
  <2>2. /\ draft.gone = db.gone /\ draft.rows = db.rows /\ draft.key[req[h].user] = req[h].key
        /\ \A v \in Users \ {req[h].user} : draft.key[v] = db.key[v]
    BY <1>1, <1>4 DEF Database
  <2>3. \A v \in Users : draft.key[v] <= issued[v]
    BY <1>1, <1>4, <2>2 DEF Rows
  <2>4. \A v \in Users : Live(draft, v) <=> Live(db, v) \/ v = req[h].user
    BY <1>1, <2>1, <2>2 DEF Live
  <2>5. Grows
    BY <1>1, <1>2, <2>2 DEF Grows
  <2>6. \A v \in db.gone : v \in Users
    BY <1>1 DEF Database
  <2>7. Rows'
    BY <1>1, <1>4, <2>2, <2>3, <2>4, <2>6, DatabaseFacts DEF Rows, AInv
  <2> QED BY <1>1, <2>2, <2>5, <2>7
<1>5. CASE /\ req[h].kind = "delete"
           /\ draft = [db EXCEPT !.key = [db.key EXCEPT ![req[h].user] = NoKey],
                                 !.gone = db.gone \cup {req[h].user},
                                 !.rows = db.rows \ Owned(db, req[h].user)]
  <2>1. /\ draft.gone = db.gone \cup {req[h].user}
        /\ draft.rows = db.rows \ Owned(db, req[h].user) /\ draft.key[req[h].user] = NoKey
        /\ \A v \in Users \ {req[h].user} : draft.key[v] = db.key[v]
    BY <1>1, <1>5 DEF Database
  <2>2. \A v \in Users : draft.key[v] <= issued[v]
    <3>1. \A v \in Users : NoKey <= issued[v]
      BY DatabaseFacts DEF AInv, NoKey
    <3> QED BY <1>1, <2>1, <3>1 DEF Rows
  <2>3. \A v \in Users : Live(draft, v) <=> Live(db, v) /\ v # req[h].user
    BY <1>1, <1>5, <2>1 DEF Live
  <2>4. \A s \in db.rows : owner[s] = req[h].user <=> s \notin draft.rows
    BY <2>1 DEF Owned
  <2>5. Grows
    BY <1>1, <1>2, <2>1, <2>4 DEF Grows
  <2>6. \A v \in db.gone : v \in Users
    BY <1>1 DEF Database
  <2>7. Rows'
    <3>1. \A s \in draft.rows : Live(draft, owner[s])
      BY <1>1, <2>1, <2>3, <2>4, DatabaseFacts DEF Rows, AInv
    <3>2. \A v \in draft.gone : ~Live(draft, v)
      BY <1>1, <1>5, <2>1, <2>3, <2>6 DEF Rows
    <3> QED BY <1>1, <2>2, <3>1, <3>2 DEF Rows
  <2> QED BY <1>1, <2>1, <2>5, <2>7
<1>6. CASE \E mode \in {"per_user", "shared"} \ {db.mode} : draft = [db EXCEPT !.mode = mode]
  <2>1. draft.gone = db.gone /\ draft.rows = db.rows /\ draft.key = db.key
    BY <1>1, <1>6 DEF Database
  <2> QED BY <1>1, <1>2, <2>1 DEF Grows, Rows, Live
<1> QED BY <1>1, <1>3, <1>4, <1>5, <1>6 DEF Drafted

LEMMA CommitAInv ==
    ASSUME AInv, NEW h \in Threads, Commit(h)
    PROVE  AInv'
<1>1. req[h].kind \in {"newUser", "delete"} /\ writer = h
  BY TaskFacts DEF Commit, Fit, AInv, Locked, Holds
<1>2. Proceeds(h) /\ req' \in [Threads -> Request] /\ req'[h] = Idle
  BY EndsProceeds DEF Commit, AInv
<1>3. Save(draft) /\ doubt' \subseteq Pairs /\ UNCHANGED <<up, keys, issued, bounds, mishaps>>
  BY DEF Commit, Commits, Altered, AInv, TypeOK
<1>4. TypeOK'
  BY <1>2, <1>3 DEF AInv, TypeOK, Save, bounds
<1>5. Grows /\ Rows' /\ db'.rows \subseteq db.rows
  BY <1>1, <1>3, DraftFacts
<1> QED BY <1>1, <1>2, <1>3, <1>4, <1>5, IdleTask, SaveKeeps DEF CanWrite

LEMMA SyncAInv ==
    ASSUME AInv, NEW h \in Threads, NEW u \in Users, Sync(h, u)
    PROVE  AInv'
<1> DEFINE r == req[h]
           a == Target(draft, u)
           after == Replacing(a, u, draft.key[u])
           r1(ok) == [r EXCEPT !.todo = @ \ {u}, !.ok = @ /\ ok]
<1>1. r.kind = "switch" /\ r.step = "sync" /\ r.todo \subseteq Accounts /\ r \in Request
  BY TaskFacts DEF Sync, Fit
<1>2. a \in Accounts /\ a \in Places /\ <<u, a>> \in Pairs
  BY DatabaseFacts DEF AInv, Pairs
<1>3. PICK ok \in BOOLEAN : Becomes(a, after, ok) /\ Pending(h, <<u, a>>, ok, r1(ok))
  BY Zenon DEF Sync
<1>4. /\ r1(ok) \in Request /\ r1(ok).kind = "switch" /\ r1(ok).step = "sync"
      /\ r1(ok).todo \subseteq r.todo
  BY <1>1 DEF Request
<1>5. Reads /\ UNCHANGED <<up, issued, bounds>>
  BY DEF Sync
<1> HIDE DEF r1, after
<1>6. /\ req' \in [Threads -> Request] /\ req'[h].kind = "switch" /\ req'[h].step = "sync"
      /\ req'[h].todo \subseteq r.todo /\ doubt' \subseteq Pairs
      /\ \A g \in Threads \ {h} : Same(req[g], req'[g])
  BY <1>2, <1>3, <1>4, PendingFacts DEF AInv
<1>7. writer = h /\ Drafted(req[h])
  BY <1>1 DEF AInv, Locked, Holds
<1>8. keys' \in [Places -> SUBSET Keys] /\ mishaps' \in 0 .. MaxMishaps
  <2>1. u \in LiveUsers
    BY <1>1, <1>7 DEF Drafted, Sync
  <2>2. draft.key[u] \in 1 .. MaxKey
    BY <2>1, DatabaseFacts, BoundsAssumption DEF LiveUsers, Live, AInv, NoKey
  <2>3. after \in SUBSET Keys
    BY <1>2, <2>2 DEF after, Replacing, Keys, AInv, TypeOK
  <2> QED BY <1>2, <1>3, <2>3, BecomesFacts DEF AInv
<1>9. TypeOK'
  BY <1>5, <1>6, <1>8 DEF AInv, TypeOK, Reads, database, bounds
<1>10. Proceeds(h)
  <2>1. Task(req[h])'
    BY <1>1, <1>6 DEF Task, Fit, Visit, Newer
  <2> QED BY <1>6, <2>1 DEF Proceeds
<1>11. Drafted(req'[h])
  BY <1>1, <1>6, <1>7 DEF Drafted
<1> QED BY <1>5, <1>7, <1>9, <1>10, <1>11, ReadsKeep

LEMMA SyncedAInv ==
    ASSUME AInv, NEW h \in Threads, Synced(h)
    PROVE  AInv'
<1> DEFINE r == req[h]
           r1 == [r EXCEPT !.step = "drain", !.todo = ToDrain(r),
                           !.done = IF r.ok THEN r.done ELSE {}]
<1>1. r.kind = "switch" /\ r.step = "sync" /\ r \in Request
  BY TaskFacts DEF Synced, Fit
<1>2. ToDrain(r) \subseteq Accounts /\ ToDrain(r) \subseteq Places
  BY DatabaseFacts DEF AInv, ToDrain, LiveUsers, Accounts
<1>3. Goes(h, r1) /\ Reads /\ UNCHANGED <<up, keys, issued, doubt, bounds, mishaps>>
  BY <1>1 DEF Synced, Request
<1>4. /\ r1 \in Request /\ r1.kind = "switch" /\ r1.step = "drain" /\ r1.todo = ToDrain(r)
      /\ r1.ok = r.ok
  BY <1>1, <1>2 DEF Request, Steps
<1> HIDE DEF r1
<1>5. /\ req' \in [Threads -> Request] /\ req'[h] = r1
      /\ \A g \in Threads \ {h} : Same(req[g], req'[g])
  BY <1>3, <1>4, GoesFacts DEF AInv
<1>6. TypeOK'
  BY <1>3, <1>5 DEF AInv, TypeOK, Reads, database, bounds
<1>7. Proceeds(h)
  <2>1. Task(req[h])'
    BY <1>2, <1>4, <1>5 DEF Task, Fit, Visit, Newer
  <2> QED BY <1>2, <1>4, <1>5, <2>1 DEF Proceeds
<1>8. writer = h /\ Drafted(req[h])
  BY <1>1 DEF AInv, Locked, Holds
<1>9. Drafted(req'[h])
  BY <1>1, <1>4, <1>5, <1>8 DEF Drafted, ToDrain
<1> QED BY <1>3, <1>6, <1>7, <1>8, <1>9, ReadsKeep

LEMMA DrainAInv ==
    ASSUME AInv, NEW h \in Threads, NEW a \in Accounts, Drain(h, a)
    PROVE  AInv'
<1> DEFINE r == req[h]
           r1(drained) == [r EXCEPT !.todo = @ \ {a},
                                    !.done = (@ \ (Users \X {a})) \cup ((drained \X {a}) \ r.held)]
<1>1. r.kind = "switch" /\ r.step = "drain" /\ r.todo \subseteq Accounts /\ r \in Request
      /\ a \in Places
  BY TaskFacts, DatabaseFacts DEF Drain, Fit, AInv
<1>2. PICK drained \in SUBSET LiveUsers :
        /\ keys' = [keys EXCEPT ![a] = @ \ {<<u, draft.key[u]>> : u \in drained}]
        /\ UNCHANGED mishaps \/ Mishap
        /\ Goes(h, r1(drained))
        /\ doubt' = doubt \cup (LiveUsers \X {a})
  <2>1. \A x \in {LiveUsers} \cup {LiveUsers \ {u} : u \in LiveUsers} : x \in SUBSET LiveUsers
    OBVIOUS
  <2>2. \E drained \in {LiveUsers} \cup {LiveUsers \ {u} : u \in LiveUsers} :
        /\ keys' = [keys EXCEPT ![a] = @ \ {<<u, draft.key[u]>> : u \in drained}]
        /\ UNCHANGED mishaps \/ Mishap
        /\ Goes(h, r1(drained))
        /\ doubt' = doubt \cup (LiveUsers \X {a})
    BY Zenon DEF Drain
  <2> QED BY Zenon, <2>1, <2>2
<1>3. LiveUsers \X {a} \subseteq Pairs /\ drained \X {a} \subseteq Pairs
  BY <1>1 DEF LiveUsers, Pairs
<1>5. /\ r1(drained) \in Request /\ r1(drained).kind = "switch" /\ r1(drained).step = "drain"
      /\ r1(drained).todo \subseteq r.todo /\ r1(drained).ok = r.ok
  BY <1>1, <1>3 DEF Request
<1> HIDE DEF r1
<1>6. /\ req' \in [Threads -> Request] /\ req'[h] = r1(drained)
      /\ \A g \in Threads \ {h} : Same(req[g], req'[g])
  BY <1>2, <1>5, GoesFacts DEF AInv
<1>7. Reads /\ UNCHANGED <<up, issued, bounds>>
  BY DEF Drain
<1>8. keys' \in [Places -> SUBSET Keys] /\ mishaps' \in 0 .. MaxMishaps
  BY <1>1, <1>2, BoundsAssumption DEF AInv, TypeOK, Mishap
<1>9. TypeOK'
  BY <1>2, <1>3, <1>6, <1>7, <1>8 DEF AInv, TypeOK, Reads, database, bounds
<1>10. Proceeds(h)
  <2>1. Task(req[h])'
    BY <1>1, <1>5, <1>6 DEF Task, Fit, Visit, Newer
  <2> QED BY <1>5, <1>6, <2>1 DEF Proceeds
<1>11. writer = h /\ Drafted(req[h])
  BY <1>1 DEF AInv, Locked, Holds
<1>12. Drafted(req'[h])
  BY <1>1, <1>5, <1>6, <1>11 DEF Drafted, ToDrain
<1> QED BY <1>7, <1>9, <1>10, <1>11, <1>12, ReadsKeep

LEMMA DrainedAInv ==
    ASSUME AInv, NEW h \in Threads, Drained(h)
    PROVE  AInv'
<1>1. req[h].kind = "switch" /\ writer = h
  BY TaskFacts DEF Drained, Fit, AInv, Locked, Holds
<1>2. Proceeds(h) /\ req' \in [Threads -> Request] /\ req'[h] = Idle
  BY EndsProceeds DEF Drained, AInv
<1>3. PICK d \in {db, draft} :
        Save(d) /\ doubt' \subseteq Pairs /\ UNCHANGED <<up, keys, issued, bounds, mishaps>>
  BY DEF Drained, Commits, Altered, AInv, TypeOK
<1>4. TypeOK'
  BY <1>2, <1>3 DEF AInv, TypeOK, Save, bounds
<1>5. Grows /\ Rows' /\ db'.rows \subseteq db.rows
  <2>1. CASE d = draft
    BY <1>1, <1>3, <2>1, DraftFacts
  <2>2. CASE d = db
    BY <1>3, <2>2, DatabaseFacts DEF AInv, Save, Grows, Rows, Live
  <2> QED BY <2>1, <2>2
<1> QED BY <1>1, <1>2, <1>3, <1>4, <1>5, IdleTask, SaveKeeps DEF CanWrite

LEMMA BusyTimeoutAInv ==
    ASSUME AInv, NEW h \in Threads, BusyTimeout(h)
    PROVE  AInv'
<1>1. Proceeds(h) /\ req' \in [Threads -> Request] /\ req'[h] = Idle
  BY EndsProceeds DEF BusyTimeout, AInv
<1>2. TypeOK'
  BY <1>1 DEF BusyTimeout, AInv, TypeOK, Reads, database, bounds
<1> QED BY <1>1, <1>2, IdleTask, ReadsKeep DEF BusyTimeout, CanWrite

LEMMA CrashAInv == AInv /\ Crash => AInv'
<1> SUFFICES ASSUME AInv, Crash PROVE AInv'
  OBVIOUS
<1>1. TypeOK'
  BY IdleFacts, BoundsAssumption DEF AInv, TypeOK, Crash, Save, Mishap, bounds
<1>2. Tasks' /\ Locked' /\ Creates'
  BY IdleTask, IdleFacts, ThreadsAssumption
     DEF Crash, Tasks, Task, Fit, Visit, Newer, Locked, Creates, Save, Holds
<1>3. Rows'
  BY DEF Crash, Save, AInv, Rows, Live
<1> QED BY <1>1, <1>2, <1>3 DEF AInv

LEMMA StutterAInv == AInv /\ UNCHANGED vars => AInv'
<1> SUFFICES ASSUME AInv, UNCHANGED vars PROVE AInv'
  OBVIOUS
<1>1. UNCHANGED <<db, draft, writer, up, keys, issued, req, doubt, served, overlapped, mishaps>>
  BY DEF vars, database, bounds
<1>2. TypeOK' /\ Rows' /\ Creates'
  BY <1>1 DEF AInv, TypeOK, Rows, Creates, Live
<1>3. Tasks'
  BY <1>1 DEF AInv, Tasks, Task, Fit, Visit, Newer
<1>4. Locked'
  <2>1. ASSUME NEW g \in Threads, writer = g PROVE Drafted(req[g])'
    BY <1>1, <2>1, SameFacts, DraftedKept DEF AInv, Locked
  <2> QED BY <1>1, <2>1 DEF AInv, Locked, Holds
<1> QED BY <1>2, <1>3, <1>4 DEF AInv

LEMMA InitAInv == Init => AInv
<1> SUFFICES ASSUME Init PROVE AInv
  OBVIOUS
<1>1. /\ db.key \in [Users -> 0 .. 1] /\ db.gone = {} /\ db.rows \in SUBSET Servers
      /\ db.mode \in Modes /\ db \in [key : [Users -> 0 .. 1], gone : {{}}, rows : SUBSET Servers, mode : Modes]
  BY DEF Init
<1>2. TypeOK
  <2>1. db.key \in [Users -> 0 .. MaxKey]
    <3>1. 0 .. 1 \subseteq 0 .. MaxKey
      BY BoundsAssumption
    <3> QED BY <1>1, <3>1
  <2>2. db \in Database
    BY <1>1, <2>1, ModesAssumption DEF Database
  <2>3. keys \in [Places -> SUBSET Keys]
    <3>1. \A v \in Users : <<v, 1>> \in Keys
      BY BoundsAssumption DEF Keys
    <3> QED BY <3>1 DEF Init
  <2>4. served \in 0 .. MaxRequests /\ mishaps \in 0 .. MaxMishaps
    BY BoundsAssumption DEF Init
  <2> QED BY <2>1, <2>2, <2>3, <2>4, IdleFacts DEF Init, TypeOK
<1>3. Tasks /\ Locked /\ Creates
  BY IdleTask, IdleFacts, ThreadsAssumption
     DEF Init, Tasks, Task, Fit, Visit, Newer, Locked, Creates, Holds
<1>4. Rows
  <2>1. \A n \in 0 .. 1 : n <= n
    OBVIOUS
  <2> QED BY <1>1, <2>1 DEF Init, Rows
<1> QED BY <1>2, <1>3, <1>4 DEF AInv

LEMMA NextAInv == AInv /\ [Next]_vars => AInv'
<1> SUFFICES ASSUME AInv, [Next]_vars PROVE AInv'
  OBVIOUS
<1>1. CASE Crash \/ UNCHANGED vars
  BY <1>1, CrashAInv, StutterAInv
<1>2. CASE \E h \in Threads : Begin(h)
  BY <1>2, BeginServerAInv, BeginRegenerateAInv, BeginResetAInv, BeginNewUserAInv,
     BeginDeleteAInv, BeginSyncAInv, BeginSwitchAInv DEF Begin
<1>3. CASE \E h \in Threads : Advance(h)
  BY <1>3, InstallAInv, InsertAInv, SetKeyAInv, RotateAInv, ReinstallAInv, LoadAInv, OnboardAInv,
     OffboardAInv, WriteDeleteAInv, RevokeAInv, CommitAInv, SyncAInv, SyncedAInv, DrainAInv,
     DrainedAInv, BusyTimeoutAInv DEF Advance
<1> QED BY <1>1, <1>2, <1>3 DEF Next

\* The values of every variable have their types: whatever runs, in any number of threads.
THEOREM Typed == Spec => []TypeOK
<1>1. AInv => TypeOK
  BY DEF AInv
<1> QED BY <1>1, InitAInv, NextAInv, PTL DEF Spec

-----------------------------------------------------------------------------
(* Files: one key of an account in each.                                    *)

KeysIn(file, u) == {n \in 1 .. MaxKey : <<u, n>> \in file}

\* On a server there are only keys of its owner.
Single(p, file) ==
    /\ \A u \in Users, n, m \in 1 .. MaxKey : <<u, n>> \in file /\ <<u, m>> \in file => n = m
    /\ p \in Servers => \A u \in Users, n \in 1 .. MaxKey : <<u, n>> \in file => u = owner[p]
OneKey == \A p \in Places : Single(p, keys[p])

\* What a request will settle when it commits is as the database will then say.
Goal(r) == IF r.step = "drain" /\ ~r.ok THEN db ELSE draft
DoneRight(r) ==
    /\ r.kind = "server" =>
          \A q \in r.done : q = <<r.user, r.place>> /\ KeysAt(r.place, r.user) = {r.key}
    /\ r.kind \in {"newUser", "delete", "switch"} =>
          \A q \in r.done : KeysAt(q[2], q[1]) = Wanted(Goal(r), q[1], q[2])

\* Where it does not know of another's doing, a delete or a switch finds the key it read.
HeldRight(r) ==
    /\ r.kind = "delete" /\ r.step \in {"write", "revoke"} /\ <<r.user, r.place>> \notin r.held
          => KeysAt(r.place, r.user) \subseteq {r.key}
    /\ r.kind = "switch" =>
          \A u \in Users, a \in Accounts :
             <<u, a>> \notin r.held => KeysAt(a, u) \subseteq {draft.key[u]}

\* A switch leaves the old places alone until all the new ones are filled.
Trusted(r, u, d) == \/ <<u, Target(d, u)>> \in r.held
                    \/ draft.key[u] \in KeysAt(Target(d, u), u)
SwitchRight(r) ==
    r.kind = "switch" =>
       /\ r.step = "sync" \/ ~r.ok => \A u \in LiveUsers : Trusted(r, u, db)
       /\ r.ok => \A u \in LiveUsers : \/ r.step = "sync" /\ u \in r.todo
                                       \/ Trusted(r, u, draft)

Sound(r) == DoneRight(r) /\ HeldRight(r) /\ SwitchRight(r)
BInv == OneKey /\ (\A h \in Threads : Sound(req[h])) /\ SettledPlacesAgree

LEMMA KeysFacts ==
    ASSUME NEW p, NEW u
    PROVE  /\ KeysAt(p, u) = KeysIn(keys[p], u) /\ KeysAt(p, u)' = KeysIn(keys'[p], u)
           /\ \A n \in 1 .. MaxKey : n \in KeysAt(p, u) <=> <<u, n>> \in keys[p]
BY DEF KeysAt, KeysIn

LEMMA SubsetFile ==
    ASSUME NEW p, NEW f, NEW g \in SUBSET f, Single(p, f)
    PROVE  Single(p, g)
BY DEF Single

\* What each command makes of a file.
LEMMA ReplacedFile ==
    ASSUME TypeOK, NEW p \in Places, NEW u \in Users, NEW n \in 1 .. MaxKey, Single(p, keys[p]),
           p \in Servers => u = owner[p]
    PROVE  LET f == Replacing(p, u, n) IN
           /\ f \in SUBSET Keys /\ Single(p, f) /\ KeysIn(f, u) = {n}
           /\ \A v \in Users \ {u} : KeysIn(f, v) = KeysIn(keys[p], v)
<1> DEFINE f == Replacing(p, u, n)
<1>1. \A v \in Users, m \in 1 .. MaxKey :
         <<v, m>> \in f <=> IF v = u THEN m = n ELSE <<v, m>> \in keys[p]
  BY DEF Replacing
<1>2. f \in SUBSET Keys
  BY DEF Replacing, TypeOK, Keys
<1> HIDE DEF f
<1>3. Single(p, f)
  BY <1>1 DEF Single
<1>4. KeysIn(f, u) = {n} /\ \A v \in Users \ {u} : KeysIn(f, v) = KeysIn(keys[p], v)
  BY <1>1 DEF KeysIn
<1> QED BY <1>2, <1>3, <1>4 DEF f

LEMMA RotatedFile ==
    ASSUME TypeOK, NEW p \in Places, NEW u \in Users, NEW n \in 1 .. MaxKey, NEW old,
           Single(p, keys[p])
    PROVE  LET f == Rotated(p, u, old, n) IN
           /\ f \in SUBSET Keys /\ Single(p, f)
           /\ <<u, old>> \in keys[p] => KeysIn(f, u) = {n}
           /\ \A v \in Users \ {u} : KeysIn(f, v) = KeysIn(keys[p], v)
<1> DEFINE f == Rotated(p, u, old, n)
<1>1. CASE <<u, old>> \in keys[p]
  <2>1. old \in 1 .. MaxKey /\ (p \in Servers => u = owner[p])
    BY <1>1 DEF TypeOK, Keys, Single
  <2>2. \A v \in Users, m \in 1 .. MaxKey :
           <<v, m>> \in f <=> IF v = u THEN m = n ELSE <<v, m>> \in keys[p]
    BY <1>1, <2>1 DEF Rotated, Single
  <2>3. f \in SUBSET Keys
    BY <1>1 DEF Rotated, TypeOK, Keys
  <2> HIDE DEF f
  <2>4. Single(p, f)
    BY <2>1, <2>2 DEF Single
  <2>5. KeysIn(f, u) = {n} /\ \A v \in Users \ {u} : KeysIn(f, v) = KeysIn(keys[p], v)
    BY <2>2 DEF KeysIn
  <2> QED BY <2>3, <2>4, <2>5 DEF f
<1>2. CASE <<u, old>> \notin keys[p]
  BY <1>2 DEF Rotated, TypeOK
<1> QED BY <1>1, <1>2

LEMMA RemovedFile ==
    ASSUME TypeOK, NEW p \in Places, NEW u \in Users, NEW old, Single(p, keys[p])
    PROVE  LET f == keys[p] \ {<<u, old>>} IN
           /\ f \in SUBSET Keys /\ Single(p, f) /\ KeysIn(f, u) = KeysIn(keys[p], u) \ {old}
           /\ \A v \in Users \ {u} : KeysIn(f, v) = KeysIn(keys[p], v)
BY SubsetFile DEF TypeOK, KeysIn

\* A command touches the keys of one account in one file.
Elsewhere(T) == \A p \in Places, u \in Users : <<u, p>> \notin T => KeysAt(p, u)' = KeysAt(p, u)

LEMMA CommandFacts ==
    ASSUME TypeOK, OneKey, NEW p \in Places, NEW u \in Users, NEW file \in SUBSET Keys,
           NEW ok \in BOOLEAN, Becomes(p, file, ok), Single(p, file),
           \A v \in Users \ {u} : KeysIn(file, v) = KeysIn(keys[p], v)
    PROVE  /\ OneKey' /\ Elsewhere({<<u, p>>})
           /\ KeysIn(keys'[p], u) \in {KeysAt(p, u), KeysIn(file, u)}
           /\ ok => KeysIn(keys'[p], u) = KeysIn(file, u)
<1>1. /\ \A x \in Places \ {p} : keys'[x] = keys[x]
      /\ keys'[p] \in {keys[p], file} /\ (ok => keys'[p] = file)
  BY BecomesFacts
<1>2. OneKey'
  BY <1>1 DEF OneKey, Single
<1>3. Elsewhere({<<u, p>>})
  BY <1>1, KeysFacts DEF Elsewhere
<1> QED BY <1>1, <1>2, <1>3, KeysFacts

-----------------------------------------------------------------------------
(* What a step does to what the other requests rely on, and to what is settled. *)

LEMMA Harmless ==
    ASSUME NEW r, r.kind \in {"none", "regenerate", "reset", "sync"}
    PROVE  Sound(r) /\ Sound(r)'
BY DEF Sound, DoneRight, HeldRight, SwitchRight

\* A request whose place was touched no longer counts on it; or it does not rely on it, and keys
\* were only removed.
Spared(r, after, q) ==
    \/ q \notin after.done /\ (r.kind \in {"switch", "delete"} => q \in after.held)
    \/ ~Holds(r) /\ q \notin r.done /\ KeysAt(q[2], q[1])' \subseteq KeysAt(q[2], q[1])

LEMMA OthersSound ==
    ASSUME AInv, AInv', NEW g \in Threads, Sound(req[g]), Same(req[g], req'[g]),
           NEW T \in SUBSET Pairs, Elsewhere(T),
           \A q \in T : Spared(req[g], req'[g], q),
           Holds(req[g]) => UNCHANGED <<db, draft>>
    PROVE  Sound(req[g])'
<1> DEFINE r == req[g]
           x == req'[g]
<1>1. /\ r \in Request /\ x \in Request /\ Fit(r) /\ x.kind = r.kind /\ x.step = r.step
      /\ x.user = r.user /\ x.key = r.key /\ x.place = r.place /\ x.todo = r.todo /\ x.ok = r.ok
      /\ x.done \subseteq r.done /\ r.held \subseteq x.held /\ r.done \subseteq Pairs
  BY TaskFacts DEF AInv, TypeOK, Same
<1>2. \A q \in x.done : q \in Pairs /\ KeysAt(q[2], q[1])' = KeysAt(q[2], q[1])
  <2>1. ASSUME NEW q \in x.done PROVE q \notin T
    BY <1>1, <2>1 DEF Spared
  <2> QED BY <1>1, <2>1 DEF Elsewhere, Pairs
<1>3. DoneRight(req[g])'
  <2>1. ASSUME r.kind = "server" PROVE DoneRight(req[g])'
    <3>1. \A q \in x.done : q = <<r.user, r.place>> /\ KeysAt(r.place, r.user) = {r.key}
      BY <1>1, <2>1 DEF Sound, DoneRight
    <3> QED BY <1>1, <1>2, <2>1, <3>1 DEF DoneRight
  <2>2. ASSUME r.kind \in {"newUser", "delete", "switch"}, x.done # {} PROVE DoneRight(req[g])'
    <3>1. Holds(r)
      BY <1>1, <2>2 DEF Holds, Fit
    <3>2. db' = db /\ draft' = draft
      BY <3>1
    <3>3. \A q \in x.done : KeysAt(q[2], q[1]) = Wanted(Goal(r), q[1], q[2])
      BY <1>1, <2>2 DEF Sound, DoneRight
    <3>4. Goal(req[g])' = Goal(r)
      BY <1>1, <3>2 DEF Goal
    <3> QED BY <1>1, <1>2, <2>2, <3>3, <3>4 DEF DoneRight, Wanted, Owned, Live, Target
  <2>3. CASE r.kind \notin {"server", "newUser", "delete", "switch"} \/ (x.done = {} /\ r.kind # "server")
    BY <1>1, <2>3 DEF DoneRight
  <2> QED BY <2>1, <2>2, <2>3
<1>4. HeldRight(req[g])'
  <2>1. ASSUME NEW u \in Users, NEW a \in Accounts, <<u, a>> \notin x.held,
               r.kind \in {"delete", "switch"}
        PROVE  KeysAt(a, u)' \subseteq KeysAt(a, u)
    <3>1. a \in Places
      BY DEF Places
    <3>2. CASE <<u, a>> \in T
      BY <1>1, <2>1, <3>2 DEF Spared
    <3>3. CASE <<u, a>> \notin T
      BY <3>1, <3>3 DEF Elsewhere
    <3> QED BY <3>2, <3>3
  <2>2. ASSUME r.kind = "delete", r.step \in {"write", "revoke"}, <<r.user, r.place>> \notin x.held
        PROVE  KeysIn(keys'[r.place], r.user) \subseteq {r.key}
    <3>1. r.user \in Users /\ r.place \in Accounts
      BY <1>1, <2>2 DEF Fit
    <3>2. KeysAt(r.place, r.user) \subseteq {r.key}
      BY <1>1, <2>2 DEF Sound, HeldRight
    <3>3. KeysIn(keys'[r.place], r.user) \subseteq KeysAt(r.place, r.user)
      <4>1. \A u \in Users, a \in Accounts :
              <<u, a>> \notin x.held => KeysIn(keys'[a], u) \subseteq KeysAt(a, u)
        BY <2>1, <2>2, KeysFacts
      <4> QED BY <2>2, <3>1, <4>1
    <3> QED BY <3>2, <3>3
  <2>3. ASSUME r.kind = "switch", NEW u \in Users, NEW a \in Accounts, <<u, a>> \notin x.held
        PROVE  KeysAt(a, u)' \subseteq {draft'.key[u]}
    <3>1. KeysAt(a, u) \subseteq {draft.key[u]} /\ draft' = draft
      BY <1>1, <2>3 DEF Sound, HeldRight, Holds
    <3> QED BY <2>1, <2>3, <3>1
  <2>4. ASSUME r.kind = "delete" PROVE HeldRight(req[g])'
    BY <1>1, <2>2, <2>4 DEF HeldRight, KeysAt, KeysIn
  <2>5. ASSUME r.kind # "delete" PROVE HeldRight(req[g])'
    BY <1>1, <2>3, <2>5 DEF HeldRight
  <2> QED BY <2>4, <2>5
<1>5. SwitchRight(req[g])'
  <2> SUFFICES ASSUME r.kind = "switch" PROVE SwitchRight(req[g])'
    BY <1>1 DEF SwitchRight
  <2>1. db' = db /\ draft' = draft /\ Holds(r)
    BY DEF Holds
  <2>2. ASSUME NEW u \in Users, NEW d \in {db, draft}, Trusted(r, u, d)
        PROVE  \/ <<u, Target(d, u)>> \in x.held
               \/ draft.key[u] \in KeysAt(Target(d, u), u)'
    <3>1. Target(d, u) \in Places
      BY DatabaseFacts DEF AInv
    <3>2. CASE <<u, Target(d, u)>> \in T
      BY <2>1, <3>2 DEF Spared
    <3>3. CASE <<u, Target(d, u)>> \notin T
      BY <1>1, <2>2, <3>1, <3>3 DEF Elsewhere, Trusted
    <3> QED BY <3>2, <3>3
  <2>3. \A u \in Users : (Trusted(r, u, db) => Trusted(req[g], u, db)') /\ (Trusted(r, u, draft) => Trusted(req[g], u, draft)')
    BY <2>1, <2>2 DEF Trusted, Target
  <2>4. LiveUsers' = LiveUsers /\ LiveUsers \subseteq Users
    BY <2>1 DEF LiveUsers, Live
  <2> QED BY <1>1, <2>1, <2>3, <2>4 DEF SwitchRight, Sound
<1> QED BY <1>3, <1>4, <1>5 DEF Sound

\* A step: what it touches is spared by the others, and it keeps the rest.
LEMMA StepSound ==
    ASSUME AInv, AInv', BInv, NEW h \in Threads, NEW T \in SUBSET Pairs, Elsewhere(T), OneKey',
           \A g \in Threads \ {h} :
              Same(req[g], req'[g]) /\ \A q \in T : Spared(req[g], req'[g], q),
           CanWrite(h) \/ UNCHANGED <<db, draft>>,
           Sound(req[h])', SettledPlacesAgree'
    PROVE  BInv'
<1>1. ASSUME NEW g \in Threads \ {h}, Holds(req[g]) PROVE UNCHANGED <<db, draft>>
  BY <1>1, ThreadsAssumption DEF AInv, Locked, CanWrite
<1>2. \A g \in Threads \ {h} : Sound(req[g])'
  BY <1>1, OthersSound DEF BInv
<1> QED BY <1>2 DEF BInv

\* A step that leaves the committed database: what it leaves settled is right.
LEMMA StepSettled ==
    ASSUME BInv, NEW T \in SUBSET Pairs, Elsewhere(T), db' = db,
           \A q \in Pairs \ doubt' : IF q \in T THEN KeysAt(q[2], q[1])' = Wanted(db, q[1], q[2])
                                     ELSE q \notin doubt
    PROVE  SettledPlacesAgree'
<1>1. ASSUME NEW q \in Pairs \ doubt' PROVE KeysAt(q[2], q[1])' = Wanted(db, q[1], q[2])
  BY <1>1 DEF BInv, SettledPlacesAgree, Elsewhere, Pairs
<1>2. \A q \in Pairs : Wanted(db, q[1], q[2])' = Wanted(db, q[1], q[2])
  BY DEF Wanted, Live, Owned, Target
<1> QED BY <1>1, <1>2 DEF SettledPlacesAgree

\* A commit settles what its request brought up to date.
LEMMA CommitSettled ==
    ASSUME BInv, NEW h, NEW d, NEW done, Commits(h, d, done), keys' = keys,
           \A q \in done : KeysAt(q[2], q[1]) = Wanted(d, q[1], q[2])
    PROVE  SettledPlacesAgree'
<1>1. db' = d /\ doubt' = (doubt \cup Altered(db, d)) \ done
  BY DEF Commits, Save
<1>2. ASSUME NEW q \in Pairs \ doubt' PROVE KeysAt(q[2], q[1]) = Wanted(d, q[1], q[2])
  BY <1>1, <1>2 DEF BInv, SettledPlacesAgree, Altered
<1>3. \A q \in Pairs : Wanted(db, q[1], q[2])' = Wanted(d, q[1], q[2])
  BY <1>1 DEF Wanted, Live, Owned, Target
<1>4. \A q \in Pairs : KeysAt(q[2], q[1])' = KeysAt(q[2], q[1])
  BY DEF KeysAt
<1> QED BY <1>2, <1>3, <1>4 DEF SettledPlacesAgree

-----------------------------------------------------------------------------
(* Keys in their places: what each request does.                            *)

\* A step that touches no file and leaves the committed database.
LEMMA QuietStep ==
    ASSUME AInv, AInv', BInv, NEW h \in Threads, keys' = keys, doubt' = doubt, db' = db,
           \A g \in Threads \ {h} : Same(req[g], req'[g]),
           CanWrite(h) \/ draft' = draft, Sound(req[h])'
    PROVE  BInv'
<1>1. Elsewhere({})
  BY DEF Elsewhere, KeysAt
<1>2. OneKey'
  BY DEF BInv, OneKey, Single
<1>3. SettledPlacesAgree'
  BY <1>1, StepSettled
<1>4. \A g \in Threads \ {h} : \A q \in {} : Spared(req[g], req'[g], q)
  OBVIOUS
<1>5. {} \in SUBSET Pairs /\ (CanWrite(h) \/ UNCHANGED <<db, draft>>)
  OBVIOUS
<1> QED BY <1>1, <1>2, <1>3, <1>4, <1>5, StepSound

LEMMA BeginsBInv ==
    ASSUME AInv, AInv', BInv, NEW h \in Threads, NEW r \in Request, Starts(h, r), Reads,
           r.kind \in {"server", "regenerate", "reset", "sync"}, r.done = {}
    PROVE  BInv'
<1>1. req'[h] = r /\ \A g \in Threads \ {h} : Same(req[g], req'[g])
  BY StartsFacts
<1>2. Sound(req[h])'
  BY <1>1 DEF Sound, DoneRight, HeldRight, SwitchRight
<1> QED BY <1>1, <1>2, QuietStep DEF Starts, Reads, database

LEMMA BeginServerBInv ==
    ASSUME AInv, AInv', BInv, NEW h \in Threads, NEW s \in Servers, BeginServer(h, s)
    PROVE  BInv'
<1> DEFINE r == [Idle EXCEPT !.kind = "server", !.step = "install", !.user = owner[s],
                             !.key = db.key[owner[s]], !.place = s]
<1>1. r \in Request /\ r.kind = "server" /\ r.done = {}
  BY DatabaseFacts, IdleFacts DEF AInv, Request, Steps, BeginServer, Starts, Places
<1>2. Starts(h, r) /\ Reads
  BY DEF BeginServer
<1> QED BY <1>1, <1>2, BeginsBInv

LEMMA BeginRegenerateBInv ==
    ASSUME AInv, AInv', BInv, NEW h \in Threads, NEW u \in Users, BeginRegenerate(h, u)
    PROVE  BInv'
<1> DEFINE r == [Idle EXCEPT !.kind = "regenerate", !.step = "set", !.user = u,
                             !.old = db.key[u]]
<1>1. r \in Request /\ r.kind = "regenerate" /\ r.done = {}
  BY DatabaseFacts, IdleFacts DEF AInv, Request, Steps, BeginRegenerate, Starts
<1>2. Starts(h, r) /\ Reads
  BY DEF BeginRegenerate
<1> QED BY <1>1, <1>2, BeginsBInv

LEMMA BeginResetBInv ==
    ASSUME AInv, AInv', BInv, NEW h \in Threads, NEW u \in Users, BeginReset(h, u)
    PROVE  BInv'
<1> DEFINE r == [Idle EXCEPT !.kind = "reset", !.user = u, !.key = db.key[u],
                             !.todo = Owned(db, u),
                             !.step = IF Owned(db, u) = {} THEN "load" ELSE "reinstall"]
<1>1. r \in Request /\ r.kind = "reset" /\ r.done = {}
  BY DatabaseFacts, IdleFacts DEF AInv, Request, Steps, BeginReset, Starts
<1>2. Starts(h, r) /\ Reads
  BY DEF BeginReset
<1> QED BY <1>1, <1>2, BeginsBInv

LEMMA BeginSyncBInv ==
    ASSUME AInv, AInv', BInv, NEW h \in Threads, BeginSync(h)
    PROVE  BInv'
<1> DEFINE users == {u \in Users : Live(db, u)}
           r == [Idle EXCEPT !.kind = "sync", !.step = "load", !.todo = users]
<1>1. r \in Request /\ r.kind = "sync" /\ r.done = {}
  BY DatabaseFacts, IdleFacts DEF AInv, Request, Steps, BeginSync, Starts
<1>2. Starts(h, r) /\ Reads
  BY DEF BeginSync
<1> QED BY <1>1, <1>2, BeginsBInv

\* What is settled when a request begins is where the request will look for it.
LEMMA SettledFacts ==
    ASSUME BInv, NEW u \in Users, NEW p \in Places, <<u, p>> \notin doubt
    PROVE  /\ KeysAt(p, u) \subseteq {db.key[u]}
           /\ Live(db, u) /\ p = Target(db, u) => KeysAt(p, u) = {db.key[u]}
<1>1. KeysAt(p, u) = Wanted(db, u, p)
  BY DEF BInv, SettledPlacesAgree, Pairs
<1> QED BY <1>1 DEF Wanted

LEMMA BeginDeleteBInv ==
    ASSUME AInv, AInv', BInv, NEW h \in Threads, NEW u \in Users, BeginDelete(h, u)
    PROVE  BInv'
<1> DEFINE r == [Idle EXCEPT !.kind = "delete", !.step = "write", !.user = u,
                             !.key = db.key[u], !.place = Target(db, u),
                             !.todo = Owned(db, u), !.held = doubt]
<1>1. /\ r \in Request /\ r.kind = "delete" /\ r.step = "write" /\ r.user = u
      /\ r.place \in Places /\ r.done = {} /\ r.held = doubt /\ r.key = db.key[u]
  BY DatabaseFacts, IdleFacts DEF AInv, TypeOK, Request, Steps, BeginDelete, Starts
<1>2. Starts(h, r) /\ Reads
  BY DEF BeginDelete
<1> HIDE DEF r
<1>3. req'[h] = r /\ (\A g \in Threads \ {h} : Same(req[g], req'[g])) /\ UNCHANGED <<keys, doubt>>
  BY <1>1, <1>2, StartsFacts
<1>4. <<u, r.place>> \notin doubt => KeysAt(r.place, u) \subseteq {r.key}
  BY <1>1, SettledFacts
<1>5. HeldRight(req[h])'
  BY <1>1, <1>3, <1>4 DEF HeldRight, KeysAt
<1>6. Sound(req[h])'
  BY <1>1, <1>3, <1>5 DEF Sound, DoneRight, SwitchRight
<1> QED BY <1>2, <1>3, <1>6, QuietStep DEF Reads, database

LEMMA BeginNewUserBInv ==
    ASSUME AInv, AInv', BInv, NEW h \in Threads, NEW u \in Users, BeginNewUser(h, u)
    PROVE  BInv'
<1> DEFINE d == [db EXCEPT !.key[u] = issued[u] + 1]
           r == [Idle EXCEPT !.kind = "newUser", !.step = "onboard", !.user = u,
                             !.key = issued[u] + 1, !.place = Target(d, u)]
<1>1. Starts(h, r) /\ r.kind = "newUser" /\ r.done = {}
  <2>1. r.kind = "newUser" /\ r.done = {}
    BY IdleFacts DEF Request
  <2> QED BY Zenon, <2>1 DEF BeginNewUser
<1> HIDE DEF r
<1>2. /\ req'[h] = r /\ UNCHANGED <<keys, doubt>> /\ db' = db /\ CanWrite(h)
      /\ \A g \in Threads \ {h} : Same(req[g], req'[g])
  BY <1>1, SameFacts DEF Starts, Goes, AInv, TypeOK, BeginNewUser, Hold
<1>3. Sound(req[h])'
  BY <1>1, <1>2 DEF Sound, DoneRight, HeldRight, SwitchRight
<1> QED BY <1>2, <1>3, QuietStep

LEMMA BeginSwitchBInv ==
    ASSUME AInv, AInv', BInv, NEW h \in Threads, NEW mode \in {"per_user", "shared"},
           BeginSwitch(h, mode)
    PROVE  BInv'
<1> DEFINE users == {u \in Users : Live(db, u)}
           d == [db EXCEPT !.mode = mode]
           r == [Idle EXCEPT !.kind = "switch", !.step = "sync", !.held = doubt, !.todo = users]
<1>1. Starts(h, r) /\ Hold(h, d) /\ CanWrite(h)
  BY DEF BeginSwitch
<1>2. /\ r \in Request /\ r.kind = "switch" /\ r.step = "sync" /\ r.todo = users /\ r.done = {}
      /\ r.held = doubt
  BY <1>1, IdleFacts, DatabaseFacts DEF AInv, TypeOK, Request, Steps, Starts
<1> HIDE DEF r
<1>3. req'[h] = r /\ (\A g \in Threads \ {h} : Same(req[g], req'[g])) /\ UNCHANGED <<keys, doubt>>
  BY <1>1, <1>2, StartsFacts
<1>4. db' = db /\ draft'.key = db.key /\ LiveUsers' = users
  BY <1>1 DEF Hold, LiveUsers, Live, AInv, TypeOK, Database
<1> HIDE DEF d, users
<1>5. ASSUME NEW v \in Users, NEW a \in Accounts, <<v, a>> \notin doubt
      PROVE  KeysAt(a, v)' \subseteq {db.key[v]}
  BY <1>3, <1>5, SettledFacts, DatabaseFacts DEF KeysAt, AInv
<1>6. ASSUME NEW v \in users PROVE Trusted(req[h], v, db)'
  <2>1. v \in Users /\ Live(db, v) /\ Target(db, v) \in Places
    BY DatabaseFacts DEF users, AInv
  <2>2. <<v, Target(db, v)>> \in doubt \/ db.key[v] \in KeysAt(Target(db, v), v)
    BY <2>1, SettledFacts
  <2> QED BY <1>2, <1>3, <1>4, <2>2 DEF Trusted, Target, KeysAt
<1>7. HeldRight(req[h])'
  BY <1>2, <1>3, <1>4, <1>5 DEF HeldRight
<1>8. SwitchRight(req[h])'
  BY <1>2, <1>3, <1>4, <1>6 DEF SwitchRight
<1>9. DoneRight(req[h])'
  BY <1>2, <1>3 DEF DoneRight
<1> QED BY <1>1, <1>3, <1>4, <1>7, <1>8, <1>9, QuietStep DEF Sound

\* What a touched place leaves of the other requests.
LEMMA TouchSpares ==
    ASSUME TypeOK, NEW h \in Threads, NEW r \in Request, NEW q \in Pairs, Touched(h, q, r)
    PROVE  \A g \in Threads \ {h} :
              Same(req[g], req'[g]) /\ \A x \in {q} : Spared(req[g], req'[g], x)
<1>1. \A g \in Threads \ {h} :
         /\ Same(req[g], req'[g]) /\ q \notin req'[g].done
         /\ req[g].kind \in {"switch", "delete"} => q \in req'[g].held
  BY TouchedFacts
<1> QED BY <1>1 DEF Spared

LEMMA PendingSpares ==
    ASSUME TypeOK, NEW h \in Threads, NEW r \in Request, NEW q \in Pairs, NEW good \in BOOLEAN,
           Pending(h, q, good, r)
    PROVE  \A g \in Threads \ {h} :
              Same(req[g], req'[g]) /\ \A x \in {q} : Spared(req[g], req'[g], x)
<1>1. \A g \in Threads \ {h} :
         /\ Same(req[g], req'[g]) /\ q \notin req'[g].done
         /\ req[g].kind \in {"switch", "delete"} => q \in req'[g].held
  BY PendingFacts
<1> QED BY <1>1 DEF Spared

\* A command on the place of one account, which is then in doubt or as the database says.
LEMMA CommandKeeps ==
    ASSUME AInv, AInv', BInv, NEW h \in Threads, NEW u \in Users, NEW p \in Places,
           OneKey', Elsewhere({<<u, p>>}), db' = db, CanWrite(h) \/ draft' = draft,
           \A g \in Threads \ {h} :
              Same(req[g], req'[g]) /\ \A x \in {<<u, p>>} : Spared(req[g], req'[g], x),
           doubt \subseteq doubt' \cup {<<u, p>>},
           <<u, p>> \in doubt' \/ KeysIn(keys'[p], u) = Wanted(db, u, p),
           Sound(req[h])'
    PROVE  BInv'
<1>1. {<<u, p>>} \in SUBSET Pairs
  BY DEF Pairs
<1>2. SettledPlacesAgree'
  <2>1. \A q \in Pairs \ doubt' : IF q \in {<<u, p>>} THEN KeysAt(q[2], q[1])' = Wanted(db, q[1], q[2])
                                  ELSE q \notin doubt
    BY KeysFacts
  <2> QED BY <1>1, <2>1, StepSettled
<1>3. CanWrite(h) \/ UNCHANGED <<db, draft>>
  OBVIOUS
<1> QED BY <1>1, <1>2, <1>3, StepSound

\* The servers of an account that still exists are in the database.
LEMMA VisitFacts ==
    ASSUME AInv, NEW h \in Threads, req[h].step \in {"rotate", "reinstall", "write"},
           NEW s \in req[h].todo
    PROVE  /\ s \in Servers /\ owner[s] = req[h].user /\ req[h].user \in Users /\ s \in Places
           /\ Live(db, req[h].user) => Wanted(db, req[h].user, s) = {db.key[req[h].user]}
<1>1. s \in Servers /\ owner[s] = req[h].user /\ (s \in db.rows \/ req[h].user \in db.gone)
  BY TaskFacts DEF Task, Visit
<1> QED BY <1>1, OwnerAssumption DEF Wanted, Owned, AInv, Rows, Places

LEMMA InstallBInv ==
    ASSUME AInv, AInv', BInv, NEW h \in Threads, Install(h)
    PROVE  BInv'
<1> DEFINE r == req[h]
           r1 == [r EXCEPT !.step = "insert"]
           q == <<r.user, r.place>>
           after == {<<r.user, r.key>>}
<1>1. /\ r.kind = "server" /\ r.place \in Servers /\ r.user = owner[r.place]
      /\ r.user \in Users /\ r.key \in 1 .. MaxKey /\ r \in Request
      /\ r.place \in Places /\ q \in Pairs /\ after \in SUBSET Keys
  <2>1. r.kind = "server" /\ r.place \in Servers /\ r.user = owner[r.place] /\ r.user \in Users
        /\ r.key # NoKey /\ r \in Request
    BY TaskFacts DEF Install, Fit
  <2> QED BY <2>1, TaskFacts DEF Places
<1>2. r1 \in Request /\ r1.kind = "server" /\ r1.user = r.user /\ r1.place = r.place
      /\ r1.key = r.key /\ r1.done = r.done
  BY <1>1 DEF Request, Steps
<1>3. PICK ok \in BOOLEAN : Becomes(r.place, after, ok) /\ Pending(h, q, ok, r1)
  BY DEF Install
<1>4. Single(r.place, keys[r.place]) /\ Single(r.place, after) /\ KeysIn(after, r.user) = {r.key}
      /\ \A v \in Users \ {r.user} : KeysIn(after, v) = KeysIn(keys[r.place], v)
  BY <1>1 DEF BInv, OneKey, Single, KeysIn
<1> HIDE DEF after
<1>5. OneKey' /\ Elsewhere({q}) /\ (ok => KeysIn(keys'[r.place], r.user) = {r.key})
  BY <1>1, <1>3, <1>4, CommandFacts DEF AInv, BInv
<1> HIDE DEF r1
<1>6. /\ req'[h].kind = "server" /\ req'[h].user = r.user /\ req'[h].place = r.place
      /\ req'[h].key = r.key /\ (ok => req'[h].done = r.done \cup {q})
      /\ (~ok => req'[h].done = r.done \ {q}) /\ doubt' = doubt \cup {q}
  BY <1>1, <1>2, <1>3, PendingFacts DEF AInv
<1>7. \A x \in r.done : x = q
  BY <1>1 DEF BInv, Sound, DoneRight
<1>8. Sound(req[h])'
  <2>1. \A x \in req'[h].done : x = q /\ KeysIn(keys'[r.place], r.user) = {r.key}
    BY <1>5, <1>6, <1>7
  <2> QED BY <1>6, <2>1 DEF Sound, DoneRight, HeldRight, SwitchRight, KeysAt, KeysIn
<1>9. \A g \in Threads \ {h} : Same(req[g], req'[g]) /\ \A x \in {q} : Spared(req[g], req'[g], x)
  BY <1>1, <1>2, <1>3, PendingSpares DEF AInv
<1>10. db' = db /\ draft' = draft
  BY DEF Install, Reads, database
<1> QED BY <1>1, <1>5, <1>6, <1>8, <1>9, <1>10, CommandKeeps

\* A request that has ended.
LEMMA CommitKeeps ==
    ASSUME AInv, AInv', BInv, NEW h \in Threads, NEW d, NEW done, Commits(h, d, done),
           CanWrite(h), keys' = keys,
           \A q \in done : KeysAt(q[2], q[1]) = Wanted(d, q[1], q[2]),
           \A g \in Threads \ {h} : Same(req[g], req'[g]), Sound(req[h])'
    PROVE  BInv'
<1>1. SettledPlacesAgree'
  BY CommitSettled
<1>2. OneKey' /\ Elsewhere({})
  BY DEF BInv, OneKey, Single, Elsewhere, KeysAt
<1>3. {} \in SUBSET Pairs /\ \A g \in Threads \ {h} :
           Same(req[g], req'[g]) /\ \A x \in {} : Spared(req[g], req'[g], x)
  OBVIOUS
<1> QED BY <1>1, <1>2, <1>3, StepSound

LEMMA EndsSound ==
    ASSUME TypeOK, NEW h \in Threads, Ends(h)
    PROVE  Sound(req[h])' /\ \A g \in Threads \ {h} : Same(req[g], req'[g])
<1>1. req'[h] = Idle /\ \A g \in Threads \ {h} : Same(req[g], req'[g])
  BY GoesFacts, IdleFacts DEF Ends
<1> QED BY <1>1, IdleFacts DEF Sound, DoneRight, HeldRight, SwitchRight

LEMMA InsertBInv ==
    ASSUME AInv, AInv', BInv, NEW h \in Threads, Insert(h)
    PROVE  BInv'
<1> DEFINE r == req[h]
           d == [db EXCEPT !.rows = db.rows \cup {r.place}]
           done == IF r.key = db.key[r.user] THEN r.done ELSE {}
<1>1. /\ r.kind = "server" /\ r.place \in Servers /\ r.user = owner[r.place]
      /\ r.user \in Users /\ r.key # NoKey
  BY TaskFacts DEF Insert, Fit
<1>2. Ends(h) /\ keys' = keys /\ Sound(req[h])' /\ \A g \in Threads \ {h} : Same(req[g], req'[g])
  BY EndsSound DEF Insert, AInv
<1>3. CASE CanWrite(h) /\ Live(db, r.user)
  <2>1. Commits(h, d, done)
    BY <1>3 DEF Insert, AInv, TypeOK, Database
  <2>2. ASSUME NEW q \in done PROVE KeysAt(q[2], q[1]) = Wanted(d, q[1], q[2])
    <3>1. q = <<r.user, r.place>> /\ KeysAt(r.place, r.user) = {r.key} /\ r.key = db.key[r.user]
      BY <1>1, <2>2 DEF BInv, Sound, DoneRight
    <3>2. d.key = db.key /\ r.place \in d.rows
      BY DEF AInv, TypeOK, Database
    <3> HIDE DEF d
    <3>3. Wanted(d, r.user, r.place) = {r.key}
      BY <1>1, <1>3, <3>1, <3>2 DEF Wanted, Live, Owned
    <3> QED BY <3>1, <3>3
  <2> HIDE DEF d, done
  <2> QED BY <1>2, <1>3, <2>1, <2>2, CommitKeeps
<1>4. CASE Reads /\ doubt' = doubt
  BY <1>2, <1>4, QuietStep DEF Reads, database
<1> QED BY <1>3, <1>4 DEF Insert

LEMMA SetKeyBInv ==
    ASSUME AInv, AInv', BInv, NEW h \in Threads, SetKey(h)
    PROVE  BInv'
<1> DEFINE r == req[h]
           r2 == Rotation([r EXCEPT !.key = issued[r.user] + 1], Owned(db, r.user))
           d == IF Live(db, r.user) THEN [db EXCEPT !.key[r.user] = issued[r.user] + 1] ELSE db
<1>1. r.kind = "regenerate"
  BY TaskFacts DEF SetKey, Fit
<1>2. Goes(h, r2) /\ Commits(h, d, {}) /\ CanWrite(h) /\ keys' = keys
  BY Zenon DEF SetKey
<1>3. r2.kind = "regenerate"
  BY <1>1, TaskFacts DEF Rotation, Request
<1>4. req'[h] = r2 /\ \A g \in Threads \ {h} : Same(req[g], req'[g])
  BY <1>2, SameFacts DEF Goes, AInv, TypeOK
<1>5. Sound(req[h])'
  BY <1>3, <1>4 DEF Sound, DoneRight, HeldRight, SwitchRight
<1> QED BY <1>2, <1>4, <1>5, CommitKeeps

LEMMA RotateBInv ==
    ASSUME AInv, AInv', BInv, NEW h \in Threads, NEW s \in Servers, Rotate(h, s)
    PROVE  BInv'
<1> DEFINE r == req[h]
           q == <<r.user, s>>
           after == Rotated(s, r.user, r.old, r.key)
           r1 == IF CanWrite(h) THEN Rotation(r, r.todo \ {s}) ELSE Idle
<1>1. /\ r.kind = "regenerate" /\ r.step = "rotate" /\ r.user \in Users /\ r.key \in 1 .. MaxKey
      /\ r \in Request /\ s \in Places /\ q \in Pairs /\ s \in r.todo
  <2>1. r.kind = "regenerate" /\ r.step = "rotate" /\ r.user \in Users /\ r.key # NoKey
        /\ r \in Request /\ s \in r.todo
    BY TaskFacts DEF Rotate, Fit
  <2> QED BY <2>1, TaskFacts DEF Places, Pairs
<1>2. r1 \in Request /\ r1.kind \in {"regenerate", "none"}
  <2>1. r.todo \ {s} \in SUBSET Places
    BY <1>1 DEF Request
  <2> QED BY <1>1, <2>1, RotationFacts, IdleFacts
<1>3. PICK ok \in BOOLEAN :
        /\ Becomes(s, after, ok)
        /\ Settles(q, (ok /\ <<r.user, r.old>> \in keys[s]) /\ db.key[r.user] = r.key)
        /\ Touched(h, q, r1)
  BY Zenon DEF Rotate
<1>4. /\ Single(s, keys[s]) /\ after \in SUBSET Keys /\ Single(s, after)
      /\ <<r.user, r.old>> \in keys[s] => KeysIn(after, r.user) = {r.key}
      /\ \A v \in Users \ {r.user} : KeysIn(after, v) = KeysIn(keys[s], v)
  BY <1>1, RotatedFile DEF AInv, BInv, OneKey
<1> HIDE DEF r1, after
<1>5. OneKey' /\ Elsewhere({q}) /\ (ok => KeysIn(keys'[s], r.user) = KeysIn(after, r.user))
  <2>1. Becomes(s, after, ok) /\ TypeOK /\ OneKey
    BY <1>3 DEF AInv, BInv
  <2>2. OneKey' /\ Elsewhere({q})
    BY <1>1, <1>4, <2>1, CommandFacts
  <2>3. ok => keys'[s] = after
    BY <1>1, <1>4, <2>1, BecomesFacts
  <2> QED BY <2>2, <2>3
<1>6. req'[h] = r1 /\ \A g \in Threads \ {h} :
         Same(req[g], req'[g]) /\ \A x \in {q} : Spared(req[g], req'[g], x)
  BY <1>1, <1>2, <1>3, TouchSpares, TouchedFacts DEF AInv
<1>7. Sound(req[h])'
  BY <1>2, <1>6 DEF Sound, DoneRight, HeldRight, SwitchRight
<1>8. db' = db /\ (CanWrite(h) \/ draft' = draft)
  BY DEF Rotate, Hold, Reads, database
<1>9. doubt \subseteq doubt' \cup {q} /\ (q \in doubt' \/ KeysIn(keys'[s], r.user) = Wanted(db, r.user, s))
  <2>1. CASE (ok /\ <<r.user, r.old>> \in keys[s]) /\ db.key[r.user] = r.key
    <3>1. Live(db, r.user)
      BY <1>1, <2>1 DEF Live, NoKey
    <3>2. Wanted(db, r.user, s) = {db.key[r.user]}
      BY <1>1, <3>1, VisitFacts
    <3> QED BY <1>3, <1>4, <1>5, <2>1, <3>2 DEF Settles
  <2>2. CASE ~((ok /\ <<r.user, r.old>> \in keys[s]) /\ db.key[r.user] = r.key)
    <3>1. doubt' = doubt \cup {q}
      BY <1>3, <2>2 DEF Settles
    <3> QED BY <3>1
  <2> QED BY <2>1, <2>2
<1> QED BY <1>1, <1>5, <1>6, <1>7, <1>8, <1>9, CommandKeeps

LEMMA ReinstallBInv ==
    ASSUME AInv, AInv', BInv, NEW h \in Threads, NEW s \in Servers, Reinstall(h, s)
    PROVE  BInv'
<1> DEFINE r == req[h]
           q == <<r.user, s>>
           after == Replacing(s, r.user, r.key)
           r1 == [r EXCEPT !.todo = @ \ {s}, !.step = IF r.todo = {s} THEN "load" ELSE @]
<1>1. /\ r.kind = "reset" /\ r.step = "reinstall" /\ r.user \in Users /\ r.key \in 1 .. MaxKey
      /\ r \in Request /\ s \in Places /\ q \in Pairs /\ s \in r.todo /\ owner[s] = r.user
  <2>1. r.kind = "reset" /\ r.step = "reinstall" /\ r.user \in Users /\ r.key # NoKey
        /\ r \in Request /\ s \in r.todo
    BY TaskFacts DEF Reinstall, Fit
  <2>2. owner[s] = r.user
    BY <2>1, VisitFacts
  <2> QED BY <2>1, <2>2, TaskFacts DEF Places, Pairs
<1>2. r1 \in Request /\ r1.kind = "reset"
  BY <1>1 DEF Request, Steps
<1>3. Reads /\ db' = db /\ draft' = draft
  BY DEF Reinstall, Reads, database
<1>4. CASE s \in up
  <2>1. PICK ok \in BOOLEAN :
          /\ Becomes(s, after, ok)
          /\ Settles(q, ok /\ db.key[r.user] = r.key)
          /\ Touched(h, q, r1)
    BY Zenon, <1>4 DEF Reinstall
  <2>2. /\ Single(s, keys[s]) /\ after \in SUBSET Keys /\ Single(s, after)
        /\ KeysIn(after, r.user) = {r.key}
        /\ \A v \in Users \ {r.user} : KeysIn(after, v) = KeysIn(keys[s], v)
    BY <1>1, ReplacedFile DEF AInv, BInv, OneKey
  <2> HIDE DEF r1, after
  <2>3. OneKey' /\ Elsewhere({q}) /\ (ok => KeysIn(keys'[s], r.user) = {r.key})
    BY <1>1, <2>1, <2>2, CommandFacts DEF AInv, BInv
  <2>4. req'[h] = r1 /\ \A g \in Threads \ {h} :
           Same(req[g], req'[g]) /\ \A x \in {q} : Spared(req[g], req'[g], x)
    BY <1>1, <1>2, <2>1, TouchSpares, TouchedFacts DEF AInv
  <2>5. Sound(req[h])'
    BY <1>2, <2>4 DEF Sound, DoneRight, HeldRight, SwitchRight
  <2>6. doubt \subseteq doubt' \cup {q} /\ (q \in doubt' \/ KeysIn(keys'[s], r.user) = Wanted(db, r.user, s))
    <3>1. CASE ok /\ db.key[r.user] = r.key
      <4>1. Live(db, r.user)
        BY <1>1, <3>1 DEF Live, NoKey
      <4>2. Wanted(db, r.user, s) = {db.key[r.user]}
        BY <1>1, <4>1, VisitFacts
      <4> QED BY <2>1, <2>3, <3>1, <4>2 DEF Settles
    <3>2. CASE ~(ok /\ db.key[r.user] = r.key)
      <4>1. doubt' = doubt \cup {q}
        BY <2>1, <3>2 DEF Settles
      <4> QED BY <4>1
    <3> QED BY <3>1, <3>2
  <2> QED BY <1>1, <1>3, <2>3, <2>4, <2>5, <2>6, CommandKeeps
<1>5. CASE s \notin up
  <2>1. Goes(h, r1) /\ UNCHANGED <<keys, doubt>>
    BY Zenon, <1>5 DEF Reinstall
  <2> HIDE DEF r1
  <2>2. req'[h] = r1 /\ \A g \in Threads \ {h} : Same(req[g], req'[g])
    BY <1>2, <2>1, GoesFacts DEF AInv
  <2>3. Sound(req[h])'
    BY <1>2, <2>2 DEF Sound, DoneRight, HeldRight, SwitchRight
  <2> QED BY <1>3, <2>1, <2>2, <2>3, QuietStep
<1> QED BY <1>4, <1>5

LEMMA LoadBInv ==
    ASSUME AInv, AInv', BInv, NEW h \in Threads, Load(h)
    PROVE  BInv'
<1>1. req[h].kind \in {"regenerate", "reset", "sync"} /\ req[h] \in Request
  BY TaskFacts DEF Load, Fit
<1>2. \E r : Goes(h, r) /\ r.kind = req[h].kind
  <2>1. CASE req[h].kind = "sync"
    <3> DEFINE r1(u) == [req[h] EXCEPT !.user = u, !.key = View(h).key[u], !.todo = req[h].todo \ {u},
                                       !.place = Target(View(h), u), !.step = "onboard"]
    <3>1. PICK u \in req[h].todo : Goes(h, r1(u))
      BY <1>1, <2>1 DEF Load, Request
    <3>2. r1(u).kind = req[h].kind
      BY <1>1 DEF Request
    <3> HIDE DEF r1
    <3> QED BY <3>1, <3>2
  <2>2. CASE req[h].kind # "sync"
    <3> DEFINE r1 == [req[h] EXCEPT !.place = Target(View(h), req[h].user), !.step = "onboard"]
    <3>1. Goes(h, r1)
      BY <2>2 DEF Load
    <3>2. r1.kind = req[h].kind
      BY <1>1 DEF Request
    <3> HIDE DEF r1
    <3> QED BY <3>1, <3>2
  <2> QED BY <2>1, <2>2
<1>3. /\ req'[h].kind = req[h].kind
      /\ \A g \in Threads \ {h} : Same(req[g], req'[g])
  BY <1>2, SameFacts DEF Goes, AInv, TypeOK
<1>4. Sound(req[h])'
  BY <1>1, <1>3 DEF Sound, DoneRight, HeldRight, SwitchRight
<1> QED BY <1>3, <1>4, QuietStep DEF Load, Reads, database

LEMMA OnboardBInv ==
    ASSUME AInv, AInv', BInv, NEW h \in Threads, Onboard(h)
    PROVE  BInv'
<1> DEFINE r == req[h]
           q == <<r.user, r.place>>
           after == Replacing(r.place, r.user, r.key)
           r1 == Onboarded(r)
<1>1. /\ r.step = "onboard" /\ r.user \in Users /\ r.place \in Accounts /\ r.place \in Places
      /\ r.done = {} /\ r \in Request /\ q \in Pairs /\ Fit(r) /\ r.place \notin Servers
  BY TaskFacts, DatabaseFacts, PlacesAssumption DEF Onboard, Fit, AInv, Accounts
<1>2. /\ r1 \in Request
      /\ \/ r1 = Idle /\ r.kind \in {"reset", "sync"}
         \/ /\ r1.kind = r.kind /\ r1.user = r.user /\ r1.key = r.key /\ r1.place = r.place
            /\ r1.done = {} /\ r.kind \in {"regenerate", "sync", "newUser"}
            /\ r.kind = "newUser" => r1.step = "commit"
  BY <1>1, OnboardedFacts
<1>3. Reads /\ db' = db /\ draft' = draft
  BY DEF Onboard, Reads, database
<1>4. CASE r.key = NoKey
  <2>1. Goes(h, r1) /\ UNCHANGED <<keys, doubt>> /\ r.kind # "newUser"
    BY <1>1, <1>4 DEF Onboard, Fit
  <2> HIDE DEF r1
  <2>2. req'[h] = r1 /\ \A g \in Threads \ {h} : Same(req[g], req'[g])
    BY <1>2, <2>1, GoesFacts DEF AInv
  <2>3. Sound(req[h])'
    BY <1>2, <2>1, <2>2, IdleFacts DEF Sound, DoneRight, HeldRight, SwitchRight
  <2> QED BY <1>3, <2>1, <2>2, <2>3, QuietStep
<1>5. CASE r.key # NoKey
  <2>1. PICK ok \in BOOLEAN :
          /\ Becomes(r.place, after, ok)
          /\ IF r.kind = "newUser" THEN Pending(h, q, ok, r1)
             ELSE Settles(q, ok /\ Current(r)) /\ Touched(h, q, r1)
    BY Zenon, <1>5 DEF Onboard
  <2>2. r.key \in 1 .. MaxKey
    BY <1>5, TaskFacts
  <2>3. /\ Single(r.place, keys[r.place]) /\ after \in SUBSET Keys /\ Single(r.place, after)
        /\ KeysIn(after, r.user) = {r.key}
        /\ \A v \in Users \ {r.user} : KeysIn(after, v) = KeysIn(keys[r.place], v)
    BY <1>1, <2>2, ReplacedFile DEF AInv, BInv, OneKey
  <2> HIDE DEF r1, after
  <2>4. OneKey' /\ Elsewhere({q}) /\ (ok => KeysIn(keys'[r.place], r.user) = {r.key})
    BY <1>1, <2>1, <2>3, CommandFacts DEF AInv, BInv
  <2>5. CASE r.kind = "newUser"
    <3>1. Pending(h, q, ok, r1)
      BY <2>1, <2>5
    <3>2. /\ req'[h].kind = "newUser" /\ req'[h].step = "commit" /\ doubt' = doubt \cup {q}
          /\ \A x \in req'[h].done : x = q /\ ok
      BY <1>1, <1>2, <2>5, <3>1, PendingFacts, IdleFacts DEF AInv
    <3>3. \A g \in Threads \ {h} :
             Same(req[g], req'[g]) /\ \A x \in {q} : Spared(req[g], req'[g], x)
      BY <1>1, <1>2, <3>1, PendingSpares DEF AInv
    <3>4. Wanted(draft, r.user, r.place) = {r.key}
      <4>1. Drafted(r)
        BY <2>5 DEF AInv, Locked, Holds
      <4>2. draft.key[r.user] = r.key /\ r.place = Target(draft, r.user)
        BY <1>1, <2>5, <4>1 DEF Drafted, AInv, TypeOK, Database
      <4> QED BY <1>5, <4>2 DEF Wanted, Live
    <3>5. \A x \in req'[h].done : KeysIn(keys'[x[2]], x[1]) = Wanted(draft, x[1], x[2])
      BY <2>4, <3>2, <3>4
    <3>6. Sound(req[h])'
      <4>1. Goal(req[h])' = draft
        BY <1>3, <3>2 DEF Goal
      <4> QED BY <3>2, <3>5, <4>1
              DEF Sound, DoneRight, HeldRight, SwitchRight, KeysAt, KeysIn, Wanted, Live, Owned, Target
    <3> QED BY <1>1, <1>3, <2>4, <3>2, <3>3, <3>6, CommandKeeps
  <2>6. CASE r.kind # "newUser"
    <3>1. Settles(q, ok /\ Current(r)) /\ Touched(h, q, r1)
      BY <2>1, <2>6
    <3>2. req'[h] = r1 /\ \A g \in Threads \ {h} :
             Same(req[g], req'[g]) /\ \A x \in {q} : Spared(req[g], req'[g], x)
      BY <1>1, <1>2, <3>1, TouchSpares, TouchedFacts DEF AInv
    <3>3. Sound(req[h])'
      BY <1>2, <2>6, <3>2, IdleFacts DEF Sound, DoneRight, HeldRight, SwitchRight
    <3>4. /\ doubt \subseteq doubt' \cup {q}
          /\ q \in doubt' \/ KeysIn(keys'[r.place], r.user) = Wanted(db, r.user, r.place)
      <4>1. CASE ok /\ Current(r)
        <5>1. Wanted(db, r.user, r.place) = {r.key}
          BY <4>1 DEF Current, Wanted
        <5> QED BY <2>4, <3>1, <4>1, <5>1 DEF Settles
      <4>2. CASE ~(ok /\ Current(r))
        <5>1. doubt' = doubt \cup {q}
          BY <3>1, <4>2 DEF Settles
        <5> QED BY <5>1
      <4> QED BY <4>1, <4>2
    <3> QED BY <1>1, <1>3, <2>4, <3>2, <3>3, <3>4, CommandKeeps
  <2> QED BY <2>5, <2>6
<1> QED BY <1>4, <1>5

LEMMA OffboardBInv ==
    ASSUME AInv, AInv', BInv, NEW h \in Threads, Offboard(h)
    PROVE  BInv'
<1> DEFINE r == req[h]
           q == <<r.user, r.place>>
           after == keys[r.place] \ {<<r.user, r.old>>}
<1>1. /\ r.kind = "regenerate" /\ r.step = "offboard" /\ r.user \in Users /\ r.place \in Places
      /\ q \in Pairs /\ r \in Request /\ r.old < r.key /\ r.old \in Int /\ r.key \in Int
  <2>1. r.kind = "regenerate" /\ r.step = "offboard" /\ r.user \in Users /\ r.place \in Places
    BY TaskFacts, DatabaseFacts DEF Offboard, Fit, AInv
  <2>2. r \in Request /\ r.old < r.key
    BY <2>1, TaskFacts DEF Task, Newer
  <2>3. r.old \in Int /\ r.key \in Int
    BY <2>2, BoundsAssumption DEF Request
  <2> QED BY <2>1, <2>2, <2>3 DEF Pairs
<1>2. /\ after \in SUBSET Keys /\ Single(r.place, after)
      /\ KeysIn(after, r.user) = KeysAt(r.place, r.user) \ {r.old}
      /\ \A v \in Users \ {r.user} : KeysIn(after, v) = KeysIn(keys[r.place], v)
  BY <1>1, RemovedFile DEF AInv, BInv, OneKey, KeysAt, KeysIn
<1>3. PICK ok \in BOOLEAN :
        /\ Becomes(r.place, after, ok)
        /\ doubt' = IF ok /\ Current(r) THEN doubt ELSE doubt \cup {q}
  BY DEF Offboard
<1>4. Touched(h, q, Idle)
  BY DEF Offboard
<1> HIDE DEF after
<1>5. /\ OneKey' /\ Elsewhere({q})
      /\ KeysIn(keys'[r.place], r.user) \in {KeysAt(r.place, r.user), KeysIn(after, r.user)}
  <2>1. Becomes(r.place, after, ok) /\ TypeOK /\ OneKey
    BY <1>3 DEF AInv, BInv
  <2>2. OneKey' /\ Elsewhere({q})
    BY <1>1, <1>2, <2>1, CommandFacts
  <2>3. keys'[r.place] \in {keys[r.place], after}
    BY <1>1, <1>2, <2>1, BecomesFacts
  <2> QED BY <2>2, <2>3, KeysFacts
<1>6. req'[h] = Idle /\ \A g \in Threads \ {h} :
         Same(req[g], req'[g]) /\ \A x \in {q} : Spared(req[g], req'[g], x)
  BY <1>1, <1>4, IdleFacts, TouchSpares, TouchedFacts DEF AInv
<1>7. Sound(req[h])'
  BY <1>6, IdleFacts DEF Sound, DoneRight, HeldRight, SwitchRight
<1>8. db' = db /\ (CanWrite(h) \/ draft' = draft)
  <2>1. writer = h => draft = db
    BY <1>1 DEF AInv, Locked, Drafted
  <2> QED BY <2>1 DEF Offboard, Save, Reads, database, CanWrite
<1>9. doubt \subseteq doubt' /\ (q \in doubt' \/ KeysIn(keys'[r.place], r.user) = Wanted(db, r.user, r.place))
  <2>1. CASE q \notin doubt /\ ok /\ Current(r)
    <3>1. KeysAt(r.place, r.user) = Wanted(db, r.user, r.place)
      BY <1>1, <2>1 DEF BInv, SettledPlacesAgree
    <3>2. Wanted(db, r.user, r.place) = {r.key}
      BY <2>1 DEF Current, Wanted
    <3>3. {r.key} \ {r.old} = {r.key}
      BY <1>1
    <3> QED BY <1>2, <1>3, <1>5, <2>1, <3>1, <3>2, <3>3
  <2>2. CASE q \in doubt \/ ~(ok /\ Current(r))
    BY <1>3, <2>2
  <2> QED BY <1>3, <2>1, <2>2
<1> QED BY <1>1, <1>5, <1>6, <1>7, <1>8, <1>9, CommandKeeps

LEMMA WriteDeleteBInv ==
    ASSUME AInv, AInv', BInv, NEW h \in Threads, WriteDelete(h)
    PROVE  BInv'
<1> DEFINE r == req[h]
           u == r.user
           T == {u} \X r.todo
           r1 == [r EXCEPT !.done = {u} \X r.todo, !.todo = {}, !.step = "revoke"]
<1>1. /\ r.kind = "delete" /\ r.step = "write" /\ u \in Users /\ r.place \in Accounts
      /\ r \in Request /\ r.todo \subseteq Places /\ T \in SUBSET Pairs
  BY TaskFacts DEF WriteDelete, Fit, Request, Pairs
<1>2. \A s \in r.todo : s \in Servers /\ owner[s] = u
  BY <1>1, VisitFacts
<1>3. /\ CanWrite(h) /\ Goes(h, r1) /\ doubt' = doubt \cup T /\ db' = db
      /\ keys' = [p \in Places |-> IF p \in r.todo THEN {} ELSE keys[p]]
      /\ draft' = [db EXCEPT !.key[u] = NoKey, !.gone = @ \cup {u}, !.rows = @ \ Owned(db, u)]
  BY Zenon DEF WriteDelete, Hold
<1>4. draft'.key[u] = NoKey
  BY <1>1, <1>3 DEF AInv, TypeOK, Database
<1>5. /\ r1 \in Request /\ r1.kind = "delete" /\ r1.step = "revoke" /\ r1.user = u
      /\ r1.place = r.place /\ r1.key = r.key /\ r1.done = T /\ r1.held = r.held
  BY <1>1 DEF Request, Steps
<1> HIDE DEF r1
<1>6. req'[h] = r1 /\ \A g \in Threads \ {h} : req'[g] = req[g] /\ Same(req[g], req'[g])
  BY <1>3, <1>5, GoesFacts DEF AInv
<1>7. \A p \in Places, v \in Users :
         KeysIn(keys'[p], v) = IF p \in r.todo THEN {} ELSE KeysAt(p, v)
  BY <1>3 DEF KeysIn, KeysAt
<1>8. \A p \in r.todo, v \in Users \ {u} : KeysAt(p, v) = {}
  BY <1>1, <1>2 DEF BInv, OneKey, Single, KeysAt
<1>9. OneKey'
  BY <1>3 DEF BInv, OneKey, Single
<1>10. Elsewhere(T)
  <2>1. ASSUME NEW p \in Places, NEW v \in Users, <<v, p>> \notin T
        PROVE  KeysIn(keys'[p], v) = KeysAt(p, v)
    BY <1>7, <1>8, <2>1
  <2> QED BY <2>1, KeysFacts DEF Elsewhere
<1>11. ASSUME NEW g \in Threads \ {h}, NEW q \in T PROVE Spared(req[g], req'[g], q)
  <2>1. ~Holds(req[g])
    BY <1>3, ThreadsAssumption DEF CanWrite, AInv, Locked
  <2>2. q \notin req[g].done
    <3>1. CASE req[g].kind = "server"
      BY <1>11, <3>1 DEF AInv, Creates, BInv, Sound, DoneRight
    <3>2. CASE req[g].kind # "server"
      BY <2>1, <3>2, TaskFacts DEF Holds, Fit, Request, Steps
    <3> QED BY <3>1, <3>2
  <2>3. q[2] \in r.todo /\ q[1] = u /\ q[2] \in Places
    BY <1>1
  <2>4. KeysAt(q[2], q[1])' \subseteq KeysAt(q[2], q[1])
    BY <1>1, <1>7, <2>3, KeysFacts
  <2> QED BY <2>1, <2>2, <2>4 DEF Spared
<1>12. Sound(req[h])'
  <2>1. r.place \notin r.todo /\ r.place \in Places
    BY <1>1, <1>2, PlacesAssumption DEF Accounts, Places
  <2>2. HeldRight(req[h])'
    <3>1. <<u, r.place>> \notin r.held => KeysAt(r.place, u) \subseteq {r.key}
      BY <1>1 DEF BInv, Sound, HeldRight
    <3>2. KeysIn(keys'[r.place], u) = KeysAt(r.place, u)
      BY <1>1, <1>7, <2>1
    <3> QED BY <1>5, <1>6, <3>1, <3>2 DEF HeldRight, KeysAt, KeysIn
  <2>3. DoneRight(req[h])'
    <3>1. \A q \in T : q[1] = u /\ q[2] \in r.todo /\ q[2] \in Places
      BY <1>1
    <3>2. \A q \in T : KeysIn(keys'[q[2]], q[1]) = {}
      BY <1>1, <1>7, <3>1
    <3>3. \A q \in T : Wanted(draft, q[1], q[2])' = {}
      BY <1>4, <3>1 DEF Wanted, Live
    <3>4. Goal(req[h])' = draft'
      BY <1>5, <1>6 DEF Goal
    <3>5. req'[h].done = T /\ req'[h].kind = "delete"
      BY <1>5, <1>6
    <3> HIDE DEF T
    <3> QED BY <3>2, <3>3, <3>4, <3>5 DEF DoneRight, KeysAt, KeysIn, Wanted, Live, Owned, Target
  <2>4. SwitchRight(req[h])'
    BY <1>5, <1>6 DEF SwitchRight
  <2> QED BY <2>2, <2>3, <2>4 DEF Sound
<1>13. SettledPlacesAgree'
  <2>1. \A q \in Pairs \ doubt' : q \notin T /\ q \notin doubt
    BY <1>3
  <2> HIDE DEF T
  <2> QED BY <1>1, <1>3, <1>10, <2>1, StepSettled
<1> HIDE DEF T
<1> QED BY <1>1, <1>3, <1>6, <1>9, <1>10, <1>11, <1>12, <1>13, StepSound

LEMMA RevokeBInv ==
    ASSUME AInv, AInv', BInv, NEW h \in Threads, Revoke(h)
    PROVE  BInv'
<1> DEFINE r == req[h]
           q == <<r.user, r.place>>
           after == keys[r.place] \ {<<r.user, r.key>>}
           r1 == [r EXCEPT !.step = "commit"]
           good(ok) == ok /\ q \notin r.held /\ Current(r)
<1>1. /\ r.kind = "delete" /\ r.step = "revoke" /\ r.user \in Users /\ r.place \in Places
      /\ q \in Pairs /\ r \in Request
  BY TaskFacts, DatabaseFacts DEF Revoke, Fit, AInv
<1>2. /\ after \in SUBSET Keys /\ Single(r.place, after)
      /\ KeysIn(after, r.user) = KeysAt(r.place, r.user) \ {r.key}
      /\ \A v \in Users \ {r.user} : KeysIn(after, v) = KeysIn(keys[r.place], v)
  BY <1>1, RemovedFile DEF AInv, BInv, OneKey, KeysAt, KeysIn
<1>3. PICK ok \in BOOLEAN : Becomes(r.place, after, ok) /\ Pending(h, q, good(ok), r1)
  BY Zenon DEF Revoke
<1>4. good(ok) \in BOOLEAN /\ (good(ok) => ok /\ q \notin r.held)
  OBVIOUS
<1>5. /\ r1 \in Request /\ r1.kind = "delete" /\ r1.step = "commit" /\ r1.user = r.user
      /\ r1.place = r.place /\ r1.done = r.done
  BY <1>1 DEF Request, Steps
<1> HIDE DEF after, r1, good
<1>6. OneKey' /\ Elsewhere({q}) /\ (ok => KeysIn(keys'[r.place], r.user) = KeysIn(after, r.user))
  <2>1. Becomes(r.place, after, ok) /\ TypeOK /\ OneKey
    BY <1>3 DEF AInv, BInv
  <2>2. OneKey' /\ Elsewhere({q})
    BY <1>1, <1>2, <2>1, CommandFacts
  <2>3. ok => keys'[r.place] = after
    BY <1>1, <1>2, <2>1, BecomesFacts
  <2> QED BY <2>2, <2>3
<1>7. /\ req'[h].kind = "delete" /\ req'[h].step = "commit"
      /\ good(ok) => req'[h].done = r.done \cup {q}
      /\ ~good(ok) => req'[h].done = r.done \ {q}
      /\ doubt' = doubt \cup {q}
  BY <1>1, <1>3, <1>4, <1>5, PendingFacts DEF AInv
<1>8. \A g \in Threads \ {h} : Same(req[g], req'[g]) /\ \A x \in {q} : Spared(req[g], req'[g], x)
  BY <1>1, <1>3, <1>4, <1>5, PendingSpares DEF AInv
<1>9. db' = db /\ draft' = draft
  BY DEF Revoke, Reads, database
<1>10. Sound(req[h])'
  <2>1. draft.key[r.user] = NoKey
    <3>1. Drafted(r)
      BY <1>1 DEF AInv, Locked, Holds
    <3>2. draft = [db EXCEPT !.key = [db.key EXCEPT ![r.user] = NoKey],
                             !.gone = db.gone \cup {r.user}, !.rows = db.rows \ Owned(db, r.user)]
      BY <1>1, <3>1 DEF Drafted
    <3>3. draft.key = [db.key EXCEPT ![r.user] = NoKey]
      BY <3>2 DEF AInv, TypeOK, Database
    <3> QED BY <1>1, <3>3 DEF AInv, TypeOK, Database
  <2>2. ASSUME good(ok) PROVE KeysIn(keys'[r.place], r.user) = Wanted(draft, r.user, r.place)
    <3>1. KeysAt(r.place, r.user) \subseteq {r.key}
      BY <1>1, <1>4, <2>2 DEF BInv, Sound, HeldRight
    <3>2. Wanted(draft, r.user, r.place) = {}
      BY <2>1 DEF Wanted, Live
    <3> QED BY <1>2, <1>4, <1>6, <2>2, <3>1, <3>2
  <2>3. ASSUME NEW x \in r.done, x # q PROVE KeysIn(keys'[x[2]], x[1]) = Wanted(draft, x[1], x[2])
    <3>1. KeysAt(x[2], x[1]) = Wanted(draft, x[1], x[2])
      BY <1>1 DEF BInv, Sound, DoneRight, Goal
    <3>2. x \in Pairs
      BY <1>1 DEF Request
    <3>3. KeysIn(keys'[x[2]], x[1]) = KeysAt(x[2], x[1])
      BY <1>6, <2>3, <3>2, KeysFacts DEF Elsewhere, Pairs
    <3> QED BY <3>1, <3>3
  <2>4. \A x \in req'[h].done : KeysIn(keys'[x[2]], x[1]) = Wanted(draft, x[1], x[2])
    BY <1>7, <2>2, <2>3
  <2>5. Goal(req[h])' = draft
    BY <1>7, <1>9 DEF Goal
  <2> QED BY <1>7, <2>4, <2>5
          DEF Sound, DoneRight, HeldRight, SwitchRight, KeysAt, KeysIn, Wanted, Live, Owned, Target
<1> QED BY <1>1, <1>6, <1>7, <1>8, <1>9, <1>10, CommandKeeps

LEMMA CommitBInv ==
    ASSUME AInv, AInv', BInv, NEW h \in Threads, Commit(h)
    PROVE  BInv'
<1>1. req[h].kind \in {"newUser", "delete"} /\ writer = h /\ req[h].step = "commit"
  BY TaskFacts DEF Commit, Fit, AInv, Locked, Holds
<1>2. Ends(h) /\ keys' = keys /\ Sound(req[h])' /\ \A g \in Threads \ {h} : Same(req[g], req'[g])
  BY EndsSound DEF Commit, AInv
<1>3. Commits(h, draft, req[h].done) /\ CanWrite(h)
  BY <1>1 DEF Commit, CanWrite
<1>4. \A q \in req[h].done : KeysAt(q[2], q[1]) = Wanted(draft, q[1], q[2])
  BY <1>1 DEF BInv, Sound, DoneRight, Goal
<1> QED BY <1>2, <1>3, <1>4, CommitKeeps

LEMMA DrainedBInv ==
    ASSUME AInv, AInv', BInv, NEW h \in Threads, Drained(h)
    PROVE  BInv'
<1> DEFINE d == IF req[h].ok THEN draft ELSE db
<1>1. req[h].kind = "switch" /\ writer = h /\ req[h].step = "drain"
  BY TaskFacts DEF Drained, Fit, AInv, Locked, Holds
<1>2. Ends(h) /\ keys' = keys /\ Sound(req[h])' /\ \A g \in Threads \ {h} : Same(req[g], req'[g])
  BY EndsSound DEF Drained, AInv
<1>3. Commits(h, d, req[h].done) /\ CanWrite(h)
  BY <1>1 DEF Drained, CanWrite
<1>4. \A q \in req[h].done : KeysAt(q[2], q[1]) = Wanted(d, q[1], q[2])
  BY <1>1 DEF BInv, Sound, DoneRight, Goal
<1> HIDE DEF d
<1> QED BY <1>2, <1>3, <1>4, CommitKeeps

LEMMA BusyTimeoutBInv ==
    ASSUME AInv, AInv', BInv, NEW h \in Threads, BusyTimeout(h)
    PROVE  BInv'
<1>1. Ends(h) /\ Sound(req[h])' /\ \A g \in Threads \ {h} : Same(req[g], req'[g])
  BY EndsSound DEF BusyTimeout, AInv
<1> QED BY <1>1, QuietStep DEF BusyTimeout, Reads, database

LEMMA CrashBInv == AInv /\ BInv /\ Crash => BInv'
<1> SUFFICES ASSUME BInv, Crash PROVE BInv'
  OBVIOUS
<1>1. keys' = keys /\ doubt' = doubt /\ db' = db /\ \A h \in Threads : req'[h] = Idle
  BY DEF Crash, Save
<1>2. OneKey' /\ SettledPlacesAgree'
  BY <1>1 DEF BInv, OneKey, Single, SettledPlacesAgree, KeysAt, Wanted, Live, Owned, Target
<1>3. \A h \in Threads : Sound(req[h])'
  BY <1>1, IdleFacts DEF Sound, DoneRight, HeldRight, SwitchRight
<1> QED BY <1>2, <1>3 DEF BInv

\* While a switch runs, the modes differ; the places it drains are not where it will leave keys.
LEMMA SwitchFacts ==
    ASSUME AInv, NEW h \in Threads, req[h].kind = "switch"
    PROVE  /\ writer = h /\ draft.key = db.key /\ draft.rows = db.rows /\ draft.mode # db.mode
           /\ {draft.mode, db.mode} \subseteq {"per_user", "shared"}
           /\ \A u, v \in Users : Target(db, u) # Target(draft, v)
           /\ req[h].step = "sync" => req[h].todo \subseteq LiveUsers
           /\ req[h].step = "drain" =>
                 \A a \in req[h].todo, u \in Users :
                    a \in Accounts /\ a # Target(Goal(req[h]), u)
<1>1. writer = h /\ Drafted(req[h]) /\ Fit(req[h]) /\ db \in Database /\ draft \in Database
  BY TaskFacts DEF AInv, Locked, Holds, TypeOK
<1>2. PICK mode \in {"per_user", "shared"} \ {db.mode} : draft = [db EXCEPT !.mode = mode]
  BY <1>1 DEF Drafted
<1>3. req[h].todo \subseteq IF req[h].step = "sync" THEN LiveUsers ELSE ToDrain(req[h])
  BY <1>1 DEF Drafted
<1>4. draft.key = db.key /\ draft.rows = db.rows /\ draft.mode = mode
  BY <1>1, <1>2 DEF Database
<1>5. {draft.mode, db.mode} \subseteq {"per_user", "shared"} /\ draft.mode # db.mode
  BY <1>1, <1>2, <1>4 DEF Database
<1>6. \A u \in Users : u # Shared
  BY PlacesAssumption
<1>7. \A u, v \in Users : Target(db, u) # Target(draft, v)
  BY <1>5, <1>6 DEF Target
<1>8. ASSUME req[h].step = "drain", NEW a \in req[h].todo, NEW u \in Users
      PROVE  a # Target(Goal(req[h]), u)
  <2>1. a \in ToDrain(req[h])
    BY <1>3, <1>8
  <2>2. CASE req[h].ok
    BY <1>5, <1>6, <1>8, <2>1, <2>2 DEF ToDrain, Target, Goal, LiveUsers
  <2>3. CASE ~req[h].ok
    BY <1>5, <1>6, <1>8, <2>1, <2>3 DEF ToDrain, Target, Goal, LiveUsers
  <2> QED BY <2>2, <2>3
<1>9. req[h].todo \subseteq Accounts
  BY <1>1 DEF Fit
<1> QED BY <1>1, <1>3, <1>4, <1>5, <1>7, <1>8, <1>9

LEMMA SyncBInv ==
    ASSUME AInv, AInv', BInv, NEW h \in Threads, NEW u \in Users, Sync(h, u)
    PROVE  BInv'
<1> DEFINE r == req[h]
           a == Target(draft, u)
           q == <<u, a>>
           n == draft.key[u]
           after == Replacing(a, u, n)
           r1(ok) == [r EXCEPT !.todo = @ \ {u}, !.ok = @ /\ ok]
<1>1. /\ r.kind = "switch" /\ r.step = "sync" /\ r.todo \subseteq Accounts /\ r \in Request
      /\ u \in r.todo
  BY TaskFacts DEF Sync, Fit
<1>2. a \in Accounts /\ a \in Places /\ q \in Pairs /\ a \notin Servers
  BY DatabaseFacts, PlacesAssumption DEF AInv, Pairs, Accounts
<1>3. PICK ok \in BOOLEAN : Becomes(a, after, ok) /\ Pending(h, q, ok, r1(ok))
  BY Zenon DEF Sync
<1>4. /\ r1(ok) \in Request /\ r1(ok).kind = "switch" /\ r1(ok).step = "sync"
      /\ r1(ok).todo = r.todo \ {u} /\ (r1(ok).ok => r.ok /\ ok) /\ r1(ok).done = r.done
      /\ r1(ok).held = r.held
  BY <1>1 DEF Request
<1>5. /\ n \in 1 .. MaxKey /\ Live(draft, u) /\ \A v \in Users : Target(db, v) # a
      /\ r.todo \subseteq LiveUsers
  <2>1. r.todo \subseteq LiveUsers /\ \A v \in Users : Target(db, v) # a
    BY <1>1, SwitchFacts
  <2>2. u \in LiveUsers
    BY <1>1, <2>1
  <2> QED BY <2>1, <2>2, DatabaseFacts, BoundsAssumption DEF LiveUsers, Live, AInv, NoKey
<1>6. db' = db /\ draft' = draft
  BY DEF Sync, Reads, database
<1> HIDE DEF r1, n
<1>7. /\ Single(a, keys[a]) /\ after \in SUBSET Keys /\ Single(a, after)
      /\ KeysIn(after, u) = {n}
      /\ \A v \in Users \ {u} : KeysIn(after, v) = KeysIn(keys[a], v)
  BY <1>2, <1>5, ReplacedFile DEF AInv, BInv, OneKey
<1> HIDE DEF after
<1>8. OneKey' /\ Elsewhere({q}) /\ KeysIn(keys'[a], u) \in {KeysAt(a, u), {n}}
      /\ (ok => KeysIn(keys'[a], u) = {n})
  <2>1. Becomes(a, after, ok) /\ TypeOK /\ OneKey
    BY <1>3 DEF AInv, BInv
  <2>2. OneKey' /\ Elsewhere({q})
    BY <1>2, <1>7, <2>1, CommandFacts
  <2>3. keys'[a] \in {keys[a], after} /\ (ok => keys'[a] = after)
    BY <1>2, <1>7, <2>1, BecomesFacts
  <2> QED BY <1>7, <2>2, <2>3, KeysFacts
<1>9. /\ req'[h].kind = "switch" /\ req'[h].step = "sync" /\ req'[h].todo = r.todo \ {u}
      /\ (req'[h].ok => r.ok /\ ok) /\ req'[h].held = r.held
      /\ ok => req'[h].done = r.done \cup {q}
      /\ ~ok => req'[h].done = r.done \ {q}
      /\ doubt' = doubt \cup {q}
  BY <1>2, <1>3, <1>4, PendingFacts DEF AInv
<1>10. \A g \in Threads \ {h} : Same(req[g], req'[g]) /\ \A x \in {q} : Spared(req[g], req'[g], x)
  BY <1>2, <1>3, <1>4, PendingSpares DEF AInv
<1>11. \A p \in Places, v \in Users : <<v, p>> # q => KeysIn(keys'[p], v) = KeysAt(p, v)
  BY <1>8, KeysFacts DEF Elsewhere
<1>12. DoneRight(req[h])'
  <2>1. Wanted(draft, u, a) = {n}
    BY <1>5 DEF Wanted, n
  <2>2. ASSUME NEW x \in r.done, x # q PROVE KeysIn(keys'[x[2]], x[1]) = Wanted(draft, x[1], x[2])
    <3>1. KeysAt(x[2], x[1]) = Wanted(draft, x[1], x[2])
      BY <1>1 DEF BInv, Sound, DoneRight, Goal
    <3>2. x \in Pairs
      BY <1>1 DEF Request
    <3> QED BY <1>11, <2>2, <3>1, <3>2 DEF Pairs
  <2>3. \A x \in req'[h].done : KeysIn(keys'[x[2]], x[1]) = Wanted(draft, x[1], x[2])
    <3>1. ok => KeysIn(keys'[q[2]], q[1]) = Wanted(draft, q[1], q[2])
      BY <1>8, <2>1
    <3> HIDE DEF q
    <3> QED BY <1>9, <2>2, <3>1
  <2>4. Goal(req[h])' = draft
    BY <1>6, <1>9 DEF Goal
  <2> QED BY <1>9, <2>3, <2>4 DEF DoneRight, KeysAt, KeysIn, Wanted, Live, Owned, Target
<1>13. HeldRight(req[h])'
  <2>1. \A v \in Users, p \in Accounts : <<v, p>> \notin r.held => KeysAt(p, v) \subseteq {draft.key[v]}
    BY <1>1 DEF BInv, Sound, HeldRight
  <2>2. ASSUME NEW v \in Users, NEW p \in Accounts, <<v, p>> \notin r.held
        PROVE  KeysIn(keys'[p], v) \subseteq {draft.key[v]}
    <3>1. p \in Places
      BY DEF Places
    <3>2. CASE <<v, p>> = q
      BY <1>8, <2>1, <2>2, <3>2 DEF n
    <3>3. CASE <<v, p>> # q
      BY <1>11, <2>1, <2>2, <3>1, <3>3
    <3> QED BY <3>2, <3>3
  <2> QED BY <1>6, <1>9, <2>2 DEF HeldRight, KeysAt, KeysIn
<1>14. SwitchRight(req[h])'
  <2>1. /\ \A v \in LiveUsers : Trusted(r, v, db)
        /\ r.ok => \A v \in LiveUsers : v \in r.todo \/ Trusted(r, v, draft)
    BY <1>1 DEF BInv, Sound, SwitchRight
  <2>2. LiveUsers \subseteq Users /\ LiveUsers' = LiveUsers
    BY <1>6 DEF LiveUsers, Live
  <2>3. ASSUME NEW v \in LiveUsers PROVE Trusted(req[h], v, db)'
    <3>1. Target(db, v) \in Places /\ Target(db, v) # a /\ v \in Users
      BY <1>5, <2>2, DatabaseFacts DEF AInv
    <3>2. KeysIn(keys'[Target(db, v)], v) = KeysAt(Target(db, v), v)
      BY <1>11, <3>1
    <3>3. Target(db, v)' = Target(db, v)
      BY <1>6 DEF Target
    <3>4. <<v, Target(db, v)>> \in r.held \/ draft.key[v] \in KeysIn(keys'[Target(db, v)], v)
      BY <2>1, <3>2 DEF Trusted
    <3> QED BY <1>6, <1>9, <3>3, <3>4 DEF Trusted, KeysAt, KeysIn
  <2>4. ASSUME req'[h].ok, NEW v \in LiveUsers, v \notin req'[h].todo PROVE Trusted(req[h], v, draft)'
    <3>1. Target(draft, v) \in Places /\ v \in Users
      BY <2>2, DatabaseFacts DEF AInv
    <3>2. Target(draft, v)' = Target(draft, v)
      BY <1>6 DEF Target
    <3>3. <<v, Target(draft, v)>> \in r.held \/ draft.key[v] \in KeysIn(keys'[Target(draft, v)], v)
      <4>1. CASE v = u
        BY <1>8, <1>9, <2>4, <4>1 DEF n
      <4>2. CASE v # u
        <5>1. v \notin r.todo /\ r.ok
          BY <1>9, <2>4, <4>2
        <5>2. Trusted(r, v, draft)
          BY <2>1, <5>1
        <5>3. KeysIn(keys'[Target(draft, v)], v) = KeysAt(Target(draft, v), v)
          BY <1>11, <3>1, <4>2
        <5> QED BY <5>2, <5>3 DEF Trusted
      <4> QED BY <4>1, <4>2
    <3> QED BY <1>6, <1>9, <3>2, <3>3 DEF Trusted, KeysAt, KeysIn
  <2> QED BY <1>9, <2>2, <2>3, <2>4 DEF SwitchRight
<1> HIDE DEF q, a
<1>15. Sound(req[h])'
  BY <1>12, <1>13, <1>14 DEF Sound
<1> USE DEF q
<1> QED BY <1>2, <1>6, <1>8, <1>9, <1>10, <1>15, CommandKeeps

LEMMA SyncedBInv ==
    ASSUME AInv, AInv', BInv, NEW h \in Threads, Synced(h)
    PROVE  BInv'
<1> DEFINE r == req[h]
           r1 == [r EXCEPT !.step = "drain", !.todo = ToDrain(r),
                           !.done = IF r.ok THEN r.done ELSE {}]
<1>1. r.kind = "switch" /\ r.step = "sync" /\ r \in Request /\ r.todo = {}
  BY TaskFacts DEF Synced, Fit
<1>2. ToDrain(r) \subseteq Places
  BY DatabaseFacts DEF AInv, ToDrain, LiveUsers, Accounts
<1>3. Goes(h, r1) /\ Reads /\ UNCHANGED <<keys, doubt>> /\ db' = db /\ draft' = draft
  BY <1>1 DEF Synced, Request, Reads, database
<1>4. /\ r1 \in Request /\ r1.kind = "switch" /\ r1.step = "drain" /\ r1.ok = r.ok
      /\ r1.held = r.held /\ r1.done \subseteq r.done /\ (~r.ok => r1.done = {})
  BY <1>1, <1>2 DEF Request, Steps
<1> HIDE DEF r1
<1>5. req'[h] = r1 /\ \A g \in Threads \ {h} : Same(req[g], req'[g])
  BY <1>3, <1>4, GoesFacts DEF AInv
<1>6. LiveUsers' = LiveUsers /\ \A p, v : KeysAt(p, v)' = KeysAt(p, v)
  BY <1>3 DEF LiveUsers, Live, KeysAt
<1>7. DoneRight(req[h])'
  <2>1. \A x \in r1.done : r.ok /\ KeysAt(x[2], x[1]) = Wanted(draft, x[1], x[2])
    BY <1>1, <1>4 DEF BInv, Sound, DoneRight, Goal
  <2>2. r.ok => Goal(req[h])' = draft
    BY <1>3, <1>4, <1>5 DEF Goal
  <2> QED BY <1>3, <1>4, <1>5, <2>1, <2>2 DEF DoneRight, KeysAt, Wanted, Live, Owned, Target
<1>8. HeldRight(req[h])'
  <2>1. \A v \in Users, p \in Accounts : <<v, p>> \notin r.held => KeysAt(p, v) \subseteq {draft.key[v]}
    BY <1>1 DEF BInv, Sound, HeldRight
  <2> QED BY <1>3, <1>4, <1>5, <2>1 DEF HeldRight, KeysAt
<1>9. SwitchRight(req[h])'
  <2>1. /\ \A v \in LiveUsers : Trusted(r, v, db)
        /\ r.ok => \A v \in LiveUsers : Trusted(r, v, draft)
    BY <1>1 DEF BInv, Sound, SwitchRight
  <2> QED BY <1>3, <1>4, <1>5, <1>6, <2>1 DEF SwitchRight, Trusted, Target, KeysAt
<1> QED BY <1>3, <1>5, <1>7, <1>8, <1>9, QuietStep DEF Sound

LEMMA DrainBInv ==
    ASSUME AInv, AInv', BInv, NEW h \in Threads, NEW a \in Accounts, Drain(h, a)
    PROVE  BInv'
<1> DEFINE r == req[h]
           T == LiveUsers \X {a}
           r1(drained) == [r EXCEPT !.todo = @ \ {a},
                                    !.done = (@ \ (Users \X {a})) \cup ((drained \X {a}) \ r.held)]
<1>1. /\ r.kind = "switch" /\ r.step = "drain" /\ r \in Request /\ a \in Places /\ a \in r.todo
      /\ a \notin Servers /\ T \in SUBSET Pairs
  <2>1. r.kind = "switch" /\ r.step = "drain" /\ r \in Request /\ a \in r.todo
    BY TaskFacts DEF Drain, Fit
  <2>2. a \in Places /\ a \notin Servers
    BY PlacesAssumption DEF Accounts, Places
  <2> QED BY <2>1, <2>2 DEF Pairs, LiveUsers
<1>2. PICK drained \in SUBSET LiveUsers :
        /\ keys' = [keys EXCEPT ![a] = @ \ {<<u, draft.key[u]>> : u \in drained}]
        /\ Goes(h, r1(drained))
        /\ doubt' = doubt \cup T
  <2>1. \A x \in {LiveUsers} \cup {LiveUsers \ {u} : u \in LiveUsers} : x \in SUBSET LiveUsers
    OBVIOUS
  <2>2. \E drained \in {LiveUsers} \cup {LiveUsers \ {u} : u \in LiveUsers} :
        /\ keys' = [keys EXCEPT ![a] = @ \ {<<u, draft.key[u]>> : u \in drained}]
        /\ Goes(h, r1(drained))
        /\ doubt' = doubt \cup T
    BY Zenon DEF Drain
  <2> QED BY Zenon, <2>1, <2>2
<1>3. db' = db /\ draft' = draft
  BY DEF Drain, Reads, database
<1>4. LiveUsers \subseteq Users /\ LiveUsers' = LiveUsers
  BY <1>3 DEF LiveUsers, Live
<1>5. /\ r1(drained) \in Request /\ r1(drained).kind = "switch" /\ r1(drained).step = "drain"
      /\ r1(drained).ok = r.ok /\ r1(drained).held = r.held
      /\ \A x \in r1(drained).done : \/ x \in r.done /\ x \notin Users \X {a}
                                     \/ x \in drained \X {a} /\ x \notin r.held
  <2>1. (r.done \ (Users \X {a})) \cup ((drained \X {a}) \ r.held) \in SUBSET Pairs
    BY <1>1, <1>4 DEF Request, Pairs
  <2> QED BY <1>1, <2>1 DEF Request
<1> HIDE DEF r1
<1>6. req'[h] = r1(drained) /\ \A g \in Threads \ {h} : req'[g] = req[g] /\ Same(req[g], req'[g])
  BY <1>2, <1>5, GoesFacts DEF AInv
<1>7. /\ \A p \in Places \ {a} : keys'[p] = keys[p]
      /\ keys'[a] = keys[a] \ {<<u, draft.key[u]>> : u \in drained}
  BY <1>1, <1>2 DEF AInv, TypeOK
<1>8. /\ \A p \in Places \ {a}, v \in Users : KeysIn(keys'[p], v) = KeysAt(p, v)
      /\ \A v \in Users \ drained : KeysIn(keys'[a], v) = KeysAt(a, v)
      /\ \A v \in drained : KeysIn(keys'[a], v) = KeysAt(a, v) \ {draft.key[v]}
  BY <1>7 DEF KeysIn, KeysAt
<1>9. OneKey'
  <2>1. Single(a, keys'[a])
    BY <1>1, <1>7, SubsetFile DEF BInv, OneKey
  <2> QED BY <1>7, <2>1 DEF BInv, OneKey, Single
<1>10. Elsewhere(T)
  <2>1. ASSUME NEW p \in Places, NEW v \in Users, <<v, p>> \notin T
        PROVE  KeysIn(keys'[p], v) = KeysAt(p, v)
    BY <1>8, <2>1
  <2> QED BY <2>1, KeysFacts DEF Elsewhere
<1>11. \A p \in Places, v \in Users : KeysIn(keys'[p], v) \subseteq KeysAt(p, v)
  BY <1>8
<1>12. ASSUME NEW g \in Threads \ {h}, NEW q \in T PROVE Spared(req[g], req'[g], q)
  <2>1. ~Holds(req[g])
    BY <1>1, SwitchFacts DEF AInv, Locked
  <2>2. q \notin req[g].done
    <3>1. CASE req[g].kind = "server"
      <4>1. \A x \in req[g].done : x = <<req[g].user, req[g].place>> /\ req[g].place \in Servers
        BY <3>1, TaskFacts DEF BInv, Sound, DoneRight, Fit
      <4>2. q[2] = a
        OBVIOUS
      <4> QED BY <1>1, <4>1, <4>2
    <3>2. CASE req[g].kind # "server"
      BY <2>1, <3>2, TaskFacts DEF Holds, Fit, Request, Steps
    <3> QED BY <3>1, <3>2
  <2>3. KeysAt(q[2], q[1])' \subseteq KeysAt(q[2], q[1])
    BY <1>1, <1>4, <1>11, KeysFacts
  <2> QED BY <2>1, <2>2, <2>3 DEF Spared
<1>13. \A v \in Users : a # Target(Goal(r), v)
  BY <1>1, SwitchFacts
<1>14. \A v \in Users, p \in Accounts : <<v, p>> \notin r.held => KeysAt(p, v) \subseteq {draft.key[v]}
  BY <1>1 DEF BInv, Sound, HeldRight
<1>15. DoneRight(req[h])'
  <2>1. ASSUME NEW x \in r1(drained).done
        PROVE  KeysIn(keys'[x[2]], x[1]) = Wanted(Goal(r), x[1], x[2])
    <3>1. CASE x \in r.done /\ x \notin Users \X {a}
      <4>1. KeysAt(x[2], x[1]) = Wanted(Goal(r), x[1], x[2])
        BY <1>1, <3>1 DEF BInv, Sound, DoneRight
      <4>2. x[1] \in Users /\ x[2] \in Places /\ x[2] # a
        BY <1>1, <3>1 DEF Request, Pairs
      <4> QED BY <1>8, <4>1, <4>2
    <3>2. CASE x \in drained \X {a} /\ x \notin r.held
      <4>1. x = <<x[1], a>> /\ x[1] \in drained /\ x[1] \in Users /\ x[2] = a
        BY <1>4, <3>2
      <4>2. KeysAt(a, x[1]) \subseteq {draft.key[x[1]]}
        BY <1>14, <3>2, <4>1
      <4>3. KeysIn(keys'[a], x[1]) = {}
        BY <1>8, <4>1, <4>2
      <4>4. a \notin Owned(Goal(r), x[1])
        BY <1>1, DatabaseFacts DEF Owned, Goal, AInv
      <4>5. Wanted(Goal(r), x[1], a) = {}
        BY <1>13, <4>1, <4>4 DEF Wanted
      <4> QED BY <4>1, <4>3, <4>5
    <3> QED BY <1>5, <2>1, <3>1, <3>2
  <2>2. Goal(req[h])' = Goal(r)
    BY <1>1, <1>3, <1>5, <1>6 DEF Goal
  <2> QED BY <1>5, <1>6, <2>1, <2>2 DEF DoneRight, KeysAt, KeysIn, Wanted, Live, Owned, Target
<1>16. HeldRight(req[h])'
  <2>1. \A v \in Users, p \in Accounts :
           <<v, p>> \notin r.held => KeysIn(keys'[p], v) \subseteq {draft.key[v]}
    BY <1>11, <1>14 DEF Places
  <2> QED BY <1>3, <1>5, <1>6, <2>1 DEF HeldRight, KeysAt, KeysIn
<1>17. SwitchRight(req[h])'
  <2>1. /\ ~r.ok => \A v \in LiveUsers : Trusted(r, v, db)
        /\ r.ok => \A v \in LiveUsers : Trusted(r, v, draft)
    BY <1>1 DEF BInv, Sound, SwitchRight
  <2>2. ASSUME NEW d \in {db, draft}, NEW v \in LiveUsers, Trusted(r, v, d), a # Target(d, v)
        PROVE  <<v, Target(d, v)>> \in r.held \/ draft.key[v] \in KeysIn(keys'[Target(d, v)], v)
    <3>1. Target(d, v) \in Places /\ v \in Users
      BY <1>4, DatabaseFacts DEF AInv
    <3> QED BY <1>8, <2>2, <3>1 DEF Trusted
  <2>3. ASSUME ~r.ok, NEW v \in LiveUsers PROVE Trusted(req[h], v, db)'
    <3>1. a # Target(db, v)
      BY <1>1, <1>4, <1>13, <2>3 DEF Goal
    <3>2. <<v, Target(db, v)>> \in r.held \/ draft.key[v] \in KeysIn(keys'[Target(db, v)], v)
      BY <2>1, <2>2, <2>3, <3>1
    <3> QED BY <1>3, <1>5, <1>6, <3>2 DEF Trusted, Target, KeysAt, KeysIn
  <2>4. ASSUME r.ok, NEW v \in LiveUsers PROVE Trusted(req[h], v, draft)'
    <3>1. a # Target(draft, v)
      BY <1>1, <1>4, <1>13, <2>4 DEF Goal
    <3>2. <<v, Target(draft, v)>> \in r.held \/ draft.key[v] \in KeysIn(keys'[Target(draft, v)], v)
      BY <2>1, <2>2, <2>4, <3>1
    <3> QED BY <1>3, <1>5, <1>6, <3>2 DEF Trusted, Target, KeysAt, KeysIn
  <2>5. r.ok \in BOOLEAN /\ req'[h].ok = r.ok
    BY <1>1, <1>5, <1>6 DEF Request
  <2> QED BY <1>4, <1>5, <1>6, <2>3, <2>4, <2>5 DEF SwitchRight
<1>18. SettledPlacesAgree'
  <2>1. \A q \in Pairs \ doubt' : q \notin T /\ q \notin doubt
    BY <1>2
  <2> HIDE DEF T
  <2> QED BY <1>1, <1>3, <1>10, <2>1, StepSettled
<1>19. Sound(req[h])'
  BY <1>15, <1>16, <1>17 DEF Sound
<1> HIDE DEF T
<1> QED BY <1>1, <1>3, <1>6, <1>9, <1>10, <1>12, <1>18, <1>19, StepSound

LEMMA StutterBInv == BInv /\ UNCHANGED vars => BInv'
<1> SUFFICES ASSUME BInv, UNCHANGED vars PROVE BInv'
  OBVIOUS
<1>1. UNCHANGED <<db, draft, keys, req, doubt>>
  BY DEF vars, database, bounds
<1>2. OneKey' /\ SettledPlacesAgree'
  BY <1>1 DEF BInv, OneKey, Single, SettledPlacesAgree, KeysAt, Wanted, Live, Owned, Target
<1>3. \A h \in Threads : Sound(req[h])'
  BY <1>1 DEF BInv, Sound, DoneRight, HeldRight, SwitchRight, Goal, Trusted, LiveUsers, KeysAt,
              Wanted, Live, Owned, Target
<1> QED BY <1>2, <1>3 DEF BInv

LEMMA InitBInv == Init => BInv
<1> SUFFICES ASSUME Init PROVE BInv
  OBVIOUS
<1>1. AInv /\ db.key \in [Users -> 0 .. 1]
  BY InitAInv DEF Init
<1>2. \A p \in Places : keys[p] = {<<u, 1>> : u \in {v \in Users : Wanted(db, v, p) # {}}}
  BY DEF Init
<1>3. \A p \in Places, u \in Users, n \in 1 .. MaxKey :
         <<u, n>> \in keys[p] <=> n = 1 /\ Wanted(db, u, p) # {}
  BY <1>2
<1>4. \A u \in Users, p \in Places : Wanted(db, u, p) # {} => Wanted(db, u, p) = {1}
  BY <1>1 DEF Wanted, Live, NoKey
<1>5. OneKey
  <2>1. \A s \in Servers, u \in Users : Wanted(db, u, s) # {} => u = owner[s]
    BY PlacesAssumption DEF Wanted, Owned, Target
  <2> QED BY <1>3, <2>1 DEF OneKey, Single
<1>6. SettledPlacesAgree
  <2>1. ASSUME NEW u \in Users, NEW p \in Places PROVE KeysAt(p, u) = Wanted(db, u, p)
    <3>1. 1 \in 1 .. MaxKey
      BY BoundsAssumption
    <3> QED BY <1>3, <1>4, <3>1 DEF KeysAt
  <2> QED BY <2>1 DEF SettledPlacesAgree, Pairs
<1>7. \A h \in Threads : Sound(req[h])
  BY IdleFacts DEF Init, Sound, DoneRight, HeldRight, SwitchRight
<1> QED BY <1>5, <1>6, <1>7 DEF BInv

LEMMA NextBInv == AInv /\ BInv /\ [Next]_vars => BInv'
<1> SUFFICES ASSUME AInv, BInv, [Next]_vars PROVE BInv'
  OBVIOUS
<1>1. AInv'
  BY NextAInv
<1>2. CASE Crash \/ UNCHANGED vars
  BY <1>2, CrashBInv, StutterBInv
<1>3. CASE \E h \in Threads : Begin(h)
  BY <1>1, <1>3, BeginServerBInv, BeginRegenerateBInv, BeginResetBInv, BeginNewUserBInv,
     BeginDeleteBInv, BeginSyncBInv, BeginSwitchBInv DEF Begin
<1>4. CASE \E h \in Threads : Advance(h)
  BY <1>1, <1>4, InstallBInv, InsertBInv, SetKeyBInv, RotateBInv, ReinstallBInv, LoadBInv,
     OnboardBInv, OffboardBInv, WriteDeleteBInv, RevokeBInv, CommitBInv, SyncBInv, SyncedBInv,
     DrainBInv, DrainedBInv, BusyTimeoutBInv DEF Advance
<1> QED BY <1>2, <1>3, <1>4 DEF Next

LEMMA KeysInPlace == Spec => [](AInv /\ BInv)
<1>1. Init => AInv /\ BInv
  BY InitAInv, InitBInv
<1>2. AInv /\ BInv /\ [Next]_vars => (AInv /\ BInv)'
  BY NextAInv, NextBInv
<1> QED BY <1>1, <1>2, PTL DEF Spec

\* A regenerated key replaces its predecessor in every file, whatever fails, overlaps or crashes.
THEOREM KeysAreReplaced == Spec => []OneKeyPerPlace
<1>1. BInv => OneKeyPerPlace
  <2> SUFFICES ASSUME BInv, NEW p \in Places, NEW u \in Users PROVE Cardinality(KeysAt(p, u)) <= 1
    BY DEF OneKeyPerPlace
  <2>1. \A n, m \in KeysAt(p, u) : n = m
    BY DEF BInv, OneKey, Single, KeysAt
  <2>2. CASE KeysAt(p, u) = {}
    <3>1. Cardinality(KeysAt(p, u)) = 0
      BY <2>2, FS_EmptySet
    <3> QED BY <3>1
  <2>3. CASE \E n : n \in KeysAt(p, u)
    <3>1. PICK n : KeysAt(p, u) = {n}
      BY <2>1, <2>3
    <3>2. Cardinality(KeysAt(p, u)) = 1
      BY <3>1, FS_Singleton
    <3> QED BY <3>2
  <2> QED BY <2>2, <2>3
<1> QED BY <1>1, KeysInPlace, PTL

\* A place a successful command brought up to date, and that nothing has touched or overtaken
\* since, holds what the database says.
THEOREM SettledPlaces == Spec => []SettledPlacesAgree
<1>1. BInv => SettledPlacesAgree
  BY DEF BInv
<1> QED BY <1>1, KeysInPlace, PTL

\* A change of the account mode takes nobody's access before it has given the new one.
THEOREM SwitchIsSafe == Spec => []SwitchKeepsAccess
<1>1. AInv /\ BInv => SwitchKeepsAccess
  <2> SUFFICES ASSUME AInv, BInv, NEW h \in Threads, req[h].kind = "switch", NEW u \in LiveUsers
               PROVE  \/ <<u, Target(db, u)>> \in req[h].held
                      \/ \E a \in {Target(db, u), Target(draft, u)} :
                            <<u, draft.key[u]>> \in keys[a] \/ <<u, a>> \in req[h].held
    BY DEF SwitchKeepsAccess
  <2>1. Trusted(req[h], u, db) \/ Trusted(req[h], u, draft)
    <3>1. req[h].ok \in BOOLEAN /\ req[h].step \in {"sync", "drain"}
      BY TaskFacts DEF Fit, Request
    <3> QED BY <3>1 DEF BInv, Sound, SwitchRight
  <2> QED BY <2>1 DEF Trusted, KeysAt
<1> QED BY <1>1, KeysInPlace, PTL
-----------------------------------------------------------------------------
(* Undisturbed use: one request at a time, and no command fails.            *)

Quiet   == ~overlapped /\ mishaps = 0
Busy(h) == req[h].kind # "none"

\* What the request under way has read is still so, and what is doubtful it will settle.
Here(r)  == r.key = db.key[r.user] /\ r.key # NoKey
There(r) == Here(r) /\ r.place = Target(db, r.user)
Own(r)   == <<r.user, r.place>>
Expected(r) ==
    /\ r.kind = "server" => /\ Here(r) /\ doubt \subseteq r.done
                            /\ r.step = "insert" => Own(r) \in r.done
    /\ r.kind = "regenerate" =>
          /\ r.step = "set" => doubt = {} /\ r.old = db.key[r.user] /\ Live(db, r.user)
          /\ r.step # "set" => Here(r)
          /\ r.step = "rotate" =>
                /\ doubt \subseteq {r.user} \X (r.todo \cup {Target(db, r.user)})
                /\ \A s \in r.todo : <<r.user, r.old>> \in keys[s]
          /\ r.step \in {"load", "onboard"} => doubt \subseteq {<<r.user, Target(db, r.user)>>}
          /\ r.step = "onboard" => There(r)
          /\ r.step = "offboard" => doubt = {} /\ There(r)
    /\ r.kind = "reset" => doubt = {} /\ Here(r) /\ (r.step = "onboard" => There(r))
    /\ r.kind = "sync" => /\ doubt = {} /\ \A u \in r.todo : Live(db, u)
                          /\ r.step = "onboard" => There(r)
    /\ r.kind = "newUser" => /\ doubt \subseteq r.done
                             /\ r.step = "commit" => Own(r) \in r.done
    /\ r.kind = "delete" =>
          /\ There(r) /\ r.held = {} /\ doubt \subseteq r.done
          /\ r.step = "write" => r.todo = Owned(db, r.user)
          /\ r.step # "write" => {r.user} \X Owned(db, r.user) \subseteq r.done
          /\ r.step = "commit" => Own(r) \in r.done
    /\ r.kind = "switch" =>
          /\ r.ok /\ r.held = {} /\ doubt \subseteq r.done /\ doubt \subseteq LiveUsers \X Accounts
          /\ \A u \in LiveUsers : \/ r.step = "sync" /\ u \in r.todo
                                  \/ <<u, Target(draft, u)>> \in r.done
          /\ r.step = "drain" => LiveUsers \X (ToDrain(r) \ r.todo) \subseteq r.done
QInv == Quiet =>
    /\ \A g, h \in Threads : Busy(g) /\ Busy(h) => g = h
    /\ \A h \in Threads : Busy(h) => Expected(req[h])
    /\ (\A h \in Threads : ~Busy(h)) => doubt = {}
LEMMA QuietStays ==
    ASSUME AInv, QInv, Quiet, NEW h \in Threads, Busy(h),
           \A g \in Threads \ {h} : Same(req[g], req'[g]),
           req'[h].kind # "none" => Expected(req[h])',
           req'[h].kind = "none" => doubt' = {}
    PROVE  QInv'
<1>1. \A g \in Threads \ {h} : ~Busy(g) /\ req'[g].kind = "none"
  BY DEF QInv, Same, Busy
<1> QED BY <1>1 DEF QInv, Busy

\* The request under way has the write lock to itself.
LEMMA Alone ==
    ASSUME AInv, QInv, Quiet, NEW h \in Threads, Busy(h)
    PROVE  /\ Expected(req[h]) /\ CanWrite(h)
           /\ req[h].kind \in {"server", "regenerate", "reset", "sync"} => draft = db
           /\ req[h].kind \in {"server", "reset", "sync"} => writer = NoRequest
<1>1. ASSUME NEW g \in Threads, writer = g PROVE g = h
  <2>1. Drafted(req[g]) /\ Fit(req[g])
    BY <1>1, TaskFacts DEF AInv, Locked
  <2>2. Busy(g)
    BY <2>1 DEF Drafted, Busy
  <2> QED BY <2>2 DEF QInv
<1>2. writer \in {NoRequest, h}
  BY <1>1 DEF AInv, TypeOK
<1>3. ASSUME req[h].kind \in {"server", "regenerate", "reset", "sync"}
      PROVE  draft = db /\ (writer = NoRequest \/ req[h].kind = "regenerate")
  BY <1>2, <1>3 DEF AInv, Locked, Drafted
<1> QED BY <1>2, <1>3 DEF QInv, CanWrite

LEMMA Starting ==
    ASSUME AInv, QInv, NEW h \in Threads, NEW r \in Request, Starts(h, r), Quiet'
    PROVE  /\ doubt = {} /\ doubt' = {} /\ writer = NoRequest /\ draft = db /\ keys' = keys
           /\ req'[h] = r
           /\ Expected(req[h])' => QInv'
<1>1. \A g \in Threads : req[g] = Idle
  BY DEF Starts, Quiet
<1>2. \A g \in Threads : req[g].kind = "none" /\ ~Busy(g)
  BY <1>1, IdleFacts DEF Busy
<1>3. Quiet /\ doubt' = doubt /\ keys' = keys
  BY DEF Starts, Quiet
<1>4. doubt = {}
  BY <1>2, <1>3 DEF QInv
<1>5. writer = NoRequest /\ draft = db
  BY <1>2 DEF AInv, TypeOK, Locked, Drafted
<1>6. req'[h] = r /\ \A g \in Threads \ {h} : req'[g].kind = "none"
  BY <1>2, StartsFacts
<1> QED BY <1>3, <1>4, <1>5, <1>6 DEF QInv, Busy

LEMMA BeginServerQ ==
    ASSUME AInv, QInv, NEW h \in Threads, NEW s \in Servers, BeginServer(h, s), Quiet'
    PROVE  QInv'
<1> DEFINE r == [Idle EXCEPT !.kind = "server", !.step = "install", !.user = owner[s],
                             !.key = db.key[owner[s]], !.place = s]
<1>1. /\ r \in Request /\ r.kind = "server" /\ r.step = "install" /\ r.user = owner[s]
      /\ r.key = db.key[owner[s]] /\ r.place = s /\ r.todo = {} /\ r.done = {}
  BY DatabaseFacts, IdleFacts DEF AInv, Request, Steps, BeginServer, Starts, Places
<1>2. Starts(h, r) /\ db' = db /\ Live(db, owner[s])
  BY DEF BeginServer, Reads, database
<1> HIDE DEF r
<1>3. Expected(req[h])'
  BY <1>1, <1>2, Starting DEF Expected, Here, Live
<1> QED BY <1>1, <1>2, <1>3, Starting

LEMMA BeginRegenerateQ ==
    ASSUME AInv, QInv, NEW h \in Threads, NEW u \in Users, BeginRegenerate(h, u), Quiet'
    PROVE  QInv'
<1> DEFINE r == [Idle EXCEPT !.kind = "regenerate", !.step = "set", !.user = u,
                             !.old = db.key[u]]
<1>1. /\ r \in Request /\ r.kind = "regenerate" /\ r.step = "set" /\ r.user = u
      /\ r.old = db.key[u]
  BY DatabaseFacts, IdleFacts DEF AInv, Request, Steps, BeginRegenerate, Starts
<1>2. Starts(h, r) /\ db' = db /\ Live(db, u)
  BY DEF BeginRegenerate, Reads, database
<1> HIDE DEF r
<1>3. Expected(req[h])'
  BY <1>1, <1>2, Starting DEF Expected, Live
<1> QED BY <1>1, <1>2, <1>3, Starting

LEMMA BeginResetQ ==
    ASSUME AInv, QInv, NEW h \in Threads, NEW u \in Users, BeginReset(h, u), Quiet'
    PROVE  QInv'
<1> DEFINE r == [Idle EXCEPT !.kind = "reset", !.user = u, !.key = db.key[u],
                             !.todo = Owned(db, u),
                             !.step = IF Owned(db, u) = {} THEN "load" ELSE "reinstall"]
<1>1. /\ r \in Request /\ r.kind = "reset" /\ r.step # "onboard" /\ r.user = u
      /\ r.key = db.key[u]
  BY DatabaseFacts, IdleFacts DEF AInv, Request, Steps, BeginReset, Starts
<1>2. Starts(h, r) /\ db' = db /\ Live(db, u)
  BY DEF BeginReset, Reads, database
<1> HIDE DEF r
<1>3. Expected(req[h])'
  BY <1>1, <1>2, Starting DEF Expected, Here, Live
<1> QED BY <1>1, <1>2, <1>3, Starting

LEMMA BeginSyncQ ==
    ASSUME AInv, QInv, NEW h \in Threads, BeginSync(h), Quiet'
    PROVE  QInv'
<1> DEFINE users == {u \in Users : Live(db, u)}
           r == [Idle EXCEPT !.kind = "sync", !.step = "load", !.todo = users]
<1>1. r \in Request /\ r.kind = "sync" /\ r.step = "load" /\ r.todo = users
  BY DatabaseFacts, IdleFacts DEF AInv, Request, Steps, BeginSync, Starts
<1>2. Starts(h, r) /\ db' = db
  BY DEF BeginSync, Reads, database
<1> HIDE DEF r
<1>3. Expected(req[h])'
  BY <1>1, <1>2, Starting DEF Expected, Live
<1> QED BY <1>1, <1>2, <1>3, Starting

LEMMA BeginNewUserQ ==
    ASSUME AInv, QInv, NEW h \in Threads, NEW u \in Users, BeginNewUser(h, u), Quiet'
    PROVE  QInv'
<1> DEFINE d == [db EXCEPT !.key[u] = issued[u] + 1]
           r == [Idle EXCEPT !.kind = "newUser", !.step = "onboard", !.user = u,
                             !.key = issued[u] + 1, !.place = Target(d, u)]
<1>1. r \in Request /\ r.kind = "newUser" /\ r.step = "onboard"
  <2>1. issued[u] + 1 \in 0 .. MaxKey
    BY DatabaseFacts, BoundsAssumption DEF AInv, BeginNewUser
  <2>2. Target(d, u) \in Places
    BY DatabaseFacts DEF AInv, Target, Accounts, Places
  <2>3. "newUser" \in Kinds
    BY IdleFacts DEF BeginNewUser, Starts, Request
  <2> HIDE DEF d
  <2> QED BY <2>1, <2>2, <2>3, IdleFacts DEF Request, Steps
<1>2. Starts(h, r)
  BY DEF BeginNewUser
<1> HIDE DEF r
<1>3. Expected(req[h])'
  BY <1>1, <1>2, Starting DEF Expected
<1> QED BY <1>1, <1>2, <1>3, Starting

LEMMA BeginDeleteQ ==
    ASSUME AInv, QInv, NEW h \in Threads, NEW u \in Users, BeginDelete(h, u), Quiet'
    PROVE  QInv'
<1> DEFINE r == [Idle EXCEPT !.kind = "delete", !.step = "write", !.user = u,
                             !.key = db.key[u], !.place = Target(db, u),
                             !.todo = Owned(db, u), !.held = doubt]
<1>1. /\ r \in Request /\ r.kind = "delete" /\ r.step = "write" /\ r.user = u
      /\ r.place = Target(db, u) /\ r.held = doubt /\ r.key = db.key[u]
      /\ r.todo = Owned(db, u)
  BY DatabaseFacts, IdleFacts DEF AInv, TypeOK, Request, Steps, BeginDelete, Starts
<1>2. Starts(h, r) /\ db' = db /\ Live(db, u)
  BY DEF BeginDelete, Reads, database
<1> HIDE DEF r
<1>3. Expected(req[h])'
  BY <1>1, <1>2, Starting DEF Expected, There, Here, Live
<1> QED BY <1>1, <1>2, <1>3, Starting

LEMMA BeginSwitchQ ==
    ASSUME AInv, QInv, NEW h \in Threads, NEW mode \in {"per_user", "shared"},
           BeginSwitch(h, mode), Quiet'
    PROVE  QInv'
<1> DEFINE users == {u \in Users : Live(db, u)}
           r == [Idle EXCEPT !.kind = "switch", !.step = "sync", !.held = doubt, !.todo = users]
<1>1. /\ r \in Request /\ r.kind = "switch" /\ r.step = "sync" /\ r.held = doubt /\ r.ok
      /\ r.todo = users
  BY DatabaseFacts, IdleFacts DEF AInv, TypeOK, Request, Steps, BeginSwitch, Starts
<1>2. Starts(h, r) /\ draft' = [db EXCEPT !.mode = mode]
  BY DEF BeginSwitch, Hold
<1>3. draft'.key = db.key
  BY <1>2 DEF AInv, TypeOK, Database
<1> HIDE DEF r
<1>4. Expected(req[h])'
  BY <1>1, <1>2, <1>3, Starting DEF Expected, LiveUsers, Live
<1> QED BY <1>1, <1>2, <1>4, Starting
LEMMA InstallQ ==
    ASSUME AInv, QInv, NEW h \in Threads, Install(h), Quiet'
    PROVE  QInv'
<1> DEFINE r == req[h]
           q == <<r.user, r.place>>
           r1 == [r EXCEPT !.step = "insert"]
           file == {<<r.user, r.key>>}
<1>1. /\ r.kind = "server" /\ r.step = "install" /\ r.user \in Users /\ r.place \in Places
      /\ q \in Pairs /\ r \in Request /\ file \in SUBSET Keys
  BY TaskFacts DEF Install, Fit, Places
<1>2. PICK ok \in BOOLEAN : Becomes(r.place, file, ok) /\ Pending(h, q, ok, r1)
  BY Zenon DEF Install
<1>3. /\ r1 \in Request /\ r1.kind = "server" /\ r1.step = "insert" /\ r1.user = r.user
      /\ r1.key = r.key /\ r1.place = r.place /\ r1.done = r.done
  BY <1>1 DEF Request, Steps
<1> HIDE DEF r1, file
<1>4. ok /\ Quiet /\ db' = db
  BY <1>1, <1>2, BecomesFacts DEF Install, Quiet, bounds, AInv, Reads, database
<1>5. /\ req'[h].kind = "server" /\ req'[h].user = r.user /\ req'[h].key = r.key
      /\ req'[h].place = r.place /\ req'[h].done = r.done \cup {q} /\ doubt' = doubt \cup {q}
      /\ \A g \in Threads \ {h} : Same(req[g], req'[g])
  <2>1. Pending(h, q, ok, r1)
    BY <1>2
  <2>2. TypeOK
    BY DEF AInv
  <2>3. /\ req'[h].kind = r1.kind /\ req'[h].user = r1.user /\ req'[h].key = r1.key
        /\ req'[h].place = r1.place /\ (ok => req'[h].done = r1.done \cup {q})
        /\ doubt' = doubt \cup {q} /\ \A g \in Threads \ {h} : Same(req[g], req'[g])
    BY <1>1, <1>3, <2>1, <2>2, PendingFacts
  <2> QED BY <1>3, <1>4, <2>3
<1>6. Busy(h) /\ Expected(r)
  BY <1>1, <1>4, Alone DEF Busy
<1>7. Expected(req[h])'
  BY <1>1, <1>4, <1>5, <1>6 DEF Expected, Here, Own
<1> QED BY <1>4, <1>5, <1>6, <1>7, QuietStays

\* What a row, a key and a mode make doubtful.
LEMMA AlteredFacts ==
    ASSUME NEW d, NEW e, NEW q \in Altered(d, e)
    PROVE  /\ q \in Pairs /\ q[1] \in Users /\ q[2] \in Places /\ q = <<q[1], q[2]>>
           /\ Wanted(d, q[1], q[2]) # Wanted(e, q[1], q[2])
BY DEF Altered, Pairs

LEMMA EndsFacts ==
    ASSUME AInv, NEW h \in Threads, Ends(h)
    PROVE  req'[h] = Idle /\ req'[h].kind = "none" /\ \A g \in Threads \ {h} : Same(req[g], req'[g])
BY GoesFacts, IdleFacts DEF Ends, AInv

LEMMA InsertQ ==
    ASSUME AInv, QInv, NEW h \in Threads, Insert(h), Quiet'
    PROVE  QInv'
<1> DEFINE r == req[h]
           d == [db EXCEPT !.rows = db.rows \cup {r.place}]
<1>1. /\ r.kind = "server" /\ r.step = "insert" /\ r.user \in Users /\ r.place \in Servers
      /\ r.user = owner[r.place] /\ r \in Request
  BY TaskFacts DEF Insert, Fit
<1>2. Quiet /\ Ends(h)
  BY DEF Insert, Quiet, bounds
<1>3. Busy(h) /\ Expected(r) /\ CanWrite(h)
  BY <1>1, <1>2, Alone DEF Busy
<1>4. Here(r) /\ doubt \subseteq r.done /\ Own(r) \in r.done
  BY <1>1, <1>3 DEF Expected
<1>5. Commits(h, d, r.done)
  BY <1>1, <1>3, <1>4 DEF Insert, Here, Live, AInv, TypeOK, Database
<1>6. ASSUME NEW q \in Altered(db, d) PROVE q = Own(r)
  <2>1. d.key = db.key /\ d.mode = db.mode /\ d.rows = db.rows \cup {r.place}
    BY DEF AInv, TypeOK, Database
  <2> HIDE DEF d
  <2>2. Wanted(db, q[1], q[2]) # Wanted(d, q[1], q[2]) /\ q = <<q[1], q[2]>>
    BY <1>6, AlteredFacts
  <2>3. q[2] = r.place /\ owner[r.place] = q[1]
    BY <2>1, <2>2 DEF Wanted, Live, Owned, Target
  <2> QED BY <1>1, <2>2, <2>3 DEF Own
<1>7. doubt' = {}
  BY <1>4, <1>5, <1>6 DEF Commits
<1> QED BY <1>2, <1>3, <1>7, EndsFacts, QuietStays

LEMMA SetKeyQ ==
    ASSUME AInv, BInv, QInv, NEW h \in Threads, SetKey(h), Quiet'
    PROVE  QInv'
<1> DEFINE r == req[h]
           u == r.user
           n == issued[u] + 1
           r1 == [r EXCEPT !.key = n]
           r2 == Rotation(r1, Owned(db, u))
           d == IF Live(db, u) THEN [db EXCEPT !.key[u] = n] ELSE db
<1>1. /\ r.kind = "regenerate" /\ r.step = "set" /\ u \in Users /\ r \in Request /\ Quiet
  BY TaskFacts DEF SetKey, Fit, Quiet, bounds
<1>2. Goes(h, r2) /\ Commits(h, d, {}) /\ n <= MaxKey
  BY Zenon DEF SetKey
<1>3. Busy(h) /\ Expected(r)
  BY <1>1, Alone DEF Busy
<1>4. doubt = {} /\ r.old = db.key[u] /\ Live(db, u)
  BY <1>1, <1>3 DEF Expected
<1>5. n \in 1 .. MaxKey /\ Owned(db, u) \subseteq Servers /\ Owned(db, u) \subseteq Places
  BY <1>1, <1>2, DatabaseFacts, BoundsAssumption DEF AInv, TypeOK
<1>6. /\ d.mode = db.mode /\ d.rows = db.rows /\ d.key = [db.key EXCEPT ![u] = n] /\ d.key[u] = n
      /\ db' = d
  BY <1>1, <1>2, <1>4 DEF AInv, TypeOK, Database, Commits, Save
<1>7. r1 \in Request /\ r1.kind = "regenerate" /\ r1.user = u /\ r1.key = n /\ r1.old = r.old
  BY <1>1, <1>5 DEF Request
<1>8. doubt' = Altered(db, d)
  BY <1>2, <1>4 DEF Commits
<1> HIDE DEF d, r1, n
<1>9. /\ req'[h].kind = "regenerate" /\ req'[h].user = u /\ req'[h].key = n /\ req'[h].old = r.old
      /\ req'[h].todo = Owned(db, u)
      /\ req'[h].step = IF Owned(db, u) = {} THEN "load" ELSE "rotate"
      /\ \A g \in Threads \ {h} : Same(req[g], req'[g])
  <2>1. /\ r2 \in Request /\ r2.kind = "regenerate" /\ r2.user = u /\ r2.key = n /\ r2.old = r.old
        /\ r2.todo = Owned(db, u) /\ r2.step = IF Owned(db, u) = {} THEN "load" ELSE "rotate"
    BY <1>5, <1>7, RotationFacts
  <2> HIDE DEF r2
  <2> QED BY <1>2, <2>1, GoesFacts DEF AInv
<1>10. \A q \in Altered(db, d) : q \in {u} \X (Owned(db, u) \cup {Target(db, u)})
  <2> SUFFICES ASSUME NEW q \in Altered(db, d)
               PROVE  q \in {u} \X (Owned(db, u) \cup {Target(db, u)})
    OBVIOUS
  <2>1. Wanted(db, q[1], q[2]) # Wanted(d, q[1], q[2]) /\ q = <<q[1], q[2]>> /\ q[1] \in Users
    BY AlteredFacts
  <2>2. db.key \in [Users -> 0 .. MaxKey]
    BY DEF AInv, TypeOK, Database
  <2>3. q[1] = u
    BY <1>6, <2>1, <2>2 DEF Wanted, Live, Owned, Target
  <2>4. q[2] \in Owned(db, u) \cup {Target(db, u)}
    BY <1>6, <2>1, <2>3 DEF Wanted, Owned, Target
  <2> QED BY <2>1, <2>3, <2>4
<1>11. \A s \in Owned(db, u) : <<u, r.old>> \in keys'[s]
  <2> SUFFICES ASSUME NEW s \in Owned(db, u) PROVE <<u, r.old>> \in keys[s]
    BY DEF SetKey
  <2>1. s \in Places /\ <<u, s>> \in Pairs \ doubt
    BY <1>1, <1>4, <1>5 DEF Pairs
  <2>2. KeysAt(s, u) = Wanted(db, u, s)
    BY <2>1 DEF BInv, SettledPlacesAgree
  <2>3. Wanted(db, u, s) = {db.key[u]}
    BY <1>4 DEF Wanted
  <2> QED BY <1>4, <2>2, <2>3 DEF KeysAt
<1>12. Target(db', u) = Target(db, u) /\ Here(req[h])'
  <2>1. n # 0
    BY <1>5, BoundsAssumption
  <2> QED BY <1>6, <1>9, <2>1 DEF Target, Here, NoKey
<1>13. Expected(req[h])'
  <2>1. \A q \in doubt' : q \in {u} \X (Owned(db, u) \cup {Target(db, u)})
    BY <1>8, <1>10
  <2>2. Owned(db, u) = {} => doubt' \subseteq {<<u, Target(db, u)>>}
    BY <2>1
  <2> QED BY <1>9, <1>11, <1>12, <2>1, <2>2 DEF Expected
<1> QED BY <1>1, <1>3, <1>9, <1>13, QuietStays
LEMMA RotateQ ==
    ASSUME AInv, QInv, NEW h \in Threads, NEW s \in Servers, Rotate(h, s), Quiet'
    PROVE  QInv'
<1> DEFINE r == req[h]
           q == <<r.user, s>>
           after == Rotated(s, r.user, r.old, r.key)
           r1 == Rotation(r, r.todo \ {s})
<1>1. /\ r.kind = "regenerate" /\ r.step = "rotate" /\ r.user \in Users /\ r.key \in 1 .. MaxKey
      /\ r \in Request /\ s \in r.todo /\ q \in Pairs /\ s \in Places /\ r.todo \subseteq Servers
      /\ r.todo \ {s} \in SUBSET Places
  <2>1. /\ r.kind = "regenerate" /\ r.step = "rotate" /\ r.user \in Users /\ r.key # NoKey
        /\ r \in Request /\ s \in r.todo
    BY TaskFacts DEF Rotate, Fit
  <2>2. r.todo \subseteq Servers
    BY <2>1, VisitFacts
  <2> QED BY <2>1, <2>2, TaskFacts DEF Places, Pairs
<1>2. PICK ok \in BOOLEAN :
        LET updated == ok /\ <<r.user, r.old>> \in keys[s]
        IN  /\ Becomes(s, after, ok)
            /\ Settles(<<r.user, s>>, updated /\ db.key[r.user] = r.key)
            /\ Touched(h, <<r.user, s>>,
                       IF CanWrite(h) THEN Rotation(r, r.todo \ {s}) ELSE Idle)
  BY Zenon DEF Rotate
<1>3. /\ r1 \in Request /\ r1.kind = "regenerate" /\ r1.user = r.user /\ r1.old = r.old
      /\ r1.key = r.key /\ r1.todo = r.todo \ {s}
      /\ r1.step = IF r.todo \ {s} = {} THEN "load" ELSE "rotate"
  BY <1>1, RotationFacts
<1>4. after \in SUBSET Keys
  <2>1. keys[s] \in SUBSET Keys /\ <<r.user, r.key>> \in Keys
    BY <1>1 DEF AInv, TypeOK, Keys
  <2> QED BY <2>1 DEF Rotated
<1> HIDE DEF r1, after
<1>5. ok /\ Quiet /\ \A x \in Places \ {s} : keys'[x] = keys[x]
  BY <1>1, <1>2, <1>4, BecomesFacts DEF Rotate, Quiet, bounds, AInv
<1>6. Busy(h) /\ Expected(r) /\ CanWrite(h)
  BY <1>1, <1>5, Alone DEF Busy
<1>7. /\ Here(r) /\ \A x \in r.todo : <<r.user, r.old>> \in keys[x]
      /\ doubt \subseteq {r.user} \X (r.todo \cup {Target(db, r.user)})
  BY <1>1, <1>6 DEF Expected
<1>8. doubt' = doubt \ {q} /\ Touched(h, q, r1)
  BY <1>1, <1>2, <1>5, <1>6, <1>7 DEF Settles, Here, r1
<1>9. req'[h] = r1 /\ \A g \in Threads \ {h} : Same(req[g], req'[g])
  BY <1>1, <1>3, <1>8, TouchedFacts DEF AInv
<1>10. db' = db
  BY <1>6 DEF Rotate, Hold
<1>11. \A x \in r1.todo : <<r.user, r.old>> \in keys'[x]
  BY <1>1, <1>3, <1>5, <1>7 DEF Places
<1>12. doubt' \subseteq {r.user} \X (r1.todo \cup {Target(db, r.user)})
  BY <1>3, <1>7, <1>8
<1>13. r1.todo = {} => doubt' \subseteq {<<r.user, Target(db, r.user)>>}
  BY <1>12
<1>14. Expected(req[h])'
  BY <1>3, <1>7, <1>9, <1>10, <1>11, <1>12, <1>13 DEF Expected, Here
<1> QED BY <1>3, <1>5, <1>6, <1>9, <1>14, QuietStays

LEMMA LoadQ ==
    ASSUME AInv, QInv, NEW h \in Threads, Load(h), Quiet'
    PROVE  QInv'
<1> DEFINE r == req[h]
<1>1. r.kind \in {"regenerate", "reset", "sync"} /\ r.step = "load" /\ r \in Request /\ Fit(r)
  BY TaskFacts DEF Load, Fit
<1>2. /\ Quiet /\ db' = db /\ doubt' = doubt
  BY DEF Load, Quiet, bounds, Reads, database
<1>3. Busy(h) /\ Expected(r) /\ View(h) = db
  BY <1>1, <1>2, Alone DEF Busy, View
<1>4. CASE r.kind = "sync"
  <2> DEFINE r2(u, d) == [r EXCEPT !.user = u, !.key = d.key[u], !.todo = r.todo \ {u},
                                   !.place = Target(d, u), !.step = "onboard"]
             r1(u) == r2(u, db)
  <2>1. PICK u \in r.todo : Goes(h, r1(u))
    <3>1. \E u \in r.todo : Goes(h, r2(u, View(h)))
      BY <1>1, <1>4 DEF Load, Request
    <3> HIDE DEF r2
    <3> QED BY <1>3, <3>1
  <2>2. u \in Users /\ Live(db, u) /\ doubt = {} /\ \A v \in r.todo : Live(db, v)
    BY <1>1, <1>3, <1>4 DEF Expected, Fit
  <2>3. /\ r1(u) \in Request /\ r1(u).kind = "sync" /\ r1(u).user = u /\ r1(u).key = db.key[u]
        /\ r1(u).todo = r.todo \ {u} /\ r1(u).place = Target(db, u) /\ r1(u).step = "onboard"
    <3>1. Target(db, u) \in Places /\ db.key[u] \in 0 .. MaxKey
      BY <2>2, DatabaseFacts DEF AInv
    <3>2. r.todo \ {u} \in SUBSET Places /\ db.key[u] \in 0 .. MaxKey
      BY <1>1, <3>1 DEF Request
    <3> QED BY <1>1, <1>4, <2>2, <3>1, <3>2 DEF Request, Steps
  <2> HIDE DEF r1
  <2>4. req'[h] = r1(u) /\ \A g \in Threads \ {h} : Same(req[g], req'[g])
    BY <2>1, <2>3, GoesFacts DEF AInv
  <2>5. Expected(req[h])'
    BY <1>2, <2>2, <2>3, <2>4 DEF Expected, There, Here, Live, Target
  <2> QED BY <1>2, <1>3, <2>3, <2>4, <2>5, QuietStays
<1>5. CASE r.kind # "sync"
  <2> DEFINE r1 == [r EXCEPT !.place = Target(View(h), r.user), !.step = "onboard"]
  <2>1. Goes(h, r1)
    BY Zenon, <1>5 DEF Load
  <2>2. r.user \in Users
    BY <1>1, <1>5 DEF Fit
  <2>3. /\ r1 \in Request /\ r1.kind = r.kind /\ r1.user = r.user /\ r1.key = r.key
        /\ r1.place = Target(db, r.user) /\ r1.step = "onboard"
    <3>1. Target(db, r.user) \in Places
      BY <2>2, DatabaseFacts DEF AInv
    <3> QED BY <1>1, <1>3, <3>1 DEF Request, Steps
  <2> HIDE DEF r1
  <2>4. req'[h] = r1 /\ \A g \in Threads \ {h} : Same(req[g], req'[g])
    BY <2>1, <2>3, GoesFacts DEF AInv
  <2>5. Expected(req[h])'
    BY <1>1, <1>2, <1>3, <1>5, <2>3, <2>4 DEF Expected, There, Here, Target
  <2> QED BY <1>1, <1>2, <1>3, <2>3, <2>4, <2>5, QuietStays
<1> QED BY <1>4, <1>5

LEMMA PendingGood ==
    ASSUME AInv, NEW h \in Threads, NEW r \in Request, NEW q \in Pairs, NEW ok \in BOOLEAN,
           Pending(h, q, ok, r)
    PROVE  /\ req'[h].kind = r.kind /\ req'[h].step = r.step /\ req'[h].user = r.user
           /\ req'[h].old = r.old /\ req'[h].key = r.key /\ req'[h].place = r.place
           /\ req'[h].todo = r.todo /\ req'[h].ok = r.ok /\ req'[h].held = r.held
           /\ ok => req'[h].done = r.done \cup {q}
           /\ doubt' = doubt \cup {q}
           /\ \A g \in Threads \ {h} : Same(req[g], req'[g])
<1>1. TypeOK
  BY DEF AInv
<1> QED BY <1>1, PendingFacts

\* The next account and its key, or what the request itself carries, are at the place.
LEMMA OnboardQ ==
    ASSUME AInv, QInv, NEW h \in Threads, Onboard(h), Quiet'
    PROVE  QInv'
<1> DEFINE r == req[h]
           q == <<r.user, r.place>>
           after == Replacing(r.place, r.user, r.key)
           r1 == Onboarded(r)
<1>1. /\ r.step = "onboard" /\ r.user \in Users /\ r.place \in Places /\ r \in Request
      /\ q \in Pairs /\ Fit(r) /\ r.kind \in {"regenerate", "reset", "sync", "newUser"}
  BY TaskFacts, DatabaseFacts DEF Onboard, Fit, AInv
<1>2. /\ r1 \in Request
      /\ \/ r1 = Idle /\ r.kind \in {"reset", "sync"}
         \/ /\ r1.kind = r.kind /\ r1.user = r.user /\ r1.old = r.old /\ r1.key = r.key
            /\ r1.place = r.place /\ r1.todo = r.todo /\ r1.done = r.done
            /\ \/ r.kind = "regenerate" /\ r1.step = "offboard"
               \/ r.kind = "newUser" /\ r1.step = "commit"
               \/ r.kind = "sync" /\ r1.step = "load"
  BY <1>1, OnboardedFacts
<1> HIDE DEF r1
<1>3. overlapped' = overlapped /\ db' = db /\ (mishaps' = mishaps => Quiet)
  BY DEF Onboard, bounds, Reads, database, Quiet
<1>4. r.key # NoKey
  <2> SUFFICES ASSUME r.key = NoKey PROVE FALSE
    OBVIOUS
  <2>1. mishaps' = mishaps
    BY Zenon DEF Onboard
  <2>2. Expected(r)
    BY <1>1, <1>3, <2>1, Alone DEF Busy
  <2> QED BY <1>1, <2>2 DEF Expected, There, Here, Fit
<1>5. PICK ok \in BOOLEAN :
        /\ Becomes(r.place, after, ok)
        /\ IF r.kind = "newUser" THEN Pending(h, q, ok, r1)
           ELSE Settles(q, ok /\ Current(r)) /\ Touched(h, q, r1)
  BY Zenon, <1>4 DEF Onboard, r1
<1>6. after \in SUBSET Keys
  BY <1>1, <1>4, TaskFacts DEF Replacing, AInv, TypeOK
<1> HIDE DEF after
<1>7. ok /\ Quiet
  <2>1. mishaps' = 0 => ok /\ mishaps = 0
    BY <1>1, <1>5, <1>6, BecomesFacts DEF AInv
  <2> QED BY <1>3, <2>1 DEF Quiet
<1>8. Busy(h) /\ Expected(r)
  BY <1>1, <1>7, Alone DEF Busy
<1>9. CASE r.kind = "newUser"
  <2>1. Pending(h, q, ok, r1)
    BY <1>5, <1>9
  <2>2. /\ req'[h].kind = "newUser" /\ Own(req'[h]) = q
        /\ req'[h].done = r.done \cup {q} /\ doubt' = doubt \cup {q}
        /\ \A g \in Threads \ {h} : Same(req[g], req'[g])
    <3>1. /\ req'[h].kind = r1.kind /\ req'[h].user = r1.user /\ req'[h].place = r1.place
          /\ ok => req'[h].done = r1.done \cup {q}
          /\ doubt' = doubt \cup {q} /\ \A g \in Threads \ {h} : Same(req[g], req'[g])
      BY <1>1, <1>2, <2>1, PendingGood
    <3> QED BY <1>2, <1>7, <1>9, <3>1 DEF Own
  <2>3. Expected(req[h])'
    BY <1>8, <1>9, <2>2 DEF Expected, Own
  <2> QED BY <1>7, <1>8, <2>2, <2>3, QuietStays
<1>10. CASE r.kind # "newUser"
  <2>1. There(r) /\ (r.kind # "regenerate" => doubt = {}) /\ doubt \subseteq {q}
    BY <1>1, <1>8, <1>10 DEF Expected, There
  <2>2. Current(r)
    BY <2>1 DEF There, Here, Current, Live
  <2>3. doubt' = doubt \ {q} /\ Touched(h, q, r1)
    BY <1>5, <1>7, <1>10, <2>2 DEF Settles
  <2>4. doubt' = {}
    BY <2>1, <2>3
  <2>5. req'[h] = r1 /\ \A g \in Threads \ {h} : Same(req[g], req'[g])
    BY <1>1, <1>2, <2>3, TouchedFacts DEF AInv
  <2>6. req'[h].kind # "none" => Expected(req[h])'
    BY <1>2, <1>3, <1>8, <1>10, <2>1, <2>4, <2>5, IdleFacts
       DEF Expected, There, Here, Target, Live
  <2> QED BY <1>7, <1>8, <2>4, <2>5, <2>6, QuietStays
<1> QED BY <1>9, <1>10

LEMMA OffboardQ ==
    ASSUME AInv, QInv, NEW h \in Threads, Offboard(h), Quiet'
    PROVE  QInv'
<1> DEFINE r == req[h]
           q == <<r.user, r.place>>
           after == keys[r.place] \ {<<r.user, r.old>>}
<1>1. /\ r.kind = "regenerate" /\ r.step = "offboard" /\ r.user \in Users /\ r.place \in Places
      /\ q \in Pairs
  BY TaskFacts, DatabaseFacts DEF Offboard, Fit, AInv
<1>2. PICK ok \in BOOLEAN :
        /\ Becomes(r.place, after, ok)
        /\ doubt' = IF ok /\ Current(r) THEN doubt ELSE doubt \cup {q}
  BY Zenon DEF Offboard
<1>3. after \in SUBSET Keys
  BY <1>1 DEF AInv, TypeOK
<1> HIDE DEF after
<1>4. ok /\ Quiet
  BY <1>1, <1>2, <1>3, BecomesFacts DEF Offboard, Quiet, bounds, AInv
<1>5. Busy(h) /\ Expected(r)
  BY <1>1, <1>4, Alone DEF Busy
<1>6. doubt = {} /\ Current(r)
  BY <1>1, <1>5 DEF Expected, There, Here, Current, Live
<1>7. doubt' = {}
  BY <1>2, <1>4, <1>6
<1>8. Touched(h, q, Idle)
  BY DEF Offboard
<1>9. req'[h].kind = "none" /\ \A g \in Threads \ {h} : Same(req[g], req'[g])
  BY <1>1, <1>8, TouchedFacts, IdleFacts DEF AInv
<1> QED BY <1>4, <1>5, <1>7, <1>9, QuietStays

LEMMA ReinstallQ ==
    ASSUME AInv, QInv, NEW h \in Threads, NEW s \in Servers, Reinstall(h, s), Quiet'
    PROVE  QInv'
<1> DEFINE r == req[h]
           q == <<r.user, s>>
           after == Replacing(s, r.user, r.key)
           r1 == [r EXCEPT !.todo = @ \ {s}, !.step = IF r.todo = {s} THEN "load" ELSE @]
<1>1. /\ r.kind = "reset" /\ r.step = "reinstall" /\ r.user \in Users /\ r.key # NoKey
      /\ r \in Request /\ s \in Places /\ q \in Pairs
  BY TaskFacts DEF Reinstall, Fit, Places, Pairs
<1>2. r1 \in Request /\ r1.kind = "reset" /\ r1.step # "onboard" /\ r1.user = r.user /\ r1.key = r.key
  BY <1>1 DEF Request, Steps
<1>3. overlapped' = overlapped /\ db' = db /\ (mishaps' = mishaps => Quiet)
  BY DEF Reinstall, bounds, Reads, database, Quiet
<1>4. ASSUME Quiet PROVE Busy(h) /\ doubt = {} /\ Here(r)
  BY <1>1, <1>4, Alone DEF Busy, Expected
<1>5. ASSUME Quiet, doubt' = {}, req'[h] = r1, \A g \in Threads \ {h} : Same(req[g], req'[g])
      PROVE  QInv'
  <2> HIDE DEF r1
  <2>1. Expected(req[h])'
    BY <1>2, <1>3, <1>4, <1>5 DEF Expected, Here
  <2> QED BY <1>2, <1>4, <1>5, <2>1, QuietStays
<1>6. CASE s \in up
  <2>1. PICK ok \in BOOLEAN :
          /\ Becomes(s, after, ok)
          /\ Settles(q, ok /\ db.key[r.user] = r.key)
          /\ Touched(h, q, r1)
    BY Zenon, <1>6 DEF Reinstall
  <2>2. after \in SUBSET Keys
    BY <1>1, TaskFacts DEF Replacing, AInv, TypeOK
  <2> HIDE DEF after, r1
  <2>3. ok /\ Quiet
    <3>1. mishaps' = 0 => ok /\ mishaps = 0
      BY <1>1, <2>1, <2>2, BecomesFacts DEF AInv
    <3> QED BY <1>3, <3>1 DEF Quiet
  <2>4. doubt' = {}
    BY <1>4, <2>1, <2>3 DEF Settles, Here
  <2>5. req'[h] = r1 /\ \A g \in Threads \ {h} : Same(req[g], req'[g])
    BY <1>1, <1>2, <2>1, TouchedFacts DEF AInv
  <2> QED BY <1>5, <2>3, <2>4, <2>5
<1>7. CASE s \notin up
  <2>1. Goes(h, r1) /\ UNCHANGED <<keys, doubt, mishaps>>
    BY Zenon, <1>7 DEF Reinstall
  <2> HIDE DEF r1
  <2>2. req'[h] = r1 /\ \A g \in Threads \ {h} : Same(req[g], req'[g])
    BY <1>2, <2>1, GoesFacts DEF AInv
  <2> QED BY <1>3, <1>4, <1>5, <2>1, <2>2
<1> QED BY <1>6, <1>7
LEMMA WriteDeleteQ ==
    ASSUME AInv, QInv, NEW h \in Threads, WriteDelete(h), Quiet'
    PROVE  QInv'
<1> DEFINE r == req[h]
           T == {r.user} \X r.todo
           r1 == [r EXCEPT !.done = {r.user} \X r.todo, !.todo = {}, !.step = "revoke"]
<1>1. /\ r.kind = "delete" /\ r.step = "write" /\ r.user \in Users /\ r \in Request
      /\ r.done = {} /\ T \in SUBSET Pairs
  BY TaskFacts DEF WriteDelete, Fit, Request, Pairs
<1>2. Goes(h, r1) /\ doubt' = doubt \cup T /\ db' = db /\ Quiet
  BY Zenon DEF WriteDelete, Hold, Quiet, bounds
<1>3. Busy(h) /\ Expected(r)
  BY <1>1, <1>2, Alone DEF Busy
<1>4. There(r) /\ r.held = {} /\ doubt = {} /\ r.todo = Owned(db, r.user)
  BY <1>1, <1>3 DEF Expected
<1>5. /\ r1 \in Request /\ r1.kind = "delete" /\ r1.step = "revoke" /\ r1.user = r.user
      /\ r1.place = r.place /\ r1.key = r.key /\ r1.done = T /\ r1.held = r.held
  BY <1>1 DEF Request, Steps
<1> HIDE DEF r1
<1>6. req'[h] = r1 /\ \A g \in Threads \ {h} : Same(req[g], req'[g])
  BY <1>2, <1>5, GoesFacts DEF AInv
<1>7. Expected(req[h])'
  BY <1>2, <1>4, <1>5, <1>6 DEF Expected, There, Here, Target, Owned
<1> QED BY <1>2, <1>3, <1>5, <1>6, <1>7, QuietStays

LEMMA RevokeQ ==
    ASSUME AInv, QInv, NEW h \in Threads, Revoke(h), Quiet'
    PROVE  QInv'
<1> DEFINE r == req[h]
           q == <<r.user, r.place>>
           after == keys[r.place] \ {<<r.user, r.key>>}
           r1 == [r EXCEPT !.step = "commit"]
<1>1. /\ r.kind = "delete" /\ r.step = "revoke" /\ r.user \in Users /\ r.place \in Places
      /\ q \in Pairs /\ r \in Request
  BY TaskFacts, DatabaseFacts DEF Revoke, Fit, AInv
<1>2. PICK ok \in BOOLEAN :
        /\ Becomes(r.place, after, ok)
        /\ Pending(h, q, ok /\ q \notin r.held /\ Current(r), r1)
  BY Zenon DEF Revoke
<1>3. after \in SUBSET Keys
  BY <1>1 DEF AInv, TypeOK
<1> HIDE DEF after
<1>4. ok /\ Quiet /\ db' = db
  <2>1. mishaps' = 0 => ok /\ mishaps = 0
    BY <1>1, <1>2, <1>3, BecomesFacts DEF AInv
  <2> QED BY <2>1 DEF Revoke, Quiet, bounds, Reads, database
<1>5. Busy(h) /\ Expected(r)
  BY <1>1, <1>4, Alone DEF Busy
<1>6. /\ There(r) /\ r.held = {} /\ doubt \subseteq r.done
      /\ {r.user} \X Owned(db, r.user) \subseteq r.done
  BY <1>1, <1>5 DEF Expected
<1>7. q \notin r.held /\ Current(r)
  BY <1>6 DEF There, Here, Current, Live
<1>8. /\ r1 \in Request /\ r1.kind = "delete" /\ r1.step = "commit" /\ r1.user = r.user
      /\ r1.place = r.place /\ r1.key = r.key /\ r1.done = r.done /\ r1.held = r.held
  BY <1>1 DEF Request, Steps
<1> HIDE DEF r1
<1>9. /\ req'[h].kind = "delete" /\ req'[h].step = "commit" /\ req'[h].user = r.user
      /\ req'[h].place = r.place /\ req'[h].key = r.key /\ req'[h].held = r.held
      /\ req'[h].done = r.done \cup {q} /\ doubt' = doubt \cup {q}
      /\ \A g \in Threads \ {h} : Same(req[g], req'[g])
  <2> DEFINE good == ok /\ q \notin r.held /\ Current(r)
  <2>1. good \in BOOLEAN /\ Pending(h, q, good, r1)
    BY <1>2
  <2>3. good
    BY <1>4, <1>7
  <2> HIDE DEF good
  <2>2. /\ req'[h].kind = r1.kind /\ req'[h].step = r1.step /\ req'[h].user = r1.user
        /\ req'[h].place = r1.place /\ req'[h].key = r1.key /\ req'[h].held = r1.held
        /\ good => req'[h].done = r1.done \cup {q}
        /\ doubt' = doubt \cup {q} /\ \A g \in Threads \ {h} : Same(req[g], req'[g])
    BY <1>1, <1>8, <2>1, PendingGood
  <2> QED BY <1>8, <2>2, <2>3
<1>10. Expected(req[h])'
  BY <1>4, <1>6, <1>9 DEF Expected, There, Here, Own, Target, Owned
<1> QED BY <1>4, <1>5, <1>9, <1>10, QuietStays

LEMMA CommitQ ==
    ASSUME AInv, QInv, NEW h \in Threads, Commit(h), Quiet'
    PROVE  QInv'
<1> DEFINE r == req[h]
           u == r.user
<1>1. /\ r.kind \in {"newUser", "delete"} /\ r.step = "commit" /\ u \in Users /\ r \in Request
      /\ Quiet /\ Ends(h) /\ Drafted(r)
  BY TaskFacts DEF Commit, Fit, Quiet, bounds, AInv, Locked, Holds
<1>2. Busy(h) /\ Expected(r)
  BY <1>1, Alone DEF Busy
<1>3. db.key \in [Users -> 0 .. MaxKey] /\ db \in Database
  BY DEF AInv, TypeOK, Database
<1>4. \A q \in Altered(db, draft) : q \in r.done
  <2> SUFFICES ASSUME NEW q \in Altered(db, draft) PROVE q \in r.done
    OBVIOUS
  <2>1. Wanted(db, q[1], q[2]) # Wanted(draft, q[1], q[2]) /\ q = <<q[1], q[2]>> /\ q[1] \in Users
    BY AlteredFacts
  <2>2. CASE r.kind = "newUser"
    <3>1. /\ draft.key = [db.key EXCEPT ![u] = r.key] /\ draft.rows = db.rows
          /\ draft.mode = db.mode /\ ~Live(db, u) /\ r.place = Target(draft, u)
      BY <1>1, <1>3, <2>2 DEF Drafted, Database
    <3>2. q[1] = u
      BY <1>3, <2>1, <3>1 DEF Wanted, Live, Owned, Target
    <3>3. \A s \in db.rows : owner[s] # u
      BY <3>1 DEF AInv, Rows
    <3>4. q[2] = r.place
      BY <2>1, <3>1, <3>2, <3>3 DEF Wanted, Owned
    <3> QED BY <1>1, <1>2, <2>1, <2>2, <3>2, <3>4 DEF Expected, Own
  <2>3. CASE r.kind = "delete"
    <3>1. /\ draft.key = [db.key EXCEPT ![u] = NoKey] /\ draft.rows = db.rows \ Owned(db, u)
          /\ draft.mode = db.mode
      BY <1>1, <1>3, <2>3 DEF Drafted, Database
    <3>2. q[1] = u
      BY <1>3, <2>1, <3>1 DEF Wanted, Live, Owned, Target
    <3>3. draft.key[u] = NoKey
      BY <1>1, <1>3, <3>1
    <3>4. q[2] \in Owned(db, u) \cup {Target(db, u)}
      BY <2>1, <3>2, <3>3 DEF Wanted, Live
    <3>5. {u} \X Owned(db, u) \subseteq r.done /\ <<u, Target(db, u)>> \in r.done
      BY <1>1, <1>2, <2>3 DEF Expected, There, Own
    <3> QED BY <2>1, <3>2, <3>4, <3>5
  <2> QED BY <1>1, <2>2, <2>3
<1>5. doubt \subseteq r.done
  BY <1>1, <1>2 DEF Expected
<1>6. doubt' = {}
  BY <1>4, <1>5 DEF Commit, Commits
<1> QED BY <1>1, <1>2, <1>6, EndsFacts, QuietStays

LEMMA SyncQ ==
    ASSUME AInv, QInv, NEW h \in Threads, NEW u \in Users, Sync(h, u), Quiet'
    PROVE  QInv'
<1> DEFINE r == req[h]
           a == Target(draft, u)
           q == <<u, a>>
           after == Replacing(a, u, draft.key[u])
           r1(ok) == [r EXCEPT !.todo = @ \ {u}, !.ok = @ /\ ok]
<1>1. r.kind = "switch" /\ r.step = "sync" /\ r \in Request /\ u \in r.todo
  BY TaskFacts DEF Sync, Fit
<1>2. a \in Accounts /\ a \in Places /\ q \in Pairs
  BY DatabaseFacts DEF AInv, Pairs
<1>3. u \in LiveUsers
  BY <1>1, SwitchFacts
<1>4. PICK ok \in BOOLEAN : Becomes(a, after, ok) /\ Pending(h, q, ok, r1(ok))
  BY Zenon DEF Sync
<1>5. after \in SUBSET Keys
  <2>1. draft.key[u] \in 1 .. MaxKey
    BY <1>3, DatabaseFacts, BoundsAssumption DEF LiveUsers, Live, AInv, NoKey
  <2> QED BY <1>2, <2>1 DEF Replacing, Keys, AInv, TypeOK
<1> HIDE DEF after
<1>6. ok /\ Quiet
  <2>1. mishaps' = 0 => ok /\ mishaps = 0
    BY <1>2, <1>4, <1>5, BecomesFacts DEF AInv
  <2> QED BY <2>1 DEF Sync, Quiet, bounds
<1>7. /\ r1(ok) \in Request /\ r1(ok).kind = "switch" /\ r1(ok).step = "sync"
      /\ r1(ok).todo = r.todo \ {u} /\ r1(ok).ok = (r.ok /\ ok) /\ r1(ok).done = r.done
      /\ r1(ok).held = r.held
  BY <1>1 DEF Request
<1> HIDE DEF r1
<1>8. Busy(h) /\ Expected(r)
  BY <1>1, <1>6, Alone DEF Busy
<1>9. /\ r.ok /\ r.held = {} /\ doubt \subseteq r.done /\ doubt \subseteq LiveUsers \X Accounts
      /\ \A v \in LiveUsers : v \in r.todo \/ <<v, Target(draft, v)>> \in r.done
  BY <1>1, <1>8 DEF Expected
<1>10. /\ req'[h].kind = "switch" /\ req'[h].step = "sync" /\ req'[h].ok /\ req'[h].held = {}
       /\ req'[h].todo = r.todo \ {u} /\ req'[h].done = r.done \cup {q}
       /\ doubt' = doubt \cup {q} /\ \A g \in Threads \ {h} : Same(req[g], req'[g])
  <2>1. /\ req'[h].kind = r1(ok).kind /\ req'[h].step = r1(ok).step /\ req'[h].ok = r1(ok).ok
        /\ req'[h].held = r1(ok).held /\ req'[h].todo = r1(ok).todo
        /\ ok => req'[h].done = r1(ok).done \cup {q}
        /\ doubt' = doubt \cup {q} /\ \A g \in Threads \ {h} : Same(req[g], req'[g])
    BY <1>2, <1>4, <1>7, PendingGood
  <2> QED BY <1>6, <1>7, <1>9, <2>1
<1>11. draft' = draft /\ LiveUsers' = LiveUsers
  BY DEF Sync, Reads, database, LiveUsers, Live
<1>12. Expected(req[h])'
  BY <1>2, <1>3, <1>9, <1>10, <1>11 DEF Expected, Target
<1> QED BY <1>6, <1>8, <1>10, <1>12, QuietStays

LEMMA SyncedQ ==
    ASSUME AInv, QInv, NEW h \in Threads, Synced(h), Quiet'
    PROVE  QInv'
<1> DEFINE r == req[h]
           done == IF r.ok THEN r.done ELSE {}
           r1 == [r EXCEPT !.step = "drain", !.todo = ToDrain(r), !.done = done]
<1>1. r.kind = "switch" /\ r.step = "sync" /\ r.todo = {} /\ r \in Request
  BY TaskFacts DEF Synced, Fit
<1>2. Goes(h, r1)
  BY <1>1 DEF Synced, Request
<1>3. Quiet /\ doubt' = doubt /\ draft' = draft /\ db' = db /\ LiveUsers' = LiveUsers
  BY DEF Synced, Quiet, bounds, Reads, database, LiveUsers, Live
<1>4. Busy(h) /\ Expected(r)
  BY <1>1, <1>3, Alone DEF Busy
<1>5. /\ r.ok /\ r.held = {} /\ doubt \subseteq r.done /\ doubt \subseteq LiveUsers \X Accounts
      /\ \A v \in LiveUsers : <<v, Target(draft, v)>> \in r.done
  BY <1>1, <1>4 DEF Expected
<1>6. ToDrain(r) \in SUBSET Places
  BY DEF ToDrain, LiveUsers, Places, Accounts
<1>7. /\ r1 \in Request /\ r1.kind = "switch" /\ r1.step = "drain" /\ r1.todo = ToDrain(r)
      /\ r1.ok = r.ok /\ r1.held = r.held /\ r1.done = r.done
  BY <1>1, <1>5, <1>6 DEF Request, Steps
<1> HIDE DEF r1
<1>8. req'[h] = r1 /\ \A g \in Threads \ {h} : Same(req[g], req'[g])
  BY <1>2, <1>7, GoesFacts DEF AInv
<1>9. ToDrain(req[h])' = ToDrain(r)
  BY <1>3, <1>7, <1>8 DEF ToDrain
<1>10. Expected(req[h])'
  BY <1>3, <1>5, <1>7, <1>8, <1>9 DEF Expected, Target
<1> QED BY <1>3, <1>4, <1>7, <1>8, <1>10, QuietStays

LEMMA DrainQ ==
    ASSUME AInv, QInv, NEW h \in Threads, NEW a \in Accounts, Drain(h, a), Quiet'
    PROVE  QInv'
<1> DEFINE r == req[h]
           T(drained) == drained \X {a}
           done(drained) == (r.done \ (Users \X {a})) \cup (T(drained) \ r.held)
           r1(drained) == [r EXCEPT !.todo = r.todo \ {a}, !.done = done(drained)]
<1>1. r.kind = "switch" /\ r.step = "drain" /\ a \in r.todo /\ r \in Request
  BY TaskFacts DEF Drain, Fit
<1>2. PICK drained \in {LiveUsers} \cup {LiveUsers \ {u} : u \in LiveUsers} :
        /\ IF drained = LiveUsers THEN UNCHANGED mishaps ELSE Mishap
        /\ Goes(h, r1(drained))
        /\ doubt' = doubt \cup (LiveUsers \X {a})
  BY <1>1 DEF Drain, Request
<1>3. /\ draft' = draft /\ db' = db /\ LiveUsers' = LiveUsers /\ LiveUsers \subseteq Users
  BY DEF Drain, Reads, database, LiveUsers, Live
<1>4. drained = LiveUsers /\ Quiet
  BY <1>2, BoundsAssumption DEF Drain, Mishap, Quiet, bounds, AInv, TypeOK
<1>5. Busy(h) /\ Expected(r)
  BY <1>1, <1>4, Alone DEF Busy
<1>6. /\ r.ok /\ r.held = {} /\ doubt \subseteq r.done /\ doubt \subseteq LiveUsers \X Accounts
      /\ \A v \in LiveUsers : <<v, Target(draft, v)>> \in r.done
      /\ LiveUsers \X (ToDrain(r) \ r.todo) \subseteq r.done
  BY <1>1, <1>5 DEF Expected
<1>7. done(drained) = (r.done \ (Users \X {a})) \cup (LiveUsers \X {a})
  BY <1>4, <1>6
<1>8. done(drained) \in SUBSET Pairs
  BY <1>1, <1>3, <1>7 DEF Request, Pairs, Places
<1> HIDE DEF done
<1>9. /\ r1(drained) \in Request /\ r1(drained).kind = "switch" /\ r1(drained).step = "drain"
      /\ r1(drained).todo = r.todo \ {a} /\ r1(drained).ok = r.ok /\ r1(drained).held = r.held
      /\ r1(drained).done = done(drained)
  BY <1>1, <1>8 DEF Request
<1> HIDE DEF r1
<1>10. req'[h] = r1(drained) /\ \A g \in Threads \ {h} : Same(req[g], req'[g])
  BY <1>2, <1>9, GoesFacts DEF AInv
<1>11. ToDrain(req[h])' = ToDrain(r)
  BY <1>3, <1>9, <1>10 DEF ToDrain
<1>12. \A v \in LiveUsers : a # Target(draft, v)
  BY <1>1, <1>3, <1>6, SwitchFacts DEF Goal
<1>13. doubt' \subseteq done(drained) /\ doubt' \subseteq LiveUsers \X Accounts
  BY <1>2, <1>3, <1>6, <1>7
<1>14. \A v \in LiveUsers : <<v, Target(draft, v)>> \in done(drained)
  BY <1>6, <1>7, <1>12
<1>15. LiveUsers \X (ToDrain(r) \ (r.todo \ {a})) \subseteq done(drained)
  BY <1>6, <1>7
<1>16. Expected(req[h])'
  BY <1>3, <1>6, <1>9, <1>10, <1>11, <1>13, <1>14, <1>15 DEF Expected, Target
<1> QED BY <1>4, <1>5, <1>9, <1>10, <1>16, QuietStays

LEMMA DrainedQ ==
    ASSUME AInv, QInv, NEW h \in Threads, Drained(h), Quiet'
    PROVE  QInv'
<1> DEFINE r == req[h]
<1>1. /\ r.kind = "switch" /\ r.step = "drain" /\ r.todo = {} /\ r \in Request /\ Quiet /\ Ends(h)
  BY TaskFacts DEF Drained, Fit, Quiet, bounds
<1>2. Busy(h) /\ Expected(r)
  BY <1>1, Alone DEF Busy
<1>3. /\ r.ok /\ doubt \subseteq r.done
      /\ \A v \in LiveUsers : <<v, Target(draft, v)>> \in r.done
      /\ LiveUsers \X ToDrain(r) \subseteq r.done
  BY <1>1, <1>2 DEF Expected
<1>4. Commits(h, draft, r.done)
  BY <1>3 DEF Drained
<1>5. draft.key = db.key /\ draft.rows = db.rows
  BY <1>1, SwitchFacts
<1>6. \A q \in Altered(db, draft) : q \in r.done
  <2> SUFFICES ASSUME NEW q \in Altered(db, draft) PROVE q \in r.done
    OBVIOUS
  <2>1. Wanted(db, q[1], q[2]) # Wanted(draft, q[1], q[2]) /\ q = <<q[1], q[2]>> /\ q[1] \in Users
    BY AlteredFacts
  <2>2. q[1] \in LiveUsers /\ q[2] \in {Target(db, q[1]), Target(draft, q[1])}
    BY <1>5, <2>1 DEF Wanted, Live, Owned, LiveUsers
  <2>3. Target(db, q[1]) \in ToDrain(r)
    BY <1>3, <2>2 DEF ToDrain, Target
  <2> QED BY <1>3, <2>1, <2>2, <2>3
<1>7. doubt' = {}
  BY <1>3, <1>4, <1>6 DEF Commits
<1> QED BY <1>1, <1>2, <1>7, EndsFacts, QuietStays

LEMMA BusyTimeoutQ ==
    ASSUME AInv, QInv, NEW h \in Threads, BusyTimeout(h), Quiet'
    PROVE  QInv'
<1>1. req[h].kind # "none" /\ Quiet /\ ~CanWrite(h)
  BY TaskFacts DEF BusyTimeout, Fit, Quiet, bounds
<1> QED BY <1>1, Alone DEF Busy

LEMMA NextQ == AInv /\ BInv /\ QInv /\ [Next]_vars => QInv'
<1> SUFFICES ASSUME AInv, BInv, QInv, [Next]_vars, Quiet' PROVE QInv'
  BY DEF QInv
<1>1. ~Crash
  BY BoundsAssumption DEF Crash, Mishap, Quiet, AInv, TypeOK
<1>2. CASE UNCHANGED vars
  <2>1. UNCHANGED <<db, draft, keys, req, doubt, overlapped, mishaps>>
    BY <1>2 DEF vars, database, bounds
  <2> QED BY <2>1 DEF QInv, Quiet, Busy, Expected, Here, There, Own, Live, Owned, Target, LiveUsers,
                      ToDrain
<1>3. CASE \E h \in Threads : Begin(h)
  BY <1>3, BeginServerQ, BeginRegenerateQ, BeginResetQ, BeginNewUserQ, BeginDeleteQ, BeginSyncQ,
     BeginSwitchQ DEF Begin
<1>4. CASE \E h \in Threads : Advance(h)
  BY <1>4, InstallQ, InsertQ, SetKeyQ, RotateQ, ReinstallQ, LoadQ, OnboardQ, OffboardQ,
     WriteDeleteQ, RevokeQ, CommitQ, SyncQ, SyncedQ, DrainQ, DrainedQ, BusyTimeoutQ DEF Advance
<1> QED BY <1>1, <1>2, <1>3, <1>4 DEF Next

\* Used by one request at a time and without failures, every request that ends has brought
\* every place up to date: none of them forgets a server or an account of the jump server.
THEOREM QuietUse == Spec => []QuietUseSettles
<1>1. Init => QInv
  BY IdleFacts DEF Init, QInv, Busy
<1>2. AInv /\ BInv /\ QInv /\ [Next]_vars => QInv'
  BY NextQ
<1>3. QInv => QuietUseSettles
  BY IdleFacts DEF QInv, Quiet, Busy, QuietUseSettles
<1> QED BY <1>1, <1>2, <1>3, KeysInPlace, PTL DEF Spec
=============================================================================
