------------------------------ MODULE FleetProofs ------------------------------
(***************************************************************************)
(* Proofs about accounts, server records and guests, for every set of      *)
(* accounts, records, guests and threads and every bound: types, no guest  *)
(* without a record, records that are true of their guests, destroys that  *)
(* take their own guest, the bound on owners' creations, and the last      *)
(* administrator.                                                          *)
(***************************************************************************)
EXTENDS Fleet, FiniteSetTheorems, TLAPS

Named == {"clone", "wait", "record", "finish"}
Removals == {"remove", "deleteUser"}
Committing == {"finish", "onboard", "commit"}
Holding == Committing \cup {"destroy", "forget", "write"}

\* What a request carries at each of its steps.
Fit(h, r) ==
    /\ r.step = "idle" => r.kind = "none"
    /\ r.step \in {"quota", "nextid"} \cup Named => r.kind \in {"create", "newUser"}
    /\ r.kind \in {"create", "newUser", "update", "deleteUser"} => r.user \in Users
    /\ r.step \in Named \/ r.kind = "create" => r.name.owner = r.user /\ r.name.disc = Plain
    /\ r.step \in {"clone", "wait"} => r.vmid \in Vmids
    /\ r.kind \in {"create", "newUser"} => r.disk <= Footprint /\ (h \in Desk => r.admin)
    /\ h \in Portal => r.kind \in {"none", "create", "resize"}
    /\ r.step = "apply" => r.kind = "resize"
    /\ r.kind = "resize" => /\ r.step \in {"apply", "write"} /\ r.row.vmid \in Vmids
                            /\ r.disk > r.row.disk /\ r.todo = {}
    /\ r.kind = "deleteUser" => r.to # r.user
    /\ r.step \in {"destroy", "forget"} => r.kind \in Removals /\ r.to = Nobody
    /\ r.todo \subseteq r.mine
    /\ r.step = "write" => r.kind \in {"update", "deleteUser", "resize"} /\ r.todo = {}
    /\ r.step = "commit" => r.kind \in Removals /\ r.todo = {}
    /\ r.step = "onboard" => r.kind = "newUser"
AllFit == \A h \in Threads : Fit(h, req[h])

-----------------------------------------------------------------------------
(* Types.                                                                   *)

LEMMA Apart0 == NoVmid \notin Vmids /\ NoRequest \notin Threads /\ Nobody \notin Users
<1> QED  BY IdsAssumption, ThreadsAssumption, NobodyAssumption DEF NoVmid, Threads

LEMMA IdleFits == ASSUME NEW h PROVE Idle \in Request /\ Fit(h, Idle)
<1>1. UnusedRow \in Row
  BY DEF UnusedRow, Row, NoName, Names, NoVmid, Plain
<1>2. NoName \in Names
  BY DEF NoName, Names, Plain
<1>3. Idle \in Request
  BY <1>1, <1>2 DEF Idle, Request, Steps, Changes, NoVmid, NoName
<1> QED  BY <1>3 DEF Idle, Fit, Named, Removals

LEMMA Going == ASSUME req \in [Threads -> Request], NEW h \in Threads, NEW r, Goes(h, r)
               PROVE  /\ req'[h] = r
                      /\ \A k \in Threads : k # h => req'[k] = req[k]
                      /\ DOMAIN req' = Threads
                      /\ r \in Request => req' \in [Threads -> Request]
<1> QED  BY DEF Goes

\* Only the request of one thread changes.
Alone(h) == \A k \in Threads : k # h => req'[k] = req[k]

LEMMA Started ==
    ASSUME TypeOK, NEW h \in Threads, NEW kind, Starts(h, kind), NEW r \in Request, Goes(h, r)
    PROVE  /\ req' \in [Threads -> Request] /\ served' \in 0 .. MaxRequests
           /\ Alone(h) /\ req'[h] = r /\ req[h].step = "idle" /\ kind \in Kinds
           /\ UNCHANGED <<guests, blamed, spent, robbed, crashes>>
<1>1. /\ req \in [Threads -> Request] /\ served \in 0 .. MaxRequests /\ crashes \in 0 .. MaxCrashes
      /\ req[h].step = "idle" /\ served < MaxRequests /\ served' = served + 1
      /\ kind \in Kinds /\ UNCHANGED <<guests, history, crashes>>
  BY DEF TypeOK, Starts
<1>2. UNCHANGED <<guests, blamed, spent, robbed, crashes>>
  BY <1>1 DEF history
<1>3. req' \in [Threads -> Request] /\ Alone(h) /\ req'[h] = r
  BY <1>1, Going DEF Alone
<1>4. served' \in 0 .. MaxRequests
  BY <1>1, LimitsAssumption
<1> QED  BY <1>1, <1>2, <1>3, <1>4

LEMMA Begun ==
    ASSUME TypeOK, NEW h \in Threads, NEW kind, Starts(h, kind), NEW r \in Request, Goes(h, r), Reads
    PROVE  /\ TypeOK' /\ Alone(h) /\ req'[h] = r /\ req[h].step = "idle" /\ kind \in Kinds
           /\ UNCHANGED <<db, draft, writer, guests, blamed, spent, robbed, crashes>>
<1>1. UNCHANGED <<db, draft, writer>>
  BY DEF Reads
<1> QED  BY <1>1, Started DEF TypeOK

LEMMA Continued ==
    ASSUME TypeOK, NEW h \in Threads, NEW r \in Request, Goes(h, r), UNCHANGED bounds
    PROVE  /\ req' \in [Threads -> Request] /\ Alone(h) /\ req'[h] = r
           /\ served' \in 0 .. MaxRequests /\ crashes' \in 0 .. MaxCrashes
<1>1. req \in [Threads -> Request] /\ served \in 0 .. MaxRequests /\ crashes \in 0 .. MaxCrashes
  BY DEF TypeOK
<1>2. req' \in [Threads -> Request] /\ Alone(h) /\ req'[h] = r
  BY <1>1, Going DEF Alone
<1> QED  BY <1>1, <1>2 DEF bounds

LEMMA Requests == ASSUME TypeOK, NEW h \in Threads PROVE req[h] \in Request
<1> QED  BY DEF TypeOK

LEMMA DeskOrPortal == ASSUME NEW h \in Threads, h \notin Desk PROVE h \in Portal
<1> QED  BY DEF Threads

-----------------------------------------------------------------------------
(* What each action does.                                                   *)

LEMMA CreateFacts ==
    ASSUME TypeOK, NEW h \in Threads, NEW u \in Users, NEW t \in Templates, NEW x \in Suffixes,
           BeginCreate(h, u, t, x)
    PROVE  /\ TypeOK' /\ Fit(h, req'[h]) /\ Alone(h)
           /\ req[h].step = "idle" /\ req'[h].step \in {"quota", "nextid"}
           /\ req'[h].kind = "create" /\ req'[h].user = u /\ req'[h].change = "none"
           /\ req'[h].mine = {} /\ req'[h].todo = {}
           /\ h \in Portal => WithinLimit(db, u)
           /\ UNCHANGED <<db, draft, writer, guests, blamed, spent, robbed, crashes>>
<1> DEFINE name == [owner |-> u, label |-> x, disc |-> Plain]
           admin == h \in Desk
           step == IF h \in Desk THEN "nextid" ELSE "quota"
           r == [Idle EXCEPT !.kind = "create", !.admin = admin, !.user = u,
                     !.step = step, !.name = name, !.template = t]
<1>1. Starts(h, "create") /\ (h \in Portal => WithinLimit(db, u)) /\ Goes(h, r) /\ Reads
  BY Zenon DEF BeginCreate
<1>2. "create" \in Kinds
  BY <1>1 DEF Starts
<1>3. name \in Names /\ name.owner = u /\ name.disc = Plain
  BY DEF Names
<1>8. admin \in BOOLEAN /\ step \in {"quota", "nextid"} /\ (h \in Desk => admin)
  OBVIOUS
<1> HIDE DEF name, admin, step
<1>4. Idle \in Request
  BY IdleFits
<1>9. admin \in BOOLEAN /\ step \in Steps /\ "create" \in Kinds \cup {"none"} /\ name \in Names
      /\ u \in Users \cup {Nobody} /\ t \in Templates \cup {Nobody}
  BY <1>2, <1>3, <1>8 DEF Steps
<1>5. r \in Request
  BY <1>4, <1>9 DEF Request
<1>6. /\ r.step \in {"quota", "nextid"} /\ r.kind = "create" /\ r.user = u /\ r.change = "none"
      /\ r.mine = {} /\ r.todo = {} /\ r.name = name /\ r.disk = 0
      /\ h \in Desk => r.admin
  BY <1>8 DEF Idle
<1>7. Fit(h, r)
  BY <1>3, <1>6 DEF Fit, Named, Removals, Footprint
<1> HIDE DEF r
<1> QED  BY <1>1, <1>5, <1>6, <1>7, Begun

LEMMA UpdateFacts ==
    ASSUME TypeOK, NEW h \in Threads, NEW u \in Users, NEW c \in Changes, BeginUpdate(h, u, c)
    PROVE  /\ TypeOK' /\ Fit(h, req'[h]) /\ Alone(h)
           /\ req[h].step = "idle" /\ h \in Desk
           /\ req'[h].step = "write" /\ req'[h].kind = "update" /\ req'[h].user = u
           /\ req'[h].change = c /\ req'[h].mine = {} /\ req'[h].todo = {}
           /\ c \in {"demote", "disable"} => LeavesAnAdmin(db, u)
           /\ UNCHANGED <<db, draft, writer, guests, blamed, spent, robbed, crashes>>
<1> DEFINE r == [Idle EXCEPT !.kind = "update", !.user = u, !.change = c, !.step = "write"]
<1>1. /\ Starts(h, "update") /\ h \in Desk /\ (c \in {"demote", "disable"} => LeavesAnAdmin(db, u))
      /\ Goes(h, r) /\ Reads
  BY Zenon DEF BeginUpdate
<1>2. "update" \in Kinds
  BY <1>1 DEF Starts
<1>4. Idle \in Request
  BY IdleFits
<1>5. r \in Request
  BY <1>2, <1>4 DEF Request, Steps
<1>6. /\ r.step = "write" /\ r.kind = "update" /\ r.user = u /\ r.change = c
      /\ r.mine = {} /\ r.todo = {}
  BY DEF Idle
<1>8. h \notin Portal
  BY <1>1, ThreadsAssumption
<1>7. Fit(h, r)
  BY <1>6, <1>8 DEF Fit, Named, Removals
<1> HIDE DEF r
<1> QED  BY <1>1, <1>5, <1>6, <1>7, Begun

LEMMA DeleteFacts ==
    ASSUME TypeOK, NEW h \in Threads, NEW u \in Users, NEW to \in Users \cup {Nobody},
           BeginDeleteUser(h, u, to)
    PROVE  /\ TypeOK' /\ Fit(h, req'[h]) /\ Alone(h)
           /\ req[h].step = "idle" /\ h \in Desk
           /\ req'[h].step \in {"write", "destroy"} /\ req'[h].kind = "deleteUser"
           /\ req'[h].user = u /\ req'[h].change = "none" /\ req'[h].to = to
           /\ req'[h].mine = Owned(db, u)
           /\ to = Nobody => req'[h].todo = req'[h].mine
           /\ ActiveAdmins(db) \ {u} # {}
           /\ UNCHANGED <<db, draft, writer, guests, blamed, spent, robbed, crashes>>
<1> DEFINE mine == Owned(db, u)
           todo == IF to = Nobody THEN mine ELSE {}
           step == IF to = Nobody /\ mine # {} THEN "destroy" ELSE "write"
           r == [Idle EXCEPT !.kind = "deleteUser", !.user = u, !.to = to,
                     !.mine = mine, !.todo = todo, !.step = step]
<1>1. /\ Starts(h, "deleteUser") /\ h \in Desk /\ ActiveAdmins(db) \ {u} # {}
      /\ (to # Nobody => to # u) /\ Goes(h, r) /\ Reads
  BY Zenon DEF BeginDeleteUser
<1>2. "deleteUser" \in Kinds
  BY <1>1 DEF Starts
<1>3. mine \subseteq Servers
  BY DEF Owned, Rows
<1>11. /\ todo \subseteq mine /\ (to = Nobody => todo = mine) /\ step \in {"destroy", "write"}
       /\ step = "destroy" => to = Nobody
       /\ step = "write" => todo = {}
  OBVIOUS
<1> HIDE DEF mine, todo, step
<1>4. Idle \in Request
  BY IdleFits
<1>5. r \in Request
  BY <1>2, <1>3, <1>4, <1>11 DEF Request, Steps
<1>6. /\ r.step = step
      /\ r.kind = "deleteUser" /\ r.user = u /\ r.change = "none" /\ r.to = to
      /\ r.mine = mine /\ r.todo = todo
  BY DEF Idle
<1>8. h \notin Portal
  BY <1>1, ThreadsAssumption
<1>9. to # u
  BY <1>1, Apart0
<1>7. Fit(h, r)
  BY <1>6, <1>8, <1>9, <1>11 DEF Fit, Named, Removals
<1> HIDE DEF r
<1>10. mine = Owned(db, u)
  BY DEF mine
<1> QED  BY <1>1, <1>5, <1>6, <1>7, <1>10, <1>11, Begun

LEMMA RemoveFacts ==
    ASSUME TypeOK, NEW h \in Threads, NEW s \in Servers, BeginRemove(h, s)
    PROVE  /\ TypeOK' /\ Fit(h, req'[h]) /\ Alone(h)
           /\ req[h].step = "idle" /\ h \in Desk
           /\ req'[h].step = "destroy" /\ req'[h].kind = "remove" /\ req'[h].change = "none"
           /\ req'[h].mine = {s} /\ req'[h].todo = {s} /\ s \in Rows(db)
           /\ UNCHANGED <<db, draft, writer, guests, blamed, spent, robbed, crashes>>
<1> DEFINE r == [Idle EXCEPT !.kind = "remove", !.user = db.rows[s].owner, !.mine = {s},
                            !.todo = {s}, !.step = "destroy"]
<1>1. Starts(h, "remove") /\ h \in Desk /\ s \in Rows(db) /\ Goes(h, r) /\ Reads
  BY Zenon DEF BeginRemove
<1>2. "remove" \in Kinds
  BY <1>1 DEF Starts
<1>3. db.rows[s].owner \in Users \cup {Nobody}
  BY DEF TypeOK, Database, Row
<1>4. Idle \in Request
  BY IdleFits
<1>5. r \in Request
  BY <1>2, <1>3, <1>4 DEF Request, Steps
<1>6. /\ r.step = "destroy" /\ r.kind = "remove" /\ r.change = "none" /\ r.to = Nobody
      /\ r.mine = {s} /\ r.todo = {s}
  BY DEF Idle
<1>8. h \notin Portal
  BY <1>1, ThreadsAssumption
<1>7. Fit(h, r)
  BY <1>6, <1>8 DEF Fit, Named, Removals
<1> HIDE DEF r
<1> QED  BY <1>1, <1>5, <1>6, <1>7, Begun

LEMMA ResizeFacts ==
    ASSUME TypeOK, NEW h \in Threads, NEW s \in Servers, NEW size \in 1 .. MaxDisk,
           BeginResize(h, s, size)
    PROVE  /\ TypeOK' /\ Fit(h, req'[h]) /\ Alone(h)
           /\ req[h].step = "idle"
           /\ req'[h].step = "apply" /\ req'[h].kind = "resize" /\ req'[h].change = "none"
           /\ req'[h].mine = {s} /\ req'[h].todo = {} /\ s \in Rows(db)
           /\ req'[h].row = db.rows[s] /\ req'[h].disk = size
           /\ UNCHANGED <<db, draft, writer, guests, blamed, spent, robbed, crashes>>
<1> DEFINE row == db.rows[s]
           admin == h \in Desk
           r == [Idle EXCEPT !.kind = "resize", !.admin = admin,
                     !.user = row.owner, !.mine = {s}, !.row = row, !.disk = size,
                     !.step = "apply"]
<1>1. /\ Starts(h, "resize") /\ s \in Rows(db) /\ Created(row) /\ size > row.disk
      /\ Goes(h, r) /\ Reads
  BY Zenon DEF BeginResize
<1>2. "resize" \in Kinds
  BY <1>1 DEF Starts
<1>3. row \in Row /\ row.owner \in Users \cup {Nobody} /\ row.vmid \in Vmids /\ row.disk \in Nat
  BY <1>1 DEF TypeOK, Database, Row, Created
<1>8. admin \in BOOLEAN
  OBVIOUS
<1> HIDE DEF row, admin
<1>10. size \in Nat
  BY LimitsAssumption
<1>4. Idle \in Request
  BY IdleFits
<1>5. r \in Request
  BY <1>2, <1>3, <1>4, <1>8, <1>10 DEF Request, Steps
<1>6. /\ r.step = "apply" /\ r.kind = "resize" /\ r.change = "none"
      /\ r.mine = {s} /\ r.todo = {} /\ r.row = row /\ r.disk = size
  BY DEF Idle
<1>7. Fit(h, r)
  BY <1>1, <1>3, <1>6 DEF Fit, Named, Removals
<1> HIDE DEF r
<1>9. row = db.rows[s]
  BY DEF row
<1> QED  BY <1>1, <1>5, <1>6, <1>7, <1>9, Begun
Joins(h, u) == \E a \in BOOLEAN, ts \in SUBSET Templates : BeginNewUser(h, u, a, ts)

LEMMA NewUserFacts ==
    ASSUME TypeOK, NEW h \in Threads, NEW u \in Users, Joins(h, u)
    PROVE  /\ TypeOK' /\ Fit(h, req'[h]) /\ Alone(h)
           /\ req[h].step = "idle" /\ h \in Desk
           /\ req'[h].step = "onboard" /\ req'[h].kind = "newUser" /\ req'[h].change = "none"
           /\ req'[h].mine = {} /\ req'[h].todo = {}
           /\ CanWrite(h) /\ writer' = h /\ db' = db
           /\ draft'.rows = draft.rows /\ draft.users[u].state = "unborn"
           /\ \E new \in Account : /\ draft'.users = [draft.users EXCEPT ![u] = new]
                                   /\ new.state = "live"
           /\ UNCHANGED <<guests, blamed, spent, robbed, crashes>>
<1>0. PICK a \in BOOLEAN, ts \in SUBSET Templates : BeginNewUser(h, u, a, ts)
  BY DEF Joins
<1> DEFINE new == [state |-> "live", admin |-> a, active |-> TRUE]
           d == [draft EXCEPT !.users[u] = new]
           r == [Idle EXCEPT !.kind = "newUser", !.admin = TRUE, !.user = u, !.left = ts,
                             !.step = "onboard"]
<1>1. /\ Starts(h, "newUser") /\ h \in Desk /\ draft.users[u].state = "unborn" /\ CanWrite(h)
      /\ Hold(h, d) /\ Goes(h, r)
  BY <1>0, Zenon DEF BeginNewUser
<1>2. "newUser" \in Kinds
  BY <1>1 DEF Starts
<1>3. new \in Account /\ new.state = "live"
  BY DEF Account
<1> HIDE DEF new
<1>4. Idle \in Request
  BY IdleFits
<1>5. r \in Request
  BY <1>2, <1>4 DEF Request, Steps
<1>6. /\ r.step = "onboard" /\ r.kind = "newUser" /\ r.user = u /\ r.change = "none"
      /\ r.mine = {} /\ r.todo = {} /\ r.disk = 0 /\ r.admin
  BY DEF Idle
<1>8. h \notin Portal
  BY <1>1, ThreadsAssumption
<1>7. Fit(h, r)
  BY <1>6, <1>8 DEF Fit, Named, Removals, Footprint
<1> HIDE DEF r
<1>9. draft \in Database /\ d \in Database /\ d.rows = draft.rows /\ d.users = [draft.users EXCEPT ![u] = new]
  BY <1>3 DEF TypeOK, Database
<1> HIDE DEF d
<1>10. draft' = d /\ writer' = h /\ db' = db
  BY <1>1 DEF Hold
<1>11. TypeOK' /\ Alone(h) /\ req'[h] = r /\ req[h].step = "idle"
       /\ UNCHANGED <<guests, blamed, spent, robbed, crashes>>
  BY <1>1, <1>5, <1>9, <1>10, Started DEF TypeOK
<1>12. \E e \in Account : draft'.users = [draft.users EXCEPT ![u] = e] /\ e.state = "live"
  BY <1>3, <1>9, <1>10
<1> QED  BY <1>1, <1>6, <1>7, <1>9, <1>10, <1>11, <1>12

\* Every field of a request but the four that change while it clones.
SameTask(q, r) == /\ q.kind = r.kind /\ q.admin = r.admin /\ q.user = r.user /\ q.to = r.to
                  /\ q.change = r.change /\ q.mine = r.mine /\ q.todo = r.todo /\ q.row = r.row

LEMMA Stepped ==
    ASSUME TypeOK, NEW h \in Threads, NEW step \in Steps, Step(h, step)
    PROVE  /\ req' \in [Threads -> Request] /\ Alone(h) /\ req'[h] \in Request
           /\ req'[h].step = step /\ SameTask(req'[h], req[h])
           /\ req'[h].name = req[h].name /\ req'[h].vmid = req[h].vmid
           /\ req'[h].disk = req[h].disk /\ req'[h].left = req[h].left
           /\ req'[h].template = req[h].template
<1> DEFINE r == [req[h] EXCEPT !.step = step]
<1>1. Goes(h, r) /\ req[h] \in Request /\ req \in [Threads -> Request]
  BY DEF Step, TypeOK
<1>2. r \in Request
  BY <1>1 DEF Request
<1>3. r.step = step /\ SameTask(r, req[h]) /\ r.name = req[h].name /\ r.vmid = req[h].vmid
      /\ r.disk = req[h].disk /\ r.left = req[h].left /\ r.template = req[h].template
  BY <1>1 DEF Request, SameTask
<1> HIDE DEF r
<1> QED  BY <1>1, <1>2, <1>3, Going DEF Alone

LEMMA Ended ==
    ASSUME TypeOK, NEW h \in Threads, End(h)
    PROVE  /\ req' \in [Threads -> Request] /\ Alone(h) /\ req'[h] = Idle /\ Fit(h, req'[h])
<1>1. Goes(h, Idle) /\ req \in [Threads -> Request]
  BY DEF End, TypeOK
<1> QED  BY <1>1, Going, IdleFits DEF Alone

LEMMA IdleFields == /\ Idle.step = "idle" /\ Idle.kind = "none" /\ Idle.mine = {} /\ Idle.todo = {}
                    /\ Idle.vmid = NoVmid /\ Idle.change = "none" /\ Idle.user = Nobody
                    /\ Idle.left = {}
<1> QED  BY DEF Idle

LEMMA QuotaFacts ==
    ASSUME TypeOK, AllFit, NEW h \in Threads, CheckQuota(h)
    PROVE  /\ TypeOK' /\ Fit(h, req'[h]) /\ Alone(h)
           /\ req[h].step = "quota"
           /\ req'[h] = Idle \/ (req'[h].step = "nextid" /\ SameTask(req'[h], req[h]))
           /\ UNCHANGED <<db, draft, writer, guests, blamed, spent, robbed>>
<1>1. /\ req[h].step = "quota" /\ (Step(h, "nextid") \/ End(h))
      /\ UNCHANGED <<db, draft, writer, guests, blamed, spent, robbed, served, crashes>>
  BY DEF CheckQuota, Reads, history, bounds
<1>2. Fit(h, req[h])
  BY DEF AllFit
<1>3. CASE Step(h, "nextid")
  <2>1. /\ req' \in [Threads -> Request] /\ Alone(h) /\ req'[h].step = "nextid"
        /\ SameTask(req'[h], req[h]) /\ req'[h].name = req[h].name /\ req'[h].disk = req[h].disk
    BY <1>3, Stepped DEF Steps
  <2>2. Fit(h, req'[h])
    BY <1>1, <1>2, <2>1 DEF Fit, SameTask, Named, Removals
  <2> QED  BY <1>1, <2>1, <2>2 DEF TypeOK
<1>4. CASE End(h)
  BY <1>1, <1>4, Ended DEF TypeOK
<1> QED  BY <1>1, <1>3, <1>4

LEMMA TakeFacts ==
    ASSUME TypeOK, AllFit, NEW h \in Threads, TakeId(h)
    PROVE  /\ TypeOK' /\ Fit(h, req'[h]) /\ Alone(h)
           /\ req[h].step = "nextid" /\ SameTask(req'[h], req[h])
           /\ \/ req'[h].step = "clone"
              \/ req'[h].step = "record" /\ req'[h].vmid = NoVmid
           /\ UNCHANGED <<db, draft, writer, guests, blamed, spent, robbed>>
<1> DEFINE name(t) == IF req[h].kind = "newUser"
                      THEN [owner |-> req[h].user, label |-> t, disc |-> Plain]
                      ELSE req[h].name
           choices == IF req[h].kind = "newUser" THEN req[h].left ELSE {req[h].template}
           r(t) == [req[h] EXCEPT !.left = @ \ {t}, !.template = t, !.name = name(t)]
           y(t, v, step) == [r(t) EXCEPT !.vmid = v, !.step = step]
<1>1. /\ req[h].step = "nextid"
      /\ UNCHANGED <<db, draft, writer, guests, blamed, spent, robbed, served, crashes>>
  BY DEF TakeId, Reads, history, bounds
<1>2. Fit(h, req[h]) /\ req[h] \in Request
  BY Requests DEF AllFit
<1>3. PICK t \in choices : \/ \E v \in NextId : Goes(h, [r(t) EXCEPT !.vmid = v, !.step = "clone"])
                           \/ Goes(h, [r(t) EXCEPT !.vmid = NoVmid, !.step = "record"])
  <2>1. \E t \in IF req[h].kind = "newUser" THEN req[h].left ELSE {req[h].template} :
          LET q == [req[h] EXCEPT !.left = @ \ {t}, !.template = t,
                        !.name = IF req[h].kind = "newUser"
                                 THEN [owner |-> req[h].user, label |-> t, disc |-> Plain]
                                 ELSE @]
          IN  \/ \E v \in NextId : Goes(h, [q EXCEPT !.vmid = v, !.step = "clone"])
              \/ Goes(h, [q EXCEPT !.vmid = NoVmid, !.step = "record"])
    BY Zenon DEF TakeId
  <2> QED  BY <2>1
<1>4. /\ t \in Templates \cup {Nobody} /\ name(t) \in Names
      /\ name(t).owner = req[h].user /\ name(t).disc = Plain
  <2>1. CASE req[h].kind = "newUser"
    BY <1>2, <1>3, <2>1 DEF Request, Names
  <2>2. CASE req[h].kind # "newUser"
    BY <1>1, <1>2, <1>3, <2>2 DEF Request, Fit, Named
  <2> QED  BY <2>1, <2>2
<1> HIDE DEF name
<1>5. ASSUME NEW v \in Vmids \cup {NoVmid}, NEW step \in {"clone", "record"},
             v \in Vmids \/ step = "record"
      PROVE  /\ y(t, v, step) \in Request /\ Fit(h, y(t, v, step)) /\ SameTask(y(t, v, step), req[h])
             /\ y(t, v, step).step = step /\ y(t, v, step).vmid = v
  <2> DEFINE q == y(t, v, step)
  <2>1. q \in Request
    BY <1>2, <1>4, <1>5 DEF Request, Steps
  <2>2. SameTask(q, req[h]) /\ q.step = step /\ q.vmid = v /\ q.name = name(t) /\ q.disk = req[h].disk
    BY <1>2 DEF Request, SameTask
  <2> HIDE DEF q
  <2>3. Fit(h, q)
    BY <1>1, <1>2, <1>4, <1>5, <2>2 DEF Fit, SameTask, Named, Removals
  <2> QED  BY <2>1, <2>2, <2>3 DEF q
<1>6. NextId \subseteq Vmids
  BY DEF NextId, Lowest, Free
<1>7. PICK v \in Vmids \cup {NoVmid}, step \in {"clone", "record"} :
         /\ Goes(h, y(t, v, step)) /\ (v \in Vmids \/ step = "record")
         /\ step = "record" => v = NoVmid
  BY <1>3, <1>6
<1> HIDE DEF y
<1>8. /\ req' \in [Threads -> Request] /\ Alone(h) /\ req'[h] = y(t, v, step)
      /\ served' \in 0 .. MaxRequests /\ crashes' \in 0 .. MaxCrashes
  BY <1>1, <1>5, <1>7, Continued DEF bounds
<1>9. TypeOK'
  BY <1>1, <1>8 DEF TypeOK
<1> QED  BY <1>1, <1>5, <1>7, <1>8, <1>9

LEMMA SkipFacts ==
    ASSUME TypeOK, AllFit, NEW h \in Threads, SkipTemplate(h)
    PROVE  /\ TypeOK' /\ Fit(h, req'[h]) /\ Alone(h)
           /\ req[h].step = "nextid"
           /\ req'[h] = Idle \/ (req'[h].step = "nextid" /\ SameTask(req'[h], req[h]))
           /\ UNCHANGED <<db, draft, writer, guests, blamed, spent, robbed>>
<1> DEFINE r(t) == [req[h] EXCEPT !.left = @ \ {t}]
<1>1. /\ req[h].step = "nextid" /\ req[h].kind = "newUser"
      /\ UNCHANGED <<db, draft, writer, guests, blamed, spent, robbed, served, crashes>>
  BY DEF SkipTemplate, Reads, history, bounds
<1>2. PICK t : Goes(h, IF req[h].left = {t} THEN Idle ELSE r(t))
  BY DEF SkipTemplate
<1>3. Fit(h, req[h]) /\ req[h] \in Request
  BY Requests DEF AllFit
<1>4. r(t) \in Request /\ SameTask(r(t), req[h]) /\ r(t).step = "nextid" /\ r(t).disk = req[h].disk
  BY <1>1, <1>3 DEF Request, SameTask
<1> HIDE DEF r
<1>5. Fit(h, r(t))
  BY <1>1, <1>3, <1>4 DEF Fit, SameTask, Named, Removals
<1>6. Idle \in Request /\ Fit(h, Idle)
  BY IdleFits
<1>7. PICK q \in Request : Goes(h, q) /\ (q = Idle \/ q = r(t))
  BY <1>2, <1>4, <1>6
<1>8. req' \in [Threads -> Request] /\ Alone(h) /\ req'[h] = q
      /\ served' \in 0 .. MaxRequests /\ crashes' \in 0 .. MaxCrashes
  BY <1>1, <1>7, Continued DEF bounds
<1>9. TypeOK'
  BY <1>1, <1>8 DEF TypeOK
<1> QED  BY <1>1, <1>4, <1>5, <1>6, <1>7, <1>8, <1>9

LEMMA CloneFacts ==
    ASSUME TypeOK, AllFit, NEW h \in Threads, Clone(h)
    PROVE  /\ TypeOK' /\ Fit(h, req'[h]) /\ Alone(h)
           /\ req[h].step = "clone" /\ SameTask(req'[h], req[h]) /\ req'[h].name = req[h].name
           /\ req[h].vmid \in Vmids
           /\ \/ /\ guests[req[h].vmid] = NoGuest
                 /\ guests' = [guests EXCEPT ![req[h].vmid] =
                                  [host |-> req[h].name, disk |-> Footprint]]
                 /\ blamed' = blamed \ {req[h].vmid} /\ robbed' = robbed \ {h}
                 /\ req'[h].step = "wait" /\ req'[h].vmid = req[h].vmid
              \/ /\ req'[h].step = "record" /\ req'[h].vmid = NoVmid
                 /\ UNCHANGED <<guests, blamed, robbed>>
           /\ UNCHANGED <<db, draft, writer, spent>>
<1> DEFINE v == req[h].vmid
           new == [host |-> req[h].name, disk |-> Footprint]
           r == [req[h] EXCEPT !.vmid = NoVmid, !.step = "record"]
<1>1. /\ req[h].step = "clone"
      /\ UNCHANGED <<db, draft, writer, spent, served, crashes>>
  BY DEF Clone, Reads, history, bounds
<1>2. \/ /\ guests[v] = NoGuest /\ guests' = [guests EXCEPT ![v] = new]
         /\ blamed' = blamed \ {v} /\ robbed' = robbed \ {h} /\ Step(h, "wait")
      \/ Goes(h, r) /\ UNCHANGED <<guests, blamed, robbed>>
  BY DEF Clone
<1>3. Fit(h, req[h]) /\ req[h] \in Request
  BY Requests DEF AllFit
<1>4. v \in Vmids /\ new \in Guest
  BY <1>1, <1>3 DEF Fit, Request, Guest, Footprint
<1>5. r \in Request /\ SameTask(r, req[h]) /\ r.step = "record" /\ r.vmid = NoVmid /\ r.name = req[h].name
      /\ r.disk = req[h].disk
  BY <1>3 DEF Request, SameTask, Steps
<1> HIDE DEF r
<1>6. CASE Step(h, "wait") /\ guests[v] = NoGuest /\ guests' = [guests EXCEPT ![v] = new]
           /\ blamed' = blamed \ {v} /\ robbed' = robbed \ {h}
  <2>1. /\ req' \in [Threads -> Request] /\ Alone(h) /\ req'[h].step = "wait" /\ SameTask(req'[h], req[h])
        /\ req'[h].name = req[h].name /\ req'[h].vmid = v /\ req'[h].disk = req[h].disk
    BY <1>6, Stepped DEF Steps
  <2>2. Fit(h, req'[h])
    BY <1>1, <1>3, <1>4, <2>1 DEF Fit, SameTask, Named, Removals
  <2>3. guests' \in [Vmids -> Guest \cup {NoGuest}]
    BY <1>4, <1>6 DEF TypeOK
  <2>4. TypeOK'
    BY <1>1, <1>6, <2>1, <2>3 DEF TypeOK
  <2> QED  BY <1>1, <1>4, <1>6, <2>1, <2>2, <2>4
<1>7. CASE Goes(h, r) /\ UNCHANGED <<guests, blamed, robbed>>
  <2>1. /\ req' \in [Threads -> Request] /\ Alone(h) /\ req'[h] = r
        /\ served' \in 0 .. MaxRequests /\ crashes' \in 0 .. MaxCrashes
    BY <1>1, <1>5, <1>7, Continued DEF bounds
  <2>2. Fit(h, r)
    BY <1>1, <1>3, <1>5 DEF Fit, SameTask, Named, Removals
  <2>4. TypeOK'
    BY <1>1, <1>7, <2>1 DEF TypeOK
  <2> QED  BY <1>1, <1>4, <1>5, <1>7, <2>1, <2>2, <2>4
<1> QED  BY <1>2, <1>6, <1>7

LEMMA HandsAreIds ==
    ASSUME TypeOK, NEW h \in Threads
    PROVE  InHand(h) \subseteq Vmids /\ WithoutClone(h) \in [Vmids -> Guest \cup {NoGuest}]
<1>1. req[h].vmid \in Vmids \cup {NoVmid} /\ guests \in [Vmids -> Guest \cup {NoGuest}]
  BY Requests DEF TypeOK, Request
<1> QED  BY <1>1 DEF InHand, WithoutClone

LEMMA WaitFacts ==
    ASSUME TypeOK, AllFit, NEW h \in Threads, Wait(h)
    PROVE  /\ TypeOK' /\ Fit(h, req'[h]) /\ Alone(h)
           /\ req[h].step = "wait" /\ SameTask(req'[h], req[h]) /\ req'[h].name = req[h].name
           /\ req'[h].step = "record"
           /\ \/ /\ req'[h].vmid = req[h].vmid /\ UNCHANGED <<guests, blamed>>
              \/ req'[h].vmid = NoVmid /\ guests' = WithoutClone(h) /\ UNCHANGED blamed
              \/ req'[h].vmid = NoVmid /\ blamed' = blamed \cup InHand(h) /\ UNCHANGED guests
           /\ UNCHANGED <<db, draft, writer, spent, robbed>>
<1> DEFINE r == [req[h] EXCEPT !.vmid = NoVmid, !.step = "record"]
           q(size) == [req[h] EXCEPT !.disk = size, !.step = "record"]
<1>1. /\ req[h].step = "wait"
      /\ UNCHANGED <<db, draft, writer, spent, robbed, served, crashes>>
  BY DEF Wait, Reads, history, bounds
<1>2. \/ (\E size \in {0, Footprint} : Goes(h, q(size))) /\ UNCHANGED <<guests, blamed>>
      \/ /\ Goes(h, r)
         /\ \/ guests' = WithoutClone(h) /\ UNCHANGED blamed
            \/ blamed' = blamed \cup InHand(h) /\ UNCHANGED guests
  BY DEF Wait
<1>3. Fit(h, req[h]) /\ req[h] \in Request
  BY Requests DEF AllFit
<1>4. /\ r \in Request /\ SameTask(r, req[h]) /\ r.step = "record" /\ r.vmid = NoVmid /\ r.name = req[h].name
      /\ r.disk = req[h].disk
  BY <1>3 DEF Request, SameTask, Steps
<1>5. ASSUME NEW size \in {0, Footprint}
      PROVE  /\ q(size) \in Request /\ SameTask(q(size), req[h]) /\ q(size).step = "record"
             /\ q(size).vmid = req[h].vmid /\ q(size).name = req[h].name /\ q(size).disk <= Footprint
  <2>1. size \in Nat /\ size <= Footprint /\ "record" \in Steps
    BY <1>5 DEF Footprint, Steps
  <2>2. q(size) \in Request
    BY <1>3, <2>1 DEF Request
  <2>3. /\ SameTask(q(size), req[h]) /\ q(size).step = "record" /\ q(size).disk = size
        /\ q(size).vmid = req[h].vmid /\ q(size).name = req[h].name
    BY <1>3 DEF Request, SameTask
  <2> QED  BY <2>1, <2>2, <2>3
<1> HIDE DEF r, q
<1>6. Fit(h, r)
  BY <1>1, <1>3, <1>4 DEF Fit, SameTask, Named, Removals
<1>7. ASSUME NEW size \in {0, Footprint} PROVE Fit(h, q(size))
  BY <1>1, <1>3, <1>5, <1>7 DEF Fit, SameTask, Named, Removals
<1>8. CASE (\E size \in {0, Footprint} : Goes(h, q(size))) /\ UNCHANGED <<guests, blamed>>
  <2>1. PICK size \in {0, Footprint} : Goes(h, q(size))
    BY <1>8
  <2>2. /\ req' \in [Threads -> Request] /\ Alone(h) /\ req'[h] = q(size)
        /\ served' \in 0 .. MaxRequests /\ crashes' \in 0 .. MaxCrashes
    BY <1>1, <1>5, <2>1, Continued DEF bounds
  <2>3. TypeOK'
    BY <1>1, <1>8, <2>2 DEF TypeOK
  <2> QED  BY <1>1, <1>5, <1>7, <1>8, <2>2, <2>3
<1>9. CASE /\ Goes(h, r)
           /\ \/ guests' = WithoutClone(h) /\ UNCHANGED blamed
              \/ blamed' = blamed \cup InHand(h) /\ UNCHANGED guests
  <2>2. /\ req' \in [Threads -> Request] /\ Alone(h) /\ req'[h] = r
        /\ served' \in 0 .. MaxRequests /\ crashes' \in 0 .. MaxCrashes
    BY <1>1, <1>4, <1>9, Continued DEF bounds
  <2>4. guests' \in [Vmids -> Guest \cup {NoGuest}] /\ blamed' \subseteq Vmids
    BY <1>9, HandsAreIds DEF TypeOK
  <2>3. TypeOK'
    BY <1>1, <2>2, <2>4 DEF TypeOK
  <2> QED  BY <1>1, <1>4, <1>6, <1>9, <2>2, <2>3
<1> QED  BY <1>2, <1>8, <1>9

LEMMA Rolled ==
    ASSUME TypeOK, NEW h \in Threads, Rollback(h)
    PROVE  /\ db' = db /\ db' \in Database /\ draft' \in Database
           /\ writer' \in Threads \cup {NoRequest}
           /\ writer = h => draft' = db /\ writer' = NoRequest
           /\ writer # h => draft' = draft /\ writer' = writer
<1> QED  BY DEF TypeOK, Rollback, Save

LEMMA ProceedFacts ==
    ASSUME TypeOK, AllFit, NEW h \in Threads, Proceeds(h),
           req[h].step \in {"record", "finish", "onboard"}
    PROVE  /\ req' \in [Threads -> Request] /\ Fit(h, req'[h]) /\ Alone(h)
           /\ req'[h] = Idle \/ (req'[h].step = "nextid" /\ SameTask(req'[h], req[h]))
<1> DEFINE r == [req[h] EXCEPT !.vmid = NoVmid, !.disk = 0, !.step = "nextid"]
<1>1. Fit(h, req[h]) /\ req[h] \in Request
  BY Requests DEF AllFit
<1>2. (req[h].kind = "newUser" /\ Goes(h, r)) \/ End(h)
  BY DEF Proceeds
<1>3. /\ r \in Request /\ SameTask(r, req[h]) /\ r.step = "nextid" /\ r.vmid = NoVmid
      /\ r.disk = 0
  BY <1>1 DEF Request, SameTask, Steps
<1> HIDE DEF r
<1>4. CASE req[h].kind = "newUser" /\ Goes(h, r)
  <2>1. Fit(h, r)
    BY <1>1, <1>3, <1>4 DEF Fit, SameTask, Named, Removals, Footprint
  <2> QED  BY <1>3, <1>4, <2>1, Going DEF TypeOK, Alone
<1>5. CASE End(h)
  BY <1>5, Ended
<1> QED  BY <1>2, <1>4, <1>5

LEMMA LoseFacts ==
    ASSUME TypeOK, AllFit, NEW h \in Threads, Loses(h), req[h].step = "record"
    PROVE  /\ req' \in [Threads -> Request] /\ Fit(h, req'[h]) /\ Alone(h) /\ Rollback(h)
           /\ req'[h] = Idle \/ (req'[h].step = "nextid" /\ SameTask(req'[h], req[h]))
           /\ blamed' = blamed \cup InHand(h) /\ blamed' \subseteq Vmids
           /\ UNCHANGED <<spent, robbed>>
<1>1. /\ Proceeds(h) /\ Rollback(h) /\ blamed' = blamed \cup InHand(h) /\ UNCHANGED <<spent, robbed>>
  BY DEF Loses
<1>2. blamed' \subseteq Vmids
  BY <1>1, HandsAreIds DEF TypeOK
<1> QED  BY <1>1, <1>2, ProceedFacts

LEMMA NameFacts ==
    ASSUME NEW r \in Request, r.name.disc = Plain
    PROVE  /\ NameFor(r) \in Names /\ NameFor(r).owner = r.name.owner
           /\ [NameFor(r) EXCEPT !.disc = Plain] = r.name
<1> DEFINE disc == IF r.vmid = NoVmid THEN Retry ELSE r.vmid
           n(d) == [r.name EXCEPT !.disc = d]
<1>1. r.name \in Names /\ r.vmid \in Vmids \cup {NoVmid}
  BY DEF Request
<1>2. NameFor(r) \in {r.name, n(disc), n(Fresh)}
  BY DEF NameFor
<1>3. disc \in Vmids \cup {Plain, Retry, Fresh}
  BY <1>1
<1> HIDE DEF disc
<1>4. ASSUME NEW d \in Vmids \cup {Plain, Retry, Fresh}
      PROVE  n(d) \in Names /\ n(d).owner = r.name.owner /\ [n(d) EXCEPT !.disc = Plain] = r.name
  BY <1>1 DEF Names
<1>5. [r.name EXCEPT !.disc = Plain] = r.name
  BY <1>1 DEF Names
<1> HIDE DEF n
<1> QED  BY <1>1, <1>2, <1>3, <1>4, <1>5

\* The row a request would insert for its server.
NewRow(r) == [state |-> "live", owner |-> r.user, name |-> NameFor(r), vmid |-> r.vmid,
              disk |-> IF r.vmid = NoVmid THEN 0 ELSE r.disk, adminModified |-> r.admin]

LEMMA RowFacts ==
    ASSUME NEW r \in Request, r.name.disc = Plain
    PROVE  /\ NewRow(r) \in Row /\ NewRow(r).state = "live" /\ NewRow(r).owner = r.user
           /\ NewRow(r).vmid = r.vmid /\ NewRow(r).disk <= r.disk /\ NewRow(r).adminModified = r.admin
           /\ NewRow(r).name.owner = r.name.owner /\ Host(NewRow(r)) = r.name
<1>1. NameFor(r) \in Names /\ NameFor(r).owner = r.name.owner /\ [NameFor(r) EXCEPT !.disc = Plain] = r.name
  BY NameFacts
<1> DEFINE disk == IF r.vmid = NoVmid THEN 0 ELSE r.disk
<1>2. disk \in Nat /\ disk <= r.disk
  BY DEF Request
<1>3. NewRow(r) = [state |-> "live", owner |-> r.user, name |-> NameFor(r), vmid |-> r.vmid,
              disk |-> disk, adminModified |-> r.admin]
  BY DEF NewRow
<1> HIDE DEF disk
<1>4. NewRow(r) \in Row
  BY <1>1, <1>2, <1>3 DEF Row, Request
<1> QED  BY <1>1, <1>2, <1>3, <1>4 DEF Host

Inserts(h, s) ==
    /\ db' = db /\ writer' = h /\ draft' \in Database
    /\ draft'.users = draft.users /\ draft'.rows = [draft.rows EXCEPT ![s] = NewRow(req[h])]
    /\ Live(draft, req[h].user)
    /\ req'[h].step = "finish" /\ SameTask(req'[h], req[h])
    /\ req'[h].name = req[h].name /\ req'[h].vmid = req[h].vmid
    /\ spent' = IF h \in robbed THEN spent \cup {s} ELSE spent \ {s}
    /\ UNCHANGED <<blamed, robbed>>

LEMMA RecordFacts ==
    ASSUME TypeOK, AllFit, NEW h \in Threads, Record(h)
    PROVE  /\ TypeOK' /\ Fit(h, req'[h]) /\ Alone(h)
           /\ req[h].step = "record" /\ CanWrite(h) /\ UNCHANGED guests
           /\ \/ \E s \in Lowest(Unused) : Inserts(h, s)
              \/ /\ Rollback(h) /\ blamed' = blamed \cup InHand(h) /\ UNCHANGED <<spent, robbed>>
                 /\ req'[h] = Idle \/ (req'[h].step = "nextid" /\ SameTask(req'[h], req[h]))
<1> DEFINE r == req[h]
           d(s) == [draft EXCEPT !.rows[s] = NewRow(r)]
<1>1. /\ r.step = "record" /\ CanWrite(h) /\ UNCHANGED <<guests, bounds>>
      /\ IF Live(draft, r.user) /\ r.template \in draft.templates
         THEN \E s \in Lowest(Unused) :
                 /\ Hold(h, d(s))
                 /\ Step(h, "finish")
                 /\ spent' = IF h \in robbed THEN spent \cup {s} ELSE spent \ {s}
                 /\ UNCHANGED <<blamed, robbed>>
         ELSE Loses(h)
  BY Zenon DEF Record, NewRow
<1>2. Fit(h, r) /\ r \in Request /\ r.name.disc = Plain
  <2>1. Fit(h, r) /\ r \in Request
    BY Requests DEF AllFit
  <2> QED  BY <1>1, <2>1 DEF Fit, Named
<1>3. served' \in 0 .. MaxRequests /\ crashes' \in 0 .. MaxCrashes
  BY <1>1 DEF TypeOK, bounds
<1>4. CASE Loses(h)
  <2>1. TypeOK'
    BY <1>1, <1>3, <1>4, LoseFacts, Rolled DEF TypeOK
  <2> QED  BY <1>1, <1>4, <2>1, LoseFacts
<1>5. ASSUME NEW s \in Lowest(Unused), Hold(h, d(s)), Step(h, "finish"),
             spent' = IF h \in robbed THEN spent \cup {s} ELSE spent \ {s},
             UNCHANGED <<blamed, robbed>>, Live(draft, r.user)
      PROVE  TypeOK' /\ Fit(h, req'[h]) /\ Alone(h) /\ Inserts(h, s)
  <2>1. /\ req' \in [Threads -> Request] /\ Alone(h) /\ req'[h].step = "finish"
        /\ SameTask(req'[h], r) /\ req'[h].name = r.name /\ req'[h].vmid = r.vmid
        /\ req'[h].disk = r.disk
    BY <1>5, Stepped DEF Steps
  <2>2. NewRow(r) \in Row /\ draft \in Database /\ s \in Servers
    BY <1>2, RowFacts DEF TypeOK, Lowest, Unused
  <2>3. /\ d(s) \in Database /\ d(s).users = draft.users
        /\ d(s).rows = [draft.rows EXCEPT ![s] = NewRow(r)]
    BY <2>2 DEF Database
  <2> HIDE DEF d
  <2>4. db' = db /\ writer' = h /\ draft' = d(s)
    BY <1>5 DEF Hold
  <2>5. Inserts(h, s)
    BY <1>5, <2>1, <2>3, <2>4 DEF Inserts
  <2>6. spent' \subseteq Servers
    BY <1>5, <2>2 DEF TypeOK
  <2>7. TypeOK'
    BY <1>1, <1>3, <1>5, <2>1, <2>3, <2>4, <2>6 DEF TypeOK
  <2>8. Fit(h, req'[h])
    BY <1>1, <1>2, <2>1 DEF Fit, SameTask, Named, Removals
  <2> QED  BY <2>1, <2>5, <2>7, <2>8
<1>6. CASE Live(draft, r.user) /\ r.template \in draft.templates
  <2>1. PICK s \in Lowest(Unused) :
                 /\ Hold(h, d(s))
                 /\ Step(h, "finish")
                 /\ spent' = IF h \in robbed THEN spent \cup {s} ELSE spent \ {s}
                 /\ UNCHANGED <<blamed, robbed>>
    BY <1>1, <1>6
  <2>2. TypeOK' /\ Fit(h, req'[h]) /\ Alone(h) /\ Inserts(h, s)
    BY <1>5, <1>6, <2>1
  <2> QED  BY <1>1, <2>2
<1> QED  BY <1>1, <1>4, <1>6

LEMMA Committed ==
    ASSUME TypeOK, NEW d \in Database, Save(d)
    PROVE  /\ db' = d /\ draft' = d /\ writer' = NoRequest
           /\ db' \in Database /\ draft' \in Database /\ writer' \in Threads \cup {NoRequest}
<1> QED  BY DEF Save

LEMMA FinishFacts ==
    ASSUME TypeOK, AllFit, NEW h \in Threads, Finish(h) \/ Onboard(h)
    PROVE  /\ TypeOK' /\ Fit(h, req'[h]) /\ Alone(h)
           /\ req[h].step \in {"finish", "onboard"}
           /\ req'[h] = Idle \/ (req'[h].step = "nextid" /\ SameTask(req'[h], req[h]))
           /\ db' = draft /\ draft' = draft /\ writer' = NoRequest
           /\ UNCHANGED <<guests, blamed, spent, robbed>>
<1>1. /\ req[h].step \in {"finish", "onboard"} /\ Save(draft) /\ Proceeds(h)
      /\ UNCHANGED <<guests, blamed, spent, robbed, served, crashes>>
  BY DEF Finish, Onboard, Commit, history, bounds
<1>2. draft \in Database
  BY DEF TypeOK
<1>3. /\ req' \in [Threads -> Request] /\ Fit(h, req'[h]) /\ Alone(h)
      /\ req'[h] = Idle \/ (req'[h].step = "nextid" /\ SameTask(req'[h], req[h]))
  BY <1>1, ProceedFacts
<1>4. TypeOK'
  BY <1>1, <1>2, <1>3, Committed DEF TypeOK
<1> QED  BY <1>1, <1>2, <1>3, <1>4, Committed

LEMMA EndFacts ==
    ASSUME TypeOK, NEW h \in Threads, End(h), UNCHANGED bounds,
           db' \in Database, draft' \in Database, writer' \in Threads \cup {NoRequest},
           guests' \in [Vmids -> Guest \cup {NoGuest}],
           blamed' \subseteq Vmids, spent' \subseteq Servers, robbed' \subseteq Threads
    PROVE  TypeOK' /\ Fit(h, req'[h]) /\ Alone(h) /\ req'[h] = Idle
<1>1. served' \in 0 .. MaxRequests /\ crashes' \in 0 .. MaxCrashes
  BY DEF TypeOK, bounds
<1> QED  BY <1>1, Ended DEF TypeOK

LEMMA ChangedAccount ==
    ASSUME NEW a \in Account, NEW c
    PROVE  /\ Changed(a, c) \in Account /\ Changed(a, c).state = a.state
           /\ c \notin {"demote", "disable"} /\ a.admin /\ a.active =>
                 Changed(a, c).admin /\ Changed(a, c).active
<1> DEFINE b == IF c \in {"demote", "promote"} THEN c = "promote" ELSE a.admin
           e == IF c \in {"disable", "enable"} THEN c = "enable" ELSE a.active
<1>1. Changed(a, c) = [a EXCEPT !.admin = b, !.active = e]
  BY DEF Changed
<1>2. b \in BOOLEAN /\ e \in BOOLEAN
  BY DEF Account
<1>3. c \notin {"demote", "disable"} /\ a.admin /\ a.active => b /\ e
  OBVIOUS
<1> HIDE DEF b, e
<1>4. Changed(a, c) \in Account /\ Changed(a, c).state = a.state /\ Changed(a, c).admin = b
      /\ Changed(a, c).active = e
  BY <1>1, <1>2 DEF Account
<1> QED  BY <1>3, <1>4

LEMMA WriteUpdateFacts ==
    ASSUME TypeOK, AllFit, NEW h \in Threads, WriteUpdate(h)
    PROVE  /\ TypeOK' /\ Fit(h, req'[h]) /\ Alone(h) /\ req'[h] = Idle
           /\ req[h].step = "write" /\ req[h].kind = "update" /\ CanWrite(h)
           /\ \/ UNCHANGED <<db, draft, writer>>
              \/ /\ draft' = db' /\ writer' = NoRequest
                 /\ Live(draft, req[h].user) /\ req[h].user \in Users
                 /\ db'.rows = draft.rows /\ db'.templates = draft.templates
                 /\ db'.users = [draft.users EXCEPT ![req[h].user] =
                                    Changed(draft.users[req[h].user], req[h].change)]
           /\ UNCHANGED <<guests, blamed, spent, robbed>>
<1> DEFINE r == req[h]
           d == [draft EXCEPT !.users[r.user] = Changed(@, r.change)]
           a == Changed(draft.users[r.user], r.change)
<1>1. /\ r.step = "write" /\ r.kind = "update" /\ CanWrite(h) /\ End(h)
      /\ IF Live(draft, r.user) THEN Save(d) ELSE Reads
      /\ UNCHANGED <<guests, blamed, spent, robbed, bounds>>
  BY Zenon DEF WriteUpdate, history
<1>2. Fit(h, r) /\ draft \in Database
  BY DEF AllFit, TypeOK
<1>3. r.user \in Users
  BY <1>1, <1>2 DEF Fit
<1>4. a \in Account
  BY <1>2, <1>3, ChangedAccount DEF Database
<1>5. d = [draft EXCEPT !.users[r.user] = a]
  OBVIOUS
<1> HIDE DEF d, a
<1>6. d \in Database /\ d.rows = draft.rows /\ d.templates = draft.templates /\ d.users = [draft.users EXCEPT ![r.user] = a]
  BY <1>2, <1>4, <1>5 DEF Database
<1>7. CASE Live(draft, r.user)
  <2>1. /\ db' = d /\ draft' = d /\ writer' = NoRequest
        /\ db' \in Database /\ draft' \in Database /\ writer' \in Threads \cup {NoRequest}
    BY <1>1, <1>6, <1>7, Committed
  <2>2. TypeOK' /\ Fit(h, req'[h]) /\ Alone(h) /\ req'[h] = Idle
    BY <1>1, <2>1, EndFacts DEF TypeOK
  <2> QED  BY <1>1, <1>3, <1>6, <1>7, <2>1, <2>2 DEF a
<1>8. CASE ~Live(draft, r.user)
  <2>1. UNCHANGED <<db, draft, writer>>
    BY <1>1, <1>8 DEF Reads
  <2>2. TypeOK' /\ Fit(h, req'[h]) /\ Alone(h) /\ req'[h] = Idle
    BY <1>1, <2>1, EndFacts DEF TypeOK
  <2> QED  BY <1>1, <2>1, <2>2
<1> QED  BY <1>7, <1>8

LEMMA TemplateFacts ==
    ASSUME TypeOK, NEW h \in Threads, NEW t \in Templates, DeleteTemplate(h, t)
    PROVE  /\ TypeOK' /\ UNCHANGED req /\ CanWrite(h) /\ req[h].step = "idle"
           /\ draft' = db' /\ writer' = NoRequest
           /\ db'.rows = draft.rows /\ db'.users = draft.users
           /\ UNCHANGED <<guests, blamed, spent, robbed>>
<1> DEFINE d == [draft EXCEPT !.templates = @ \ {t}]
<1>1. Starts(h, "deleteTemplate") /\ CanWrite(h) /\ Save(d) /\ UNCHANGED req
  BY Zenon DEF DeleteTemplate
<1>2. /\ req[h].step = "idle" /\ served < MaxRequests /\ served' = served + 1
      /\ UNCHANGED <<guests, blamed, spent, robbed, crashes>>
  BY <1>1 DEF Starts, history
<1>3. draft \in Database
  BY DEF TypeOK
<1>4. d \in Database /\ d.rows = draft.rows /\ d.users = draft.users
  BY <1>3 DEF Database
<1> HIDE DEF d
<1>5. db' = d /\ draft' = d /\ writer' = NoRequest
  BY <1>1, <1>4, Committed
<1>6. served' \in 0 .. MaxRequests
  BY <1>2, LimitsAssumption DEF TypeOK
<1> QED  BY <1>1, <1>2, <1>4, <1>5, <1>6 DEF TypeOK

\* What is left when the guest of a record is destroyed.
Gone(s) == IF db.rows[s].vmid = NoVmid THEN guests ELSE [guests EXCEPT ![db.rows[s].vmid] = NoGuest]

\* The effect of a destroy for a record, whether it succeeds or aborts its request.
Destroys(h, s) ==
    /\ s \in Lowest(req[h].todo)
    /\ \/ /\ req'[h].step = "forget" /\ SameTask(req'[h], req[h]) /\ guests' = Gone(s)
          /\ UNCHANGED <<db, draft, writer>>
       \/ req'[h] = Idle /\ Rollback(h) /\ guests' \in {guests, Gone(s)}
    /\ blamed' = {w \in blamed : guests'[w] # NoGuest}
    /\ IF guests' = guests THEN UNCHANGED <<spent, robbed>>
       ELSE /\ spent' = spent \cup
                  {i \in Servers : db.rows[s].vmid \in {db.rows[i].vmid, draft.rows[i].vmid}}
            /\ robbed' = robbed \cup {k \in Threads : req[k].vmid = db.rows[s].vmid}

LEMMA DestroyFacts ==
    ASSUME TypeOK, AllFit, NEW h \in Threads, Destroy(h)
    PROVE  /\ TypeOK' /\ Fit(h, req'[h]) /\ Alone(h)
           /\ req[h].step = "destroy"
           /\ \E s \in Servers : s \in req[h].todo /\ Destroys(h, s)
<1>1. PICK s \in Lowest(req[h].todo) :
          /\ req[h].step = "destroy"
          /\ \/ guests' = Gone(s) /\ Step(h, "forget") /\ Reads
             \/ Fail(h) /\ guests' \in {guests, Gone(s)}
          /\ blamed' = {w \in blamed : guests'[w] # NoGuest}
          /\ IF guests' = guests THEN UNCHANGED <<spent, robbed>>
             ELSE /\ spent' = spent \cup
                        {i \in Servers : db.rows[s].vmid \in {db.rows[i].vmid, draft.rows[i].vmid}}
                  /\ robbed' = robbed \cup {k \in Threads : req[k].vmid = db.rows[s].vmid}
          /\ UNCHANGED bounds
  BY DEF Destroy, Gone
<1>2. Fit(h, req[h]) /\ req[h] \in Request
  BY Requests DEF AllFit
<1>3. s \in req[h].todo /\ s \in Servers
  BY <1>1, <1>2 DEF Lowest, Request
<1>4. Gone(s) \in [Vmids -> Guest \cup {NoGuest}]
  BY DEF Gone, TypeOK
<1>5. /\ guests' \in [Vmids -> Guest \cup {NoGuest}] /\ blamed' \subseteq Vmids
      /\ spent' \subseteq Servers /\ robbed' \subseteq Threads
      /\ served' \in 0 .. MaxRequests /\ crashes' \in 0 .. MaxCrashes
  BY <1>1, <1>4 DEF TypeOK, bounds
<1>6. CASE guests' = Gone(s) /\ Step(h, "forget") /\ Reads
  <2>1. /\ req' \in [Threads -> Request] /\ Alone(h) /\ req'[h].step = "forget"
        /\ SameTask(req'[h], req[h])
    BY <1>6, Stepped DEF Steps
  <2>2. Fit(h, req'[h])
    BY <1>1, <1>2, <2>1 DEF Fit, SameTask, Named, Removals
  <2>3. TypeOK'
    BY <1>5, <1>6, <2>1 DEF TypeOK, Reads
  <2>4. Destroys(h, s)
    BY <1>1, <1>6, <2>1 DEF Destroys, Reads
  <2> QED  BY <1>1, <1>3, <2>1, <2>2, <2>3, <2>4
<1>7. CASE Fail(h) /\ guests' \in {guests, Gone(s)}
  <2>1. End(h) /\ Rollback(h)
    BY <1>7 DEF Fail
  <2>2. TypeOK' /\ Fit(h, req'[h]) /\ Alone(h) /\ req'[h] = Idle
    BY <1>1, <1>5, <2>1, EndFacts, Rolled
  <2>4. Destroys(h, s)
    BY <1>1, <1>7, <2>1, <2>2 DEF Destroys
  <2> QED  BY <1>1, <1>3, <2>2, <2>4
<1> QED  BY <1>1, <1>6, <1>7

LEMMA DeletedRowFacts ==
    ASSUME NEW row \in Row
    PROVE  /\ DeletedRow(row) \in Row /\ DeletedRow(row).state = "deleted"
           /\ DeletedRow(row).name = row.name /\ DeletedRow(row).vmid = row.vmid
           /\ DeletedRow(row).disk = 0
<1>1. UnusedRow \in Row
  BY DEF UnusedRow, Row, NoName, Names, NoVmid, Plain
<1>2. row.name \in Names /\ row.vmid \in Vmids \cup {NoVmid}
  BY DEF Row
<1>3. DeletedRow(row) \in Row
  BY <1>1, <1>2 DEF DeletedRow, Row
<1>4. /\ DeletedRow(row).state = "deleted" /\ DeletedRow(row).name = row.name
      /\ DeletedRow(row).vmid = row.vmid /\ DeletedRow(row).disk = 0
  BY DEF DeletedRow, UnusedRow
<1> QED  BY <1>3, <1>4

LEMMA ForgetFacts ==
    ASSUME TypeOK, AllFit, NEW h \in Threads, Forget(h)
    PROVE  /\ TypeOK' /\ Fit(h, req'[h]) /\ Alone(h)
           /\ req[h].step = "forget" /\ CanWrite(h)
           /\ req'[h].step \in {"destroy", "write", "commit"} /\ req'[h].kind = req[h].kind
           /\ req'[h].user = req[h].user /\ req'[h].to = req[h].to
           /\ req'[h].change = req[h].change /\ req'[h].mine = req[h].mine
           /\ req'[h].step = "commit" => req[h].kind = "remove"
           /\ db' = db /\ writer' = h /\ draft'.users = draft.users
           /\ \E s \in Lowest(req[h].todo) :
                 /\ s \in Servers /\ req'[h].todo = req[h].todo \ {s}
                 /\ \/ draft' = draft
                    \/ /\ s \in Owned(draft, req[h].user)
                       /\ draft'.rows = [draft.rows EXCEPT ![s] = DeletedRow(draft.rows[s])]
           /\ UNCHANGED <<guests, blamed, spent, robbed>>
<1> DEFINE r == req[h]
           step(s) == IF r.todo # {s} THEN "destroy"
                      ELSE IF r.kind = "deleteUser" THEN "write" ELSE "commit"
           d(s) == [draft EXCEPT !.rows[s] = DeletedRow(@)]
           y(s) == [r EXCEPT !.todo = @ \ {s}, !.step = step(s)]
<1>1. /\ r.step = "forget" /\ CanWrite(h)
      /\ \E s \in Lowest(r.todo) : /\ Hold(h, IF s \in Owned(draft, r.user) THEN d(s) ELSE draft)
                                   /\ Goes(h, y(s))
      /\ UNCHANGED <<guests, history, bounds>>
  BY Zenon DEF Forget
<1>2. UNCHANGED <<guests, blamed, spent, robbed, bounds>>
  BY <1>1 DEF history
<1>3. PICK s \in Lowest(r.todo) : /\ Hold(h, IF s \in Owned(draft, r.user) THEN d(s) ELSE draft)
                                  /\ Goes(h, y(s))
  BY <1>1
<1>4. Fit(h, r) /\ r \in Request
  BY Requests DEF AllFit
<1>5. s \in r.todo /\ s \in Servers /\ r.kind \in Removals
  BY <1>1, <1>3, <1>4 DEF Lowest, Request, Fit
<1>6. /\ step(s) \in {"destroy", "write", "commit"}
      /\ step(s) \in {"write", "commit"} => r.todo \ {s} = {}
      /\ step(s) = "write" => r.kind = "deleteUser"
      /\ step(s) = "commit" => r.kind = "remove"
  BY <1>5 DEF Removals
<1> HIDE DEF step
<1>7. y(s) \in Request
  BY <1>4, <1>6 DEF Request, Steps
<1>8. /\ y(s).step = step(s) /\ y(s).kind = r.kind /\ y(s).user = r.user /\ y(s).to = r.to
      /\ y(s).change = r.change /\ y(s).mine = r.mine /\ y(s).todo = r.todo \ {s}
  BY <1>4 DEF Request
<1> HIDE DEF y
<1>9. Fit(h, y(s))
  BY <1>1, <1>4, <1>5, <1>6, <1>8 DEF Fit, Named, Removals
<1>10. /\ req' \in [Threads -> Request] /\ Alone(h) /\ req'[h] = y(s)
       /\ served' \in 0 .. MaxRequests /\ crashes' \in 0 .. MaxCrashes
  BY <1>2, <1>3, <1>7, Continued
<1>11. draft \in Database /\ draft.rows[s] \in Row
  BY <1>5 DEF TypeOK, Database
<1>12. DeletedRow(draft.rows[s]) \in Row
  BY <1>11, DeletedRowFacts
<1>13. d(s) = [draft EXCEPT !.rows[s] = DeletedRow(draft.rows[s])]
  OBVIOUS
<1> HIDE DEF d
<1>14. /\ d(s) \in Database /\ d(s).users = draft.users
       /\ d(s).rows = [draft.rows EXCEPT ![s] = DeletedRow(draft.rows[s])]
  BY <1>11, <1>12, <1>13 DEF Database
<1>15. /\ db' = db /\ writer' = h
       /\ draft' = draft \/ (s \in Owned(draft, r.user) /\ draft' = d(s))
  BY <1>3 DEF Hold
<1>16. TypeOK'
  BY <1>2, <1>10, <1>11, <1>14, <1>15 DEF TypeOK
<1>17. draft'.users = draft.users
       /\ \/ draft' = draft
          \/ /\ s \in Owned(draft, r.user)
             /\ draft'.rows = [draft.rows EXCEPT ![s] = DeletedRow(draft.rows[s])]
  BY <1>14, <1>15
<1> QED  BY <1>1, <1>2, <1>3, <1>5, <1>6, <1>8, <1>9, <1>10, <1>15, <1>16, <1>17

\* The row of a record after its owner's account is deleted.
Inherited(row, to) == IF to # Nobody THEN [row EXCEPT !.owner = to] ELSE DeletedRow(row)

LEMMA InheritedFacts ==
    ASSUME NEW row \in Row, NEW to \in Users \cup {Nobody}
    PROVE  /\ Inherited(row, to) \in Row
           /\ Inherited(row, to).name = row.name /\ Inherited(row, to).vmid = row.vmid
           /\ Inherited(row, to).disk <= row.disk
           /\ to = Nobody => Inherited(row, to).state = "deleted"
           /\ to # Nobody => /\ Inherited(row, to).state = row.state
                             /\ Inherited(row, to).owner = to
                             /\ Inherited(row, to).adminModified = row.adminModified
<1>1. CASE to = Nobody
  BY <1>1, DeletedRowFacts DEF Inherited, Row
<1>2. CASE to # Nobody
  BY <1>2 DEF Inherited, Row
<1> QED  BY <1>1, <1>2

LEMMA WriteDeleteFacts ==
    ASSUME TypeOK, AllFit, NEW h \in Threads, WriteDelete(h)
    PROVE  /\ TypeOK' /\ Fit(h, req'[h]) /\ Alone(h)
           /\ req[h].step = "write" /\ req[h].kind = "deleteUser" /\ CanWrite(h)
           /\ req[h].user \in Users
           /\ \/ req'[h] = Idle /\ Rollback(h)
              \/ /\ req[h].to # Nobody /\ Owned(draft, req[h].user) # {} => Live(draft, req[h].to)
                 /\ req'[h].step = "commit" /\ SameTask(req'[h], req[h])
                 /\ db' = db /\ writer' = h
                 /\ draft'.users = [draft.users EXCEPT ![req[h].user] = Deleted]
                 /\ draft'.rows = [s \in Servers |->
                       IF s \in Owned(draft, req[h].user)
                       THEN Inherited(draft.rows[s], req[h].to) ELSE draft.rows[s]]
           /\ UNCHANGED <<guests, blamed, spent, robbed>>
<1> DEFINE r == req[h]
           owned == Owned(draft, r.user)
           d == [draft EXCEPT
                       !.users[r.user] = Deleted,
                       !.rows = [s \in Servers |->
                           IF s \notin owned THEN @[s]
                           ELSE IF r.to # Nobody THEN [@[s] EXCEPT !.owner = r.to]
                           ELSE DeletedRow(@[s])]]
           rows == [s \in Servers |-> IF s \in owned THEN Inherited(draft.rows[s], r.to)
                                      ELSE draft.rows[s]]
<1>1. /\ r.step = "write" /\ r.kind = "deleteUser" /\ CanWrite(h)
      /\ IF r.to # Nobody /\ owned # {} /\ ~Live(draft, r.to)
         THEN Fail(h)
         ELSE Hold(h, d) /\ Step(h, "commit")
      /\ UNCHANGED <<guests, blamed, spent, robbed, bounds>>
  BY Zenon DEF WriteDelete, history
<1>2. Fit(h, r) /\ r \in Request /\ draft \in Database
  BY Requests DEF AllFit, TypeOK
<1>3. r.user \in Users /\ r.to \in Users \cup {Nobody}
  BY <1>1, <1>2 DEF Fit, Request
<1>4. d = [draft EXCEPT !.users[r.user] = Deleted, !.rows = rows]
  BY DEF Inherited
<1>5. rows \in [Servers -> Row]
  BY <1>2, <1>3, InheritedFacts DEF Database
<1>6. Deleted \in Account
  BY DEF Deleted, Account
<1> HIDE DEF d, rows
<1>7. d \in Database /\ d.rows = rows /\ d.users = [draft.users EXCEPT ![r.user] = Deleted]
  BY <1>2, <1>4, <1>5, <1>6 DEF Database
<1>8. CASE r.to # Nobody /\ owned # {} /\ ~Live(draft, r.to)
  <2>1. End(h) /\ Rollback(h)
    BY <1>1, <1>8 DEF Fail
  <2>2. TypeOK' /\ Fit(h, req'[h]) /\ Alone(h) /\ req'[h] = Idle
    BY <1>1, <2>1, EndFacts, Rolled DEF TypeOK
  <2> QED  BY <1>1, <1>3, <2>1, <2>2
<1>9. CASE ~(r.to # Nobody /\ owned # {} /\ ~Live(draft, r.to))
  <2>1. db' = db /\ draft' = d /\ writer' = h /\ Step(h, "commit")
    BY <1>1, <1>9 DEF Hold
  <2>2. /\ req' \in [Threads -> Request] /\ Alone(h) /\ req'[h].step = "commit"
        /\ SameTask(req'[h], r)
    BY <2>1, Stepped DEF Steps
  <2>3. Fit(h, req'[h])
    BY <1>1, <1>2, <2>2 DEF Fit, SameTask, Named, Removals
  <2>4. served' \in 0 .. MaxRequests /\ crashes' \in 0 .. MaxCrashes
    BY <1>1 DEF TypeOK, bounds
  <2>5. TypeOK'
    BY <1>1, <1>7, <2>1, <2>2, <2>4 DEF TypeOK
  <2>6. draft'.rows = rows /\ draft'.users = [draft.users EXCEPT ![r.user] = Deleted]
    BY <1>7, <2>1
  <2>7. rows = [s \in Servers |-> IF s \in Owned(draft, r.user)
                                  THEN Inherited(draft.rows[s], r.to) ELSE draft.rows[s]]
    BY DEF rows
  <2> QED  BY <1>1, <1>3, <1>9, <2>1, <2>2, <2>3, <2>5, <2>6, <2>7
<1> QED  BY <1>8, <1>9

LEMMA CommitDeleteFacts ==
    ASSUME TypeOK, NEW h \in Threads, CommitDelete(h)
    PROVE  /\ TypeOK' /\ Fit(h, req'[h]) /\ Alone(h) /\ req'[h] = Idle
           /\ req[h].step = "commit"
           /\ db' = draft /\ draft' = draft /\ writer' = NoRequest
           /\ blamed' = blamed \cup ({db.rows[s].vmid :
                 s \in Rows(db) \ (Rows(draft) \cup req[h].mine \cup spent)} \ {NoVmid})
           /\ UNCHANGED <<guests, spent, robbed>>
<1>1. /\ req[h].step = "commit" /\ Save(draft) /\ End(h)
      /\ blamed' = blamed \cup ({db.rows[s].vmid :
                 s \in Rows(db) \ (Rows(draft) \cup req[h].mine \cup spent)} \ {NoVmid})
      /\ UNCHANGED <<guests, spent, robbed, bounds>>
  BY DEF CommitDelete, Commit
<1>2. draft \in Database
  BY DEF TypeOK
<1>3. /\ db' = draft /\ draft' = draft /\ writer' = NoRequest
      /\ db' \in Database /\ draft' \in Database /\ writer' \in Threads \cup {NoRequest}
  BY <1>1, <1>2, Committed
<1>4. \A s \in Rows(db) : db.rows[s].vmid \in Vmids \cup {NoVmid}
  BY DEF TypeOK, Database, Row, Rows
<1>5. blamed' \subseteq Vmids
  BY <1>1, <1>4 DEF TypeOK
<1>6. TypeOK' /\ Fit(h, req'[h]) /\ Alone(h) /\ req'[h] = Idle
  BY <1>1, <1>3, <1>5, EndFacts DEF TypeOK
<1> QED  BY <1>1, <1>3, <1>6

LEMMA ApplyFacts ==
    ASSUME TypeOK, AllFit, NEW h \in Threads, Apply(h)
    PROVE  /\ TypeOK' /\ Fit(h, req'[h]) /\ Alone(h)
           /\ req[h].step = "apply" /\ req[h].kind = "resize"
           /\ req[h].row.vmid \in Vmids /\ req[h].disk > req[h].row.disk
           /\ req[h].disk \in Nat /\ req[h].row.disk \in Nat
           /\ req'[h] = Idle \/ (req'[h].step = "write" /\ SameTask(req'[h], req[h])
                                 /\ req'[h].disk = req[h].disk /\ guests' # guests)
           /\ \/ guests' = guests
              \/ /\ guests[req[h].row.vmid] # NoGuest /\ guests' = Grown(req[h])
           /\ UNCHANGED <<db, draft, writer, blamed, spent, robbed>>
<1> DEFINE r == req[h]
           v == r.row.vmid
           grown == [guests[v] EXCEPT !.disk = @ + (r.disk - r.row.disk)]
<1>1. /\ r.step = "apply"
      /\ \/ guests[v] # NoGuest /\ guests' = Grown(r) /\ (Step(h, "write") \/ End(h))
         \/ guests' = guests /\ End(h)
      /\ UNCHANGED <<db, draft, writer, blamed, spent, robbed, bounds>>
  BY DEF Apply, Reads, history
<1>2. Fit(h, r) /\ r \in Request
  BY Requests DEF AllFit
<1>3. /\ r.kind = "resize" /\ v \in Vmids /\ r.disk > r.row.disk /\ r.disk \in Nat /\ r.row.disk \in Nat
  BY <1>1, <1>2 DEF Fit, Request, Row
<1>4. Grown(r) = [guests EXCEPT ![v] = grown]
  BY DEF Grown
<1>5. guests[v] # NoGuest => grown \in Guest /\ grown.disk = guests[v].disk + (r.disk - r.row.disk)
                             /\ guests[v].disk \in Nat
  <2>1. SUFFICES ASSUME guests[v] # NoGuest PROVE grown \in Guest /\ grown.disk = guests[v].disk + (r.disk - r.row.disk)
                             /\ guests[v].disk \in Nat
    OBVIOUS
  <2>2. guests[v] \in Guest
    BY <1>3, <2>1 DEF TypeOK
  <2>3. guests[v].disk \in Nat /\ guests[v].disk + (r.disk - r.row.disk) \in Nat
    BY <1>3, <2>2 DEF Guest
  <2> QED  BY <2>2, <2>3 DEF Guest
<1> HIDE DEF grown
<1>6. /\ guests' \in [Vmids -> Guest \cup {NoGuest}]
      /\ guests' = Grown(r) /\ guests[v] # NoGuest => guests' # guests
  <2>1. CASE guests' = guests
    <3>1. guests[v] # NoGuest => Grown(r)[v].disk # guests[v].disk
      BY <1>3, <1>4, <1>5 DEF TypeOK
    <3> QED  BY <2>1, <3>1 DEF TypeOK
  <2>2. CASE guests[v] # NoGuest /\ guests' = Grown(r)
    <3>1. guests'[v] = grown /\ guests' \in [Vmids -> Guest \cup {NoGuest}]
      BY <1>3, <1>4, <1>5, <2>2 DEF TypeOK
    <3>2. guests'[v].disk # guests[v].disk
      BY <1>3, <1>5, <2>2, <3>1
    <3> QED  BY <3>1, <3>2
  <2> QED  BY <1>1, <2>1, <2>2
<1>7. CASE Step(h, "write") /\ guests[v] # NoGuest /\ guests' = Grown(r)
  <2>1. /\ req' \in [Threads -> Request] /\ Alone(h) /\ req'[h].step = "write"
        /\ SameTask(req'[h], r) /\ req'[h].disk = r.disk
    BY <1>7, Stepped DEF Steps
  <2>2. r.todo = {}
    BY <1>2, <1>3 DEF Fit
  <2>3. Fit(h, req'[h])
    BY <1>1, <1>2, <1>3, <2>1, <2>2 DEF Fit, SameTask, Named, Removals
  <2>4. TypeOK'
    BY <1>1, <1>6, <2>1 DEF TypeOK, bounds
  <2> QED  BY <1>1, <1>3, <1>6, <1>7, <2>1, <2>3, <2>4
<1>8. CASE End(h)
  <2>1. TypeOK' /\ Fit(h, req'[h]) /\ Alone(h) /\ req'[h] = Idle
    BY <1>1, <1>6, <1>8, EndFacts DEF TypeOK
  <2> QED  BY <1>1, <1>3, <2>1
<1> QED  BY <1>1, <1>7, <1>8

\* The row of a record after its resize.
Resized(row, r) == [row EXCEPT !.disk = r.disk, !.adminModified = @ \/ r.admin]

LEMMA ResizedFacts ==
    ASSUME NEW row \in Row, NEW r \in Request
    PROVE  /\ Resized(row, r) \in Row /\ Resized(row, r).disk = r.disk
           /\ Resized(row, r).state = row.state /\ Resized(row, r).owner = row.owner
           /\ Resized(row, r).name = row.name /\ Resized(row, r).vmid = row.vmid
           /\ row.adminModified => Resized(row, r).adminModified
<1>1. row.adminModified \in BOOLEAN /\ r.admin \in BOOLEAN /\ r.disk \in Nat
  BY DEF Row, Request
<1> DEFINE b == row.adminModified \/ r.admin
<1>2. Resized(row, r) = [row EXCEPT !.disk = r.disk, !.adminModified = b]
  BY DEF Resized
<1>3. b \in BOOLEAN /\ (row.adminModified => b)
  OBVIOUS
<1> HIDE DEF b
<1>4. [row EXCEPT !.disk = r.disk, !.adminModified = b] \in Row
  BY <1>1, <1>3 DEF Row
<1>5. LET e == [row EXCEPT !.disk = r.disk, !.adminModified = b]
      IN  e.disk = r.disk /\ e.state = row.state /\ e.owner = row.owner /\ e.name = row.name
          /\ e.vmid = row.vmid /\ e.adminModified = b
  BY DEF Row
<1> QED  BY <1>2, <1>3, <1>4, <1>5

LEMMA WriteResizeFacts ==
    ASSUME TypeOK, AllFit, NEW h \in Threads, WriteResize(h)
    PROVE  /\ TypeOK' /\ Fit(h, req'[h]) /\ Alone(h) /\ req'[h] = Idle
           /\ req[h].step = "write" /\ req[h].kind = "resize" /\ CanWrite(h)
           /\ \/ UNCHANGED <<db, draft, writer>>
              \/ \E s \in req[h].mine :
                    /\ s \in Servers /\ s \in Owned(draft, req[h].user)
                    /\ draft' = db' /\ writer' = NoRequest /\ db'.users = draft.users
                    /\ db'.rows = [draft.rows EXCEPT ![s] = Resized(draft.rows[s], req[h])]
           /\ UNCHANGED <<guests, blamed, spent, robbed>>
<1> DEFINE r == req[h]
           d(s) == [draft EXCEPT !.rows[s].disk = r.disk,
                                 !.rows[s].adminModified = @ \/ r.admin]
<1>1. /\ r.step = "write" /\ r.kind = "resize" /\ CanWrite(h) /\ End(h)
      /\ \E s \in r.mine : IF s \in Owned(draft, r.user) THEN Save(d(s)) ELSE Reads
      /\ UNCHANGED <<guests, history, bounds>>
  BY Zenon DEF WriteResize
<1>2. UNCHANGED <<guests, blamed, spent, robbed, bounds>>
  BY <1>1 DEF history
<1>3. PICK s \in r.mine : IF s \in Owned(draft, r.user) THEN Save(d(s)) ELSE Reads
  BY <1>1
<1>4. r \in Request /\ draft \in Database /\ s \in Servers
  BY Requests DEF TypeOK, Request
<1>5. CASE s \in Owned(draft, r.user)
  <2>1. draft.rows[s] \in Row
    BY <1>4 DEF Database
  <2>2. Resized(draft.rows[s], r) \in Row
    BY <1>4, <2>1, ResizedFacts
  <2>3. d(s) = [draft EXCEPT !.rows = [draft.rows EXCEPT ![s] = Resized(draft.rows[s], r)]]
    BY <1>4 DEF Resized, Database
  <2> HIDE DEF d
  <2>4. /\ d(s) \in Database /\ d(s).users = draft.users
        /\ d(s).rows = [draft.rows EXCEPT ![s] = Resized(draft.rows[s], r)]
    BY <1>4, <2>2, <2>3 DEF Database
  <2>5. /\ db' = d(s) /\ draft' = d(s) /\ writer' = NoRequest
        /\ db' \in Database /\ draft' \in Database /\ writer' \in Threads \cup {NoRequest}
    BY <1>3, <1>5, <2>4, Committed
  <2>6. TypeOK' /\ Fit(h, req'[h]) /\ Alone(h) /\ req'[h] = Idle
    BY <1>1, <1>2, <2>5, EndFacts DEF TypeOK
  <2>7. /\ draft' = db' /\ db'.users = draft.users
        /\ db'.rows = [draft.rows EXCEPT ![s] = Resized(draft.rows[s], r)]
    BY <2>4, <2>5
  <2> QED  BY <1>1, <1>2, <1>3, <1>4, <1>5, <2>5, <2>6, <2>7
<1>6. CASE s \notin Owned(draft, r.user)
  <2>1. UNCHANGED <<db, draft, writer>>
    BY <1>3, <1>6 DEF Reads
  <2>2. TypeOK' /\ Fit(h, req'[h]) /\ Alone(h) /\ req'[h] = Idle
    BY <1>1, <1>2, <2>1, EndFacts DEF TypeOK
  <2> QED  BY <1>1, <1>2, <2>1, <2>2
<1> QED  BY <1>5, <1>6

LEMMA BusyFacts ==
    ASSUME TypeOK, AllFit, NEW h \in Threads, BusyTimeout(h)
    PROVE  /\ TypeOK' /\ Fit(h, req'[h]) /\ Alone(h)
           /\ req[h].step \in {"record", "write", "forget"} /\ writer # h
           /\ req'[h] = Idle \/ (req'[h].step = "nextid" /\ SameTask(req'[h], req[h]))
           /\ \/ req[h].step = "record" /\ blamed' = blamed \cup InHand(h)
              \/ req[h].step # "record" /\ blamed' = blamed
           /\ UNCHANGED <<db, draft, writer, guests, spent, robbed>>
<1>1. /\ ~CanWrite(h) /\ UNCHANGED <<guests, bounds>>
      /\ \/ req[h].step = "record" /\ Loses(h)
         \/ req[h].step \in {"write", "forget"} /\ Fail(h) /\ UNCHANGED history
  BY DEF BusyTimeout
<1>2. writer # h
  BY <1>1 DEF CanWrite
<1>3. CASE req[h].step = "record" /\ Loses(h)
  <2>1. UNCHANGED <<db, draft, writer>>
    BY <1>2, <1>3, LoseFacts DEF Rollback
  <2>2. TypeOK'
    BY <1>1, <1>3, <2>1, LoseFacts DEF TypeOK, bounds
  <2> QED  BY <1>1, <1>2, <1>3, <2>1, <2>2, LoseFacts
<1>4. CASE req[h].step \in {"write", "forget"} /\ Fail(h) /\ UNCHANGED history
  <2>1. End(h) /\ UNCHANGED <<db, draft, writer, blamed, spent, robbed>>
    BY <1>2, <1>4 DEF Fail, Rollback, history
  <2>2. TypeOK' /\ Fit(h, req'[h]) /\ Alone(h) /\ req'[h] = Idle
    BY <1>1, <2>1, EndFacts DEF TypeOK
  <2> QED  BY <1>1, <1>2, <1>4, <2>1, <2>2
<1> QED  BY <1>1, <1>3, <1>4

LEMMA CrashFacts ==
    ASSUME TypeOK, Crash
    PROVE  /\ TypeOK' /\ AllFit' /\ \A h \in Threads : req'[h] = Idle
           /\ db' = db /\ draft' = db /\ writer' = NoRequest
           /\ blamed' = blamed \cup UNION {InHand(h) : h \in Cloning} /\ robbed' = {}
           /\ UNCHANGED <<guests, spent>>
<1>1. /\ crashes < MaxCrashes /\ crashes' = crashes + 1 /\ req' = [h \in Threads |-> Idle]
      /\ db' = db /\ draft' = db /\ writer' = NoRequest
      /\ blamed' = blamed \cup UNION {InHand(h) : h \in Cloning} /\ robbed' = {}
      /\ UNCHANGED <<guests, spent, served>>
  BY DEF Crash, Save
<1>2. \A h \in Threads : InHand(h) \subseteq Vmids
  BY HandsAreIds
<1>3. blamed' \subseteq Vmids
  BY <1>1, <1>2 DEF TypeOK, Cloning
<1>4. crashes' \in 0 .. MaxCrashes
  BY <1>1, LimitsAssumption DEF TypeOK
<1>5. req' \in [Threads -> Request] /\ AllFit'
  BY <1>1, IdleFits DEF AllFit
<1> QED  BY <1>1, <1>3, <1>4, <1>5 DEF TypeOK

-----------------------------------------------------------------------------
(* Every step is one of these.                                              *)

\* A database keeps the records of another: those made stay made, under the same guest
\* and name, none grows or comes back, and none is added.
Keeps(d, e) ==
    \A s \in Servers :
        IF d.rows[s].state = "unused" THEN e.rows[s] = d.rows[s]
        ELSE /\ e.rows[s].state # "unused"
             /\ e.rows[s].vmid = d.rows[s].vmid /\ e.rows[s].name = d.rows[s].name
             /\ e.rows[s].disk <= d.rows[s].disk
             /\ e.rows[s].state = "live" => d.rows[s].state = "live"

Reading == UNCHANGED <<db, draft, writer>>
Writing(h) == CanWrite(h) /\ db' = db /\ writer' = h
Saving(h)  == CanWrite(h) /\ db' = draft' /\ writer' = NoRequest

\* A step that makes, destroys, fills and resizes nothing.
Quiet(h) ==
    /\ Alone(h)
    /\ Reading \/ Rollback(h) \/ ((Writing(h) \/ Saving(h)) /\ Keeps(draft, draft'))
    /\ UNCHANGED <<guests, spent, robbed>>
    /\ req'[h].step \notin {"wait", "record"} \/ req'[h].vmid = NoVmid

\* The write lock, and what its holder is doing.
OneWriter ==
    /\ writer = NoRequest => draft = db
    /\ \A h \in Threads : req[h].step \in Committing => writer = h
    /\ writer # NoRequest =>
          /\ req[writer].step \in Holding
          /\ req[writer].step \notin Committing => req[writer].kind \in Removals

LEMMA SameRowsKeep == ASSUME NEW d \in Database, NEW e, e.rows = d.rows PROVE Keeps(d, e)
<1> QED  BY DEF Keeps, Database, Row

LEMMA RowKeeps ==
    ASSUME NEW d \in Database, NEW e, NEW t \in Servers, NEW row \in Row, d.rows[t].state # "unused",
           row.state # "unused", row.vmid = d.rows[t].vmid, row.name = d.rows[t].name,
           row.disk <= d.rows[t].disk, row.state = "live" => d.rows[t].state = "live",
           e.rows = [d.rows EXCEPT ![t] = row]
    PROVE  Keeps(d, e)
<1>1. d.rows \in [Servers -> Row]
  BY DEF Database
<1>2. \A s \in Servers : d.rows[s].disk \in Nat
  BY <1>1 DEF Row
<1> QED  BY <1>1, <1>2 DEF Keeps

LEMMA ForgetKeeps ==
    ASSUME TypeOK, AllFit, NEW h \in Threads, Forget(h)
    PROVE  Keeps(draft, draft')
<1>1. draft \in Database
  BY DEF TypeOK
<1>2. PICK s \in Servers :
         \/ draft' = draft
         \/ /\ s \in Owned(draft, req[h].user)
            /\ draft'.rows = [draft.rows EXCEPT ![s] = DeletedRow(draft.rows[s])]
  BY ForgetFacts
<1>3. CASE draft' = draft
  BY <1>1, <1>3, SameRowsKeep
<1>4. CASE /\ s \in Owned(draft, req[h].user)
           /\ draft'.rows = [draft.rows EXCEPT ![s] = DeletedRow(draft.rows[s])]
  <2>1. draft.rows[s].state = "live" /\ draft.rows[s] \in Row /\ draft.rows[s].disk \in Nat
    BY <1>1, <1>4 DEF Owned, Rows, Database, Row
  <2>2. /\ DeletedRow(draft.rows[s]) \in Row /\ DeletedRow(draft.rows[s]).state = "deleted"
        /\ DeletedRow(draft.rows[s]).vmid = draft.rows[s].vmid
        /\ DeletedRow(draft.rows[s]).name = draft.rows[s].name
        /\ DeletedRow(draft.rows[s]).disk <= draft.rows[s].disk
    BY <2>1, DeletedRowFacts
  <2> QED  BY <1>1, <1>4, <2>1, <2>2, RowKeeps
<1> QED  BY <1>2, <1>3, <1>4

LEMMA DeleteKeeps ==
    ASSUME TypeOK, NEW u, NEW to \in Users \cup {Nobody},
           draft'.rows = [s \in Servers |->
               IF s \in Owned(draft, u) THEN Inherited(draft.rows[s], to) ELSE draft.rows[s]]
    PROVE  Keeps(draft, draft')
<1>1. \A s \in Servers : draft.rows[s] \in Row /\ draft.rows[s].disk \in Nat
  BY DEF TypeOK, Database, Row
<1>2. \A s \in Owned(draft, u) : s \in Servers /\ draft.rows[s].state = "live"
  BY DEF Owned, Rows
<1>3. \A s \in Owned(draft, u) :
         /\ Inherited(draft.rows[s], to).state # "unused"
         /\ Inherited(draft.rows[s], to).name = draft.rows[s].name
         /\ Inherited(draft.rows[s], to).vmid = draft.rows[s].vmid
         /\ Inherited(draft.rows[s], to).disk <= draft.rows[s].disk
  BY <1>1, <1>2, InheritedFacts
<1> QED  BY <1>1, <1>2, <1>3 DEF Keeps

LEMMA CommitSaves ==
    ASSUME TypeOK, OneWriter, NEW h \in Threads, req[h].step \in Committing,
           db' = draft, draft' = draft, writer' = NoRequest
    PROVE  Saving(h) /\ Keeps(draft, draft')
<1>1. writer = h
  BY DEF OneWriter
<1>2. Keeps(draft, draft')
  BY SameRowsKeep DEF TypeOK
<1> QED  BY <1>1, <1>2 DEF Saving, CanWrite

\* What a step does that is not quiet.
Loud(h) == \/ Clone(h) \/ Wait(h) \/ Destroy(h) \/ Apply(h) \/ WriteResize(h)
           \/ Record(h) /\ \E s \in Lowest(Unused) : Inserts(h, s)

\* The steps that are over before they write.
Starting(h) ==
    \/ \E u \in Users : \/ \E t \in Templates, x \in Suffixes : BeginCreate(h, u, t, x)
                        \/ \E c \in Changes : BeginUpdate(h, u, c)
                        \/ \E to \in Users \cup {Nobody} : BeginDeleteUser(h, u, to)
    \/ \E s \in Servers : \/ BeginRemove(h, s)
                          \/ \E size \in 1 .. MaxDisk : BeginResize(h, s, size)
    \/ CheckQuota(h) \/ TakeId(h) \/ SkipTemplate(h)

LEMMA StartingIsQuiet ==
    ASSUME TypeOK, AllFit, NEW h \in Threads, Starting(h)
    PROVE  /\ TypeOK' /\ Fit(h, req'[h]) /\ Quiet(h) /\ Reading /\ UNCHANGED blamed
           /\ req[h].step \in {"idle", "quota", "nextid"} /\ req'[h].step \notin Committing
<1>1. CASE \E u \in Users, t \in Templates, x \in Suffixes : BeginCreate(h, u, t, x)
  BY <1>1, CreateFacts DEF Quiet, Reading, Committing
<1>2. CASE \E u \in Users, c \in Changes : BeginUpdate(h, u, c)
  BY <1>2, UpdateFacts DEF Quiet, Reading, Committing
<1>3. CASE \E u \in Users, to \in Users \cup {Nobody} : BeginDeleteUser(h, u, to)
  BY <1>3, DeleteFacts DEF Quiet, Reading, Committing
<1>4. CASE \E s \in Servers : BeginRemove(h, s)
  BY <1>4, RemoveFacts DEF Quiet, Reading, Committing
<1>5. CASE \E s \in Servers, size \in 1 .. MaxDisk : BeginResize(h, s, size)
  BY <1>5, ResizeFacts DEF Quiet, Reading, Committing
<1>6. CASE CheckQuota(h)
  BY <1>6, QuotaFacts, IdleFields DEF Quiet, Reading, Committing
<1>7. CASE TakeId(h)
  BY <1>7, TakeFacts DEF Quiet, Reading, Committing
<1>8. CASE SkipTemplate(h)
  BY <1>8, SkipFacts, IdleFields DEF Quiet, Reading, Committing
<1> QED  BY <1>1, <1>2, <1>3, <1>4, <1>5, <1>6, <1>7, <1>8 DEF Starting

\* What a step does to the database, when it neither only starts nor is loud.
Working(h) ==
    \/ \E u \in Users : Joins(h, u)
    \/ \E t \in Templates : DeleteTemplate(h, t)
    \/ Record(h) \/ Finish(h) \/ Onboard(h) \/ WriteUpdate(h) \/ Forget(h) \/ WriteDelete(h)
    \/ CommitDelete(h) \/ BusyTimeout(h)

LEMMA WorkingIsQuiet ==
    ASSUME TypeOK, AllFit, OneWriter, NEW h \in Threads, Working(h)
    PROVE  /\ TypeOK' /\ Fit(h, req'[h])
           /\ Quiet(h) \/ (Record(h) /\ \E s \in Lowest(Unused) : Inserts(h, s))
<1>0. draft \in Database
  BY DEF TypeOK
<1>1. CASE \E u \in Users : Joins(h, u)
  <2>1. PICK u \in Users : Joins(h, u)
    BY <1>1
  <2>2. /\ TypeOK' /\ Fit(h, req'[h]) /\ Alone(h) /\ req'[h].step = "onboard"
        /\ CanWrite(h) /\ writer' = h /\ db' = db /\ draft'.rows = draft.rows
        /\ UNCHANGED <<guests, spent, robbed>>
    BY <2>1, NewUserFacts
  <2>3. Keeps(draft, draft')
    BY <1>0, <2>2, SameRowsKeep
  <2> QED  BY <2>2, <2>3 DEF Quiet, Writing
<1>2. CASE \E t \in Templates : DeleteTemplate(h, t)
  <2>1. PICK t \in Templates : DeleteTemplate(h, t)
    BY <1>2
  <2>2. Keeps(draft, draft')
    BY <1>0, <2>1, TemplateFacts, SameRowsKeep
  <2> QED  BY <2>1, <2>2, TemplateFacts DEF Quiet, Saving, Alone, AllFit
<1>3. CASE Record(h)
  BY <1>3, RecordFacts, IdleFields DEF Quiet
<1>4. CASE Finish(h) \/ Onboard(h)
  <2>1. Saving(h) /\ Keeps(draft, draft')
    BY <1>4, FinishFacts, CommitSaves DEF Committing
  <2> QED  BY <1>4, <2>1, FinishFacts, IdleFields DEF Quiet
<1>5. CASE WriteUpdate(h)
  <2>1. Reading \/ (Saving(h) /\ Keeps(draft, draft'))
    BY <1>0, <1>5, WriteUpdateFacts, SameRowsKeep DEF Saving, Reading
  <2> QED  BY <1>5, <2>1, WriteUpdateFacts, IdleFields DEF Quiet
<1>6. CASE Forget(h)
  BY <1>6, ForgetFacts, ForgetKeeps DEF Quiet, Writing
<1>7. CASE WriteDelete(h)
  <2>1. req[h].to \in Users \cup {Nobody}
    BY Requests DEF Request
  <2>2. Rollback(h) \/ (Writing(h) /\ Keeps(draft, draft'))
    BY <1>7, <2>1, WriteDeleteFacts, DeleteKeeps DEF Writing
  <2> QED  BY <1>7, <2>2, WriteDeleteFacts, IdleFields DEF Quiet
<1>8. CASE CommitDelete(h)
  <2>1. Saving(h) /\ Keeps(draft, draft')
    BY <1>8, CommitDeleteFacts, CommitSaves DEF Committing
  <2> QED  BY <1>8, <2>1, CommitDeleteFacts, IdleFields DEF Quiet
<1>9. CASE BusyTimeout(h)
  BY <1>9, BusyFacts, IdleFields DEF Quiet, Reading
<1> QED  BY <1>1, <1>2, <1>3, <1>4, <1>5, <1>6, <1>7, <1>8, <1>9 DEF Working

LEMMA LoudFacts ==
    ASSUME TypeOK, AllFit, NEW h \in Threads, Loud(h)
    PROVE  TypeOK' /\ Fit(h, req'[h]) /\ Alone(h)
<1> QED  BY CloneFacts, WaitFacts, DestroyFacts, ApplyFacts, WriteResizeFacts, RecordFacts DEF Loud

LEMMA Steps0 ==
    ASSUME Next
    PROVE  Crash \/ \E h \in Threads : Starting(h) \/ Working(h) \/ Loud(h)
<1>1. CASE Crash
  BY <1>1
<1>2. ASSUME NEW h \in Threads,
          \/ \E u \in Users : \/ \E t \in Templates, x \in Suffixes : BeginCreate(h, u, t, x)
                              \/ \E a \in BOOLEAN, ts \in SUBSET Templates :
                                    BeginNewUser(h, u, a, ts)
                              \/ \E c \in Changes : BeginUpdate(h, u, c)
                              \/ \E to \in Users \cup {Nobody} : BeginDeleteUser(h, u, to)
          \/ \E s \in Servers : \/ BeginRemove(h, s)
                                \/ \E size \in 1 .. MaxDisk : BeginResize(h, s, size)
          \/ \E t \in Templates : DeleteTemplate(h, t)
          \/ CheckQuota(h) \/ TakeId(h) \/ SkipTemplate(h) \/ Clone(h) \/ Wait(h)
          \/ Record(h) \/ Finish(h) \/ Onboard(h)
          \/ WriteUpdate(h) \/ Destroy(h) \/ Forget(h) \/ WriteDelete(h) \/ CommitDelete(h)
          \/ Apply(h) \/ WriteResize(h) \/ BusyTimeout(h)
      PROVE  Starting(h) \/ Working(h) \/ Loud(h)
  BY <1>2, Zenon DEF Starting, Working, Loud, Joins
<1> QED  BY <1>1, <1>2, Zenon DEF Next

-----------------------------------------------------------------------------
(* Types and shape.                                                         *)

Made(d) == {s \in Servers : d.rows[s].state # "unused"}

\* A committed record stays a record, of the same guest and name, in what the writer has.
RowsKept ==
    \A s \in Servers :
        /\ s \notin Made(db) => db.rows[s] = UnusedRow
        /\ s \notin Made(draft) => draft.rows[s] = UnusedRow
        /\ s \in Made(db) => /\ s \in Made(draft)
                             /\ draft.rows[s].vmid = db.rows[s].vmid
                             /\ draft.rows[s].name = db.rows[s].name

\* The records a request listed were committed, and a resize knows the guest of its own.
Listed ==
    \A h \in Threads : \A s \in req[h].mine :
        /\ s \in Made(db)
        /\ req[h].kind = "resize" => /\ req[h].row.vmid = db.rows[s].vmid
                                     /\ req[h].row.name = db.rows[s].name

Shape == TypeOK /\ AllFit /\ OneWriter /\ RowsKept /\ Listed

LEMMA OthersFit ==
    ASSUME AllFit, NEW h \in Threads, Alone(h), Fit(h, req'[h])
    PROVE  AllFit'
<1>1. ASSUME NEW k \in Threads PROVE Fit(k, req'[k])
  BY DEF AllFit, Alone
<1> QED  BY <1>1 DEF AllFit

\* A holder of the lock, seen from the step of another.
LEMMA LockKept ==
    ASSUME OneWriter, NEW h \in Threads, Alone(h), Reading, writer # h,
           req'[h].step \notin Committing, writer \in Threads \cup {NoRequest}
    PROVE  OneWriter'
<1> QED  BY DEF OneWriter, Alone, Reading

LEMMA LockFreed ==
    ASSUME OneWriter, NEW h \in Threads, Alone(h), writer \in {NoRequest, h},
           req'[h].step \notin Committing, writer' = NoRequest, draft' = db'
    PROVE  OneWriter'
<1>1. \A k \in Threads : k # h => req'[k].step \notin Committing
  BY Apart0 DEF OneWriter, Alone
<1> QED  BY <1>1, Apart0 DEF OneWriter

LEMMA LockHeld ==
    ASSUME OneWriter, NEW h \in Threads, Alone(h), CanWrite(h), writer' = h,
           req'[h].step \in Holding,
           req'[h].step \notin Committing => req'[h].kind \in Removals
    PROVE  OneWriter'
<1>1. \A k \in Threads : k # h => req'[k].step \notin Committing
  BY Apart0 DEF OneWriter, Alone, CanWrite
<1> QED  BY <1>1, Apart0 DEF OneWriter

LEMMA LockRolled ==
    ASSUME TypeOK, OneWriter, NEW h \in Threads, Alone(h), Rollback(h), req'[h].step \notin Committing
    PROVE  OneWriter'
<1>1. CASE writer = h
  BY <1>1, Rolled, LockFreed
<1>2. CASE writer # h
  <2>1. Reading /\ writer \in Threads \cup {NoRequest}
    BY <1>2, Rolled DEF Reading, TypeOK
  <2> QED  BY <1>2, <2>1, LockKept
<1> QED  BY <1>1, <1>2

LEMMA LockStep ==
    ASSUME Shape, NEW h \in Threads, Starting(h) \/ Working(h) \/ Loud(h)
    PROVE  OneWriter'
<1>0. /\ TypeOK /\ AllFit /\ OneWriter /\ writer \in Threads \cup {NoRequest}
      /\ writer = h => req[h].step \in Holding /\ (req[h].step \notin Committing => req[h].kind \in Removals)
      /\ req[h].step \in Committing => writer = h
  BY Apart0 DEF Shape, TypeOK, OneWriter
<1> USE DEF Committing, Holding, Removals
<1>1. CASE Starting(h)
  BY <1>0, <1>1, StartingIsQuiet, LockKept DEF Quiet
<1>2. CASE \E u \in Users : Joins(h, u)
  <2>2. PICK u \in Users : Joins(h, u)
    BY <1>2
  <2>1. Alone(h) /\ CanWrite(h) /\ writer' = h /\ req'[h].step = "onboard"
    BY <1>0, <2>2, NewUserFacts
  <2> QED  BY <1>0, <2>1, LockHeld
<1>3. CASE \E t \in Templates : DeleteTemplate(h, t)
  <2>1. /\ UNCHANGED req /\ CanWrite(h) /\ req[h].step = "idle" /\ draft' = db' /\ writer' = NoRequest
    BY <1>0, <1>3, TemplateFacts
  <2>2. Alone(h) /\ writer \in {NoRequest, h} /\ req'[h].step \notin Committing
    BY <2>1 DEF Alone, CanWrite
  <2> QED  BY <1>0, <2>1, <2>2, LockFreed
<1>4. CASE Record(h)
  <2>1. /\ Alone(h) /\ CanWrite(h) /\ req[h].step = "record"
        /\ \/ writer' = h /\ req'[h].step = "finish"
           \/ Rollback(h) /\ req'[h].step \in {"idle", "nextid"}
    BY <1>0, <1>4, RecordFacts, IdleFields DEF Inserts
  <2> QED  BY <1>0, <2>1, LockHeld, LockRolled
<1>5. CASE Finish(h) \/ Onboard(h) \/ CommitDelete(h)
  <2>1. /\ Alone(h) /\ req[h].step \in Committing /\ req'[h].step \in {"idle", "nextid"}
        /\ db' = draft /\ draft' = draft /\ writer' = NoRequest
    BY <1>0, <1>5, FinishFacts, CommitDeleteFacts, IdleFields
  <2> QED  BY <1>0, <2>1, LockFreed
<1>6. CASE WriteUpdate(h)
  <2>1. /\ Alone(h) /\ CanWrite(h) /\ req[h].step = "write" /\ req[h].kind = "update"
        /\ req'[h].step = "idle"
        /\ Reading \/ (draft' = db' /\ writer' = NoRequest)
    BY <1>0, <1>6, WriteUpdateFacts, IdleFields DEF Reading
  <2> QED  BY <1>0, <2>1, LockKept, LockFreed DEF CanWrite
<1>7. CASE Forget(h)
  <2>1. /\ Alone(h) /\ CanWrite(h) /\ req[h].step = "forget" /\ writer' = h
        /\ req'[h].step \in {"destroy", "write", "commit"} /\ req'[h].kind = req[h].kind
    BY <1>0, <1>7, ForgetFacts
  <2>2. req[h].kind \in Removals
    BY <1>0, <2>1 DEF AllFit, Fit
  <2> QED  BY <1>0, <2>1, <2>2, LockHeld
<1>8. CASE WriteDelete(h)
  <2>1. /\ Alone(h) /\ CanWrite(h)
        /\ \/ writer' = h /\ req'[h].step = "commit"
           \/ Rollback(h) /\ req'[h].step = "idle"
    BY <1>0, <1>8, WriteDeleteFacts, IdleFields
  <2> QED  BY <1>0, <2>1, LockHeld, LockRolled
<1>9. CASE BusyTimeout(h)
  <2>1. Alone(h) /\ writer # h /\ Reading /\ req'[h].step \in {"idle", "nextid"}
    BY <1>0, <1>9, BusyFacts, IdleFields DEF Reading
  <2> QED  BY <1>0, <2>1, LockKept
<1>10. CASE Clone(h) \/ Wait(h)
  <2>1. Alone(h) /\ Reading /\ req[h].step \in {"clone", "wait"} /\ req'[h].step \in {"wait", "record"}
    BY <1>0, <1>10, CloneFacts, WaitFacts DEF Reading
  <2> QED  BY <1>0, <2>1, LockKept
<1>11. CASE Destroy(h)
  <2>1. /\ Alone(h) /\ req[h].step = "destroy"
        /\ \/ Reading /\ req'[h].step = "forget" /\ req'[h].kind = req[h].kind
           \/ Rollback(h) /\ req'[h].step = "idle"
    BY <1>0, <1>11, DestroyFacts, IdleFields DEF Reading, Destroys, SameTask
  <2>2. CASE Reading /\ req'[h].step = "forget" /\ req'[h].kind = req[h].kind
    <3>1. CASE writer = h
      BY <1>0, <2>1, <2>2, <3>1, LockHeld DEF Reading, CanWrite
    <3>2. CASE writer # h
      BY <1>0, <2>1, <2>2, <3>2, LockKept
    <3> QED  BY <3>1, <3>2
  <2> QED  BY <1>0, <2>1, <2>2, LockRolled
<1>12. CASE Apply(h)
  <2>1. Alone(h) /\ Reading /\ req[h].step = "apply" /\ req'[h].step \in {"idle", "write"}
    BY <1>0, <1>12, ApplyFacts, IdleFields DEF Reading
  <2> QED  BY <1>0, <2>1, LockKept
<1>13. CASE WriteResize(h)
  <2>1. /\ Alone(h) /\ CanWrite(h) /\ req[h].step = "write" /\ req[h].kind = "resize"
        /\ req'[h].step = "idle"
        /\ Reading \/ (draft' = db' /\ writer' = NoRequest)
    BY <1>0, <1>13, WriteResizeFacts, IdleFields DEF Reading
  <2> QED  BY <1>0, <2>1, LockKept, LockFreed DEF CanWrite
<1> QED  BY <1>1, <1>2, <1>3, <1>4, <1>5, <1>6, <1>7, <1>8, <1>9, <1>10, <1>11, <1>12, <1>13
         DEF Working, Loud

\* What both a write that keeps the records and a resize do to them.
Carries(d, e) ==
    \A s \in Servers :
        IF d.rows[s].state = "unused" THEN e.rows[s] = d.rows[s]
        ELSE /\ e.rows[s].state # "unused"
             /\ e.rows[s].vmid = d.rows[s].vmid /\ e.rows[s].name = d.rows[s].name

\* No committed record vanishes or changes its guest or its name.
DbGrows ==
    \A s \in Made(db) : /\ s \in Made(db)'
                        /\ db'.rows[s].vmid = db.rows[s].vmid
                        /\ db'.rows[s].name = db.rows[s].name

LEMMA KeepsCarries == ASSUME NEW d, NEW e, Keeps(d, e) PROVE Carries(d, e)
<1> QED  BY DEF Keeps, Carries

LEMMA CarriedRows ==
    ASSUME RowsKept, Carries(draft, draft'), db' = db \/ db' = draft'
    PROVE  RowsKept' /\ DbGrows
<1> QED  BY DEF RowsKept, Carries, DbGrows, Made

LEMMA ReadRows == ASSUME RowsKept, db' = db, draft' \in {db, draft} PROVE RowsKept' /\ DbGrows
<1> QED  BY DEF RowsKept, DbGrows, Made

LEMMA InsertRows ==
    ASSUME TypeOK, AllFit, RowsKept, NEW h \in Threads, NEW s \in Lowest(Unused), Inserts(h, s), req[h].step = "record"
    PROVE  /\ RowsKept' /\ DbGrows /\ s \in Servers /\ s \notin Made(draft) /\ s \notin Made(db)
           /\ Made(draft)' = Made(draft) \cup {s}
           /\ draft'.rows[s] = NewRow(req[h])
           /\ \A t \in Made(draft) : draft'.rows[t] = draft.rows[t]
<1>1. s \in Servers /\ draft.rows[s].state = "unused"
  BY DEF Lowest, Unused
<1>2. draft.rows \in [Servers -> Row]
  BY DEF TypeOK, Database
<1>3. req[h].name.disc = Plain /\ req[h] \in Request
  BY Requests DEF AllFit, Fit, Named
<1>4. NewRow(req[h]).state = "live"
  BY <1>3, RowFacts
<1>5. db' = db /\ draft'.rows = [draft.rows EXCEPT ![s] = NewRow(req[h])]
  BY DEF Inserts
<1>6. s \notin Made(draft) /\ s \notin Made(db)
  BY <1>1 DEF RowsKept, Made
<1>7. draft'.rows[s] = NewRow(req[h]) /\ \A t \in Servers : t # s => draft'.rows[t] = draft.rows[t]
  BY <1>1, <1>2, <1>5
<1>8. Made(draft)' = Made(draft) \cup {s}
  BY <1>1, <1>4, <1>7 DEF Made
<1>9. RowsKept' /\ DbGrows
  BY <1>4, <1>5, <1>6, <1>7, <1>8 DEF RowsKept, DbGrows, Made
<1> QED  BY <1>1, <1>6, <1>7, <1>8, <1>9 DEF Made

LEMMA ResizeCarries ==
    ASSUME TypeOK, NEW r \in Request, NEW s \in Servers, draft.rows[s].state # "unused",
           draft'.rows = [draft.rows EXCEPT ![s] = Resized(draft.rows[s], r)]
    PROVE  Carries(draft, draft')
<1>1. draft.rows \in [Servers -> Row]
  BY DEF TypeOK, Database
<1>2. LET e == Resized(draft.rows[s], r)
      IN e.state = draft.rows[s].state /\ e.vmid = draft.rows[s].vmid /\ e.name = draft.rows[s].name
  BY <1>1, ResizedFacts
<1> QED  BY <1>1, <1>2 DEF Carries

LEMMA RowsStep ==
    ASSUME Shape, NEW h \in Threads, Quiet(h) \/ Loud(h)
    PROVE  RowsKept' /\ DbGrows
<1>0. TypeOK /\ AllFit /\ RowsKept
  BY DEF Shape
<1>1. ASSUME Rollback(h) PROVE RowsKept' /\ DbGrows
  BY <1>0, <1>1, Rolled, ReadRows
<1>2. ASSUME Reading PROVE RowsKept' /\ DbGrows
  BY <1>0, <1>2, ReadRows DEF Reading
<1>3. CASE Quiet(h)
  <2>1. Reading \/ Rollback(h) \/ ((Writing(h) \/ Saving(h)) /\ Keeps(draft, draft'))
    BY <1>3 DEF Quiet
  <2>2. ASSUME Writing(h) \/ Saving(h), Keeps(draft, draft') PROVE RowsKept' /\ DbGrows
    <3>1. Carries(draft, draft') /\ (db' = db \/ db' = draft')
      BY <2>2, KeepsCarries DEF Writing, Saving
    <3> QED  BY <1>0, <3>1, CarriedRows
  <2> QED  BY <1>1, <1>2, <2>1, <2>2
<1>4. CASE Clone(h) \/ Wait(h) \/ Apply(h)
  <2>1. Reading
    BY <1>0, <1>4, CloneFacts, WaitFacts, ApplyFacts DEF Reading
  <2> QED  BY <1>2, <2>1
<1>5. CASE Destroy(h)
  <2>1. Reading \/ Rollback(h)
    BY <1>0, <1>5, DestroyFacts DEF Reading, Destroys
  <2> QED  BY <1>1, <1>2, <2>1
<1>6. CASE WriteResize(h)
  <2>1. Reading \/ \E s \in Servers :
                    /\ s \in Owned(draft, req[h].user) /\ draft' = db'
                    /\ db'.rows = [draft.rows EXCEPT ![s] = Resized(draft.rows[s], req[h])]
    BY <1>0, <1>6, WriteResizeFacts DEF Reading
  <2>2. ASSUME NEW s \in Servers, s \in Owned(draft, req[h].user), draft' = db',
               db'.rows = [draft.rows EXCEPT ![s] = Resized(draft.rows[s], req[h])]
        PROVE  RowsKept' /\ DbGrows
    <3>1. draft.rows[s].state # "unused"
      BY <2>2 DEF Owned, Rows
    <3>2. Carries(draft, draft')
      BY <1>0, <2>2, <3>1, Requests, ResizeCarries
    <3> QED  BY <1>0, <2>2, <3>2, CarriedRows
  <2> QED  BY <1>2, <2>1, <2>2
<1>7. CASE Record(h) /\ \E s \in Lowest(Unused) : Inserts(h, s)
  <2>1. req[h].step = "record"
    BY <1>0, <1>7, RecordFacts
  <2> QED  BY <1>0, <1>7, <2>1, InsertRows
<1> QED  BY <1>3, <1>4, <1>5, <1>6, <1>7 DEF Loud

\* Lists survive: of the thread that steps, and of the others.
ListsOn(h) == /\ req'[h].mine \subseteq req[h].mine
              /\ req'[h].kind = "resize" => req[h].kind = "resize" /\ req'[h].row = req[h].row

LEMMA ListedStep ==
    ASSUME Shape, NEW h \in Threads, Alone(h), DbGrows,
           \/ ListsOn(h)
           \/ \A s \in req'[h].mine :
                 /\ s \in Made(db)
                 /\ req'[h].kind = "resize" => /\ req'[h].row.vmid = db.rows[s].vmid
                                               /\ req'[h].row.name = db.rows[s].name
    PROVE  Listed'
<1>1. Listed
  BY DEF Shape
<1>2. ASSUME NEW k \in Threads, NEW s \in req'[k].mine
      PROVE  /\ s \in Made(db)
             /\ req'[k].kind = "resize" => /\ req'[k].row.vmid = db.rows[s].vmid
                                           /\ req'[k].row.name = db.rows[s].name
  BY <1>1 DEF Listed, Alone, ListsOn
<1> QED  BY <1>2 DEF Listed, DbGrows

LEMMA SameTaskLists == ASSUME NEW h \in Threads, SameTask(req'[h], req[h]) \/ req'[h] = Idle
                       PROVE  ListsOn(h)
<1> QED  BY IdleFields DEF SameTask, ListsOn

LEMMA OwnedAreMade == ASSUME NEW d, NEW u PROVE Owned(d, u) \subseteq Made(d) /\ Rows(d) \subseteq Made(d)
<1> QED  BY DEF Owned, Rows, Made

LEMMA ListsStep ==
    ASSUME Shape, NEW h \in Threads, Starting(h) \/ Working(h) \/ Loud(h), DbGrows, Alone(h)
    PROVE  Listed'
<1>0. TypeOK /\ AllFit /\ OneWriter
  BY DEF Shape
<1>1. CASE \E u \in Users, t \in Templates, x \in Suffixes : BeginCreate(h, u, t, x)
  <2>1. req'[h].mine = {}
    BY <1>0, <1>1, CreateFacts
  <2> QED  BY <2>1, ListedStep
<1>2. CASE \E u \in Users, c \in Changes : BeginUpdate(h, u, c)
  <2>1. req'[h].mine = {}
    BY <1>0, <1>2, UpdateFacts
  <2> QED  BY <2>1, ListedStep
<1>3. CASE \E u \in Users, to \in Users \cup {Nobody} : BeginDeleteUser(h, u, to)
  <2>1. req'[h].mine \subseteq Made(db) /\ req'[h].kind = "deleteUser"
    BY <1>0, <1>3, DeleteFacts, OwnedAreMade
  <2> QED  BY <2>1, ListedStep
<1>4. CASE \E s \in Servers : BeginRemove(h, s)
  <2>1. req'[h].mine \subseteq Made(db) /\ req'[h].kind = "remove"
    BY <1>0, <1>4, RemoveFacts, OwnedAreMade
  <2> QED  BY <2>1, ListedStep
<1>5. CASE \E s \in Servers, size \in 1 .. MaxDisk : BeginResize(h, s, size)
  <2>1. PICK s \in Servers, size \in 1 .. MaxDisk : BeginResize(h, s, size)
    BY <1>5
  <2>2. s \in Made(db) /\ req'[h].mine = {s} /\ req'[h].row = db.rows[s]
    BY <1>0, <2>1, ResizeFacts, OwnedAreMade
  <2> QED  BY <2>2, ListedStep
<1>6. CASE CheckQuota(h) \/ TakeId(h) \/ SkipTemplate(h)
  <2>1. ListsOn(h)
    BY <1>0, <1>6, QuotaFacts, TakeFacts, SkipFacts, SameTaskLists
  <2> QED  BY <2>1, ListedStep
<1>7. CASE \E u \in Users : Joins(h, u)
  <2>1. req'[h].mine = {}
    BY <1>0, <1>7, NewUserFacts
  <2> QED  BY <2>1, ListedStep
<1>8. CASE \E t \in Templates : DeleteTemplate(h, t)
  <2>1. ListsOn(h)
    BY <1>0, <1>8, TemplateFacts DEF ListsOn
  <2> QED  BY <2>1, ListedStep
<1>9. CASE Record(h)
  <2>1. ListsOn(h)
    BY <1>0, <1>9, RecordFacts, SameTaskLists DEF Inserts
  <2> QED  BY <2>1, ListedStep
<1>10. CASE Forget(h)
  <2>1. req'[h].kind = req[h].kind /\ req'[h].mine = req[h].mine /\ req[h].step = "forget"
    BY <1>0, <1>10, ForgetFacts
  <2>2. req[h].kind # "resize"
    BY <1>0, <2>1 DEF AllFit, Fit, Removals
  <2>3. ListsOn(h)
    BY <2>1, <2>2 DEF ListsOn
  <2> QED  BY <2>3, ListedStep
<1>11. CASE Finish(h) \/ Onboard(h) \/ WriteUpdate(h) \/ WriteDelete(h) \/ CommitDelete(h) \/ BusyTimeout(h)
  <2>1. ListsOn(h)
    BY <1>0, <1>11, FinishFacts, WriteUpdateFacts, WriteDeleteFacts, CommitDeleteFacts, BusyFacts,
       SameTaskLists
  <2> QED  BY <2>1, ListedStep
<1>12. CASE Loud(h)
  <2>1. ListsOn(h)
    BY <1>0, <1>12, CloneFacts, WaitFacts, DestroyFacts, ApplyFacts, WriteResizeFacts, RecordFacts,
       SameTaskLists DEF Loud, Destroys, Inserts
  <2> QED  BY <2>1, ListedStep
<1> QED  BY <1>1, <1>2, <1>3, <1>4, <1>5, <1>6, <1>7, <1>8, <1>9, <1>10, <1>11, <1>12
         DEF Starting, Working

LEMMA StepFacts ==
    ASSUME TypeOK, AllFit, OneWriter, NEW h \in Threads, Starting(h) \/ Working(h) \/ Loud(h)
    PROVE  TypeOK' /\ AllFit' /\ Alone(h) /\ (Quiet(h) \/ Loud(h))
<1>1. TypeOK' /\ Fit(h, req'[h]) /\ (Quiet(h) \/ Loud(h))
  BY StartingIsQuiet, WorkingIsQuiet, LoudFacts DEF Loud
<1>2. Alone(h)
  BY <1>1, LoudFacts DEF Quiet
<1> QED  BY <1>1, <1>2, OthersFit

LEMMA CrashShape == ASSUME Shape, Crash PROVE Shape'
<1>0. TypeOK /\ RowsKept
  BY DEF Shape
<1>1. /\ TypeOK' /\ AllFit' /\ \A h \in Threads : req'[h] = Idle
      /\ db' = db /\ draft' = db /\ writer' = NoRequest
  BY <1>0, CrashFacts
<1>2. OneWriter'
  BY <1>1, IdleFields DEF OneWriter, Committing
<1>3. RowsKept'
  BY <1>0, <1>1 DEF RowsKept, Made
<1>4. Listed'
  BY <1>1, IdleFields DEF Listed
<1> QED  BY <1>1, <1>2, <1>3, <1>4 DEF Shape

LEMMA ShapeInit == ASSUME Init PROVE Shape
<1>1. /\ db \in [users : {[u \in Users |->
                    [state |-> IF u \in Born THEN "live" ELSE "unborn",
                     admin |-> u \in Admins, active |-> u \in Born]] : Born \in SUBSET Users},
               rows : {[s \in Servers |-> UnusedRow]}, templates : {Templates}]
      /\ draft = db /\ writer = NoRequest
      /\ guests = [v \in Vmids |-> NoGuest] /\ req = [h \in Threads |-> Idle]
      /\ blamed = {} /\ spent = {} /\ robbed = {} /\ served = 0 /\ crashes = 0
  BY DEF Init
<1>2. db.users \in [Users -> Account] /\ db.rows = [s \in Servers |-> UnusedRow] /\ db.templates = Templates
      /\ db = [users |-> db.users, rows |-> db.rows, templates |-> db.templates]
  <2>1. PICK Born \in SUBSET Users : db.users =
              [u \in Users |-> [state |-> IF u \in Born THEN "live" ELSE "unborn",
                                admin |-> u \in Admins, active |-> u \in Born]]
    BY <1>1
  <2>2. ASSUME NEW u \in Users
        PROVE  [state |-> IF u \in Born THEN "live" ELSE "unborn",
                admin |-> u \in Admins, active |-> u \in Born] \in Account
    BY DEF Account
  <2>3. db.users \in [Users -> Account]
    BY <2>1, <2>2
  <2> QED  BY <1>1, <2>3
<1>3. UnusedRow \in Row
  BY DEF UnusedRow, Row, NoName, Names, NoVmid, Plain
<1>4. db \in Database
  BY <1>2, <1>3 DEF Database
<1>5. req \in [Threads -> Request] /\ AllFit
  BY <1>1, IdleFits DEF AllFit
<1>6. served \in 0 .. MaxRequests /\ crashes \in 0 .. MaxCrashes
  BY <1>1, LimitsAssumption
<1>7. TypeOK
  BY <1>1, <1>4, <1>5, <1>6 DEF TypeOK
<1>8. OneWriter
  BY <1>1, IdleFields DEF OneWriter, Committing
<1>9. Made(db) = {}
  BY <1>2 DEF Made, UnusedRow
<1>10. RowsKept
  BY <1>1, <1>2, <1>9 DEF RowsKept, Made
<1>11. Listed
  BY <1>1, IdleFields DEF Listed
<1> QED  BY <1>5, <1>7, <1>8, <1>10, <1>11 DEF Shape

LEMMA ShapeStep == ASSUME Shape, [Next]_vars PROVE Shape'
<1>0. TypeOK /\ AllFit /\ OneWriter
  BY DEF Shape
<1>1. CASE UNCHANGED vars
  BY <1>1 DEF Shape, TypeOK, AllFit, OneWriter, RowsKept, Listed, Made, vars, history, bounds
<1>2. CASE Crash
  BY <1>2, CrashShape
<1>3. ASSUME NEW h \in Threads, Starting(h) \/ Working(h) \/ Loud(h) PROVE Shape'
  <2>1. TypeOK' /\ AllFit' /\ Alone(h) /\ (Quiet(h) \/ Loud(h))
    BY <1>0, <1>3, StepFacts
  <2>2. RowsKept' /\ DbGrows
    BY <2>1, RowsStep
  <2>3. OneWriter'
    BY <1>3, LockStep
  <2>4. Listed'
    BY <1>3, <2>1, <2>2, ListsStep
  <2> QED  BY <2>1, <2>2, <2>3, <2>4 DEF Shape
<1> QED  BY <1>1, <1>2, <1>3, Steps0

\* Every variable keeps its type, through every interleaving of requests, failures
\* and crashes: an insert, a deletion and a resize leave records, and a clone and a
\* resize leave guests.
THEOREM Typed == Spec => []TypeOK
<1>1. Init => Shape
  BY ShapeInit
<1>2. Shape /\ [Next]_vars => Shape'
  BY ShapeStep
<1>3. Shape => TypeOK
  BY DEF Shape
<1> QED  BY <1>1, <1>2, <1>3, PTL DEF Spec

LEMMA ShapeHolds == Spec => []Shape
<1> QED  BY ShapeInit, ShapeStep, PTL DEF Spec

-----------------------------------------------------------------------------
(* Records are true of their guests.                                        *)

\* Under its id a record finds the guest it was made for, with at least its disk.
SoundIn(g, row) ==
    row.vmid # NoVmid => /\ g[row.vmid] # NoGuest /\ g[row.vmid].host = Host(row)
                         /\ row.disk <= g[row.vmid].disk
AllSound(d) == \A s \in Made(d) \ spent : SoundIn(guests, d.rows[s])

\* The requests that have a guest and no record yet, and the records that have a guest.
HasClone == {h \in Threads \ robbed : req[h].step \in {"wait", "record"} /\ req[h].vmid # NoVmid}
WithGuest(d) == {s \in Made(d) \ spent : d.rows[s].vmid # NoVmid}

Alive ==
    /\ \A v \in Vmids : guests[v] # NoGuest => Footprint <= guests[v].disk
    /\ AllSound(db) /\ AllSound(draft)
    /\ \A h \in HasClone : /\ guests[req[h].vmid] # NoGuest
                           /\ guests[req[h].vmid].host = req[h].name

\* No two of them have the same guest.
Distinct ==
    /\ \A s, t \in WithGuest(draft) : draft.rows[s].vmid = draft.rows[t].vmid => s = t
    /\ \A h, k \in HasClone : req[h].vmid = req[k].vmid => h = k
    /\ \A h \in HasClone, s \in WithGuest(draft) : req[h].vmid # draft.rows[s].vmid

\* The guest of a record under resize has the disk the request read, then the one it asked for.
Covered ==
    \A h \in Threads : req[h].kind = "resize" =>
        \A s \in req[h].mine \ spent :
            (IF req[h].step = "apply" THEN req[h].row.disk ELSE req[h].disk)
                <= guests[req[h].row.vmid].disk

Truth == Alive /\ Distinct /\ Covered

LEMMA Sizes ==
    ASSUME TypeOK
    PROVE  /\ \A v \in Vmids : guests[v].disk \in Nat
           /\ \A s \in Servers : /\ db.rows[s] \in Row /\ draft.rows[s] \in Row
                                 /\ db.rows[s].disk \in Nat /\ draft.rows[s].disk \in Nat
                                 /\ db.rows[s].vmid \in Vmids \cup {NoVmid}
                                 /\ draft.rows[s].vmid \in Vmids \cup {NoVmid}
           /\ \A h \in Threads : /\ req[h].disk \in Nat /\ req[h].row.disk \in Nat
                                 /\ req[h].vmid \in Vmids \cup {NoVmid}
                                 /\ req[h].mine \subseteq Servers
<1>1. guests \in [Vmids -> Guest \cup {NoGuest}] /\ db \in Database /\ draft \in Database
  BY DEF TypeOK
<1>2. \A v \in Vmids : guests[v].disk \in Nat
  BY <1>1 DEF Guest, NoGuest
<1>3. \A s \in Servers : db.rows[s] \in Row /\ draft.rows[s] \in Row
  BY <1>1 DEF Database
<1>4. \A row \in Row : row.disk \in Nat /\ row.vmid \in Vmids \cup {NoVmid}
  BY DEF Row
<1>5. \A h \in Threads : /\ req[h].disk \in Nat /\ req[h].row \in Row
                         /\ req[h].vmid \in Vmids \cup {NoVmid} /\ req[h].mine \subseteq Servers
  BY Requests DEF Request
<1> QED  BY <1>2, <1>3, <1>4, <1>5

\* Every record in one database is in another, of the same guest and name and no larger.
Descends(e, d) ==
    \A s \in Made(e) : /\ s \in Made(d) /\ e.rows[s].vmid = d.rows[s].vmid
                       /\ e.rows[s].name = d.rows[s].name /\ e.rows[s].disk <= d.rows[s].disk

LEMMA QuietDescends ==
    ASSUME Shape, NEW h \in Threads, Reading \/ Rollback(h) \/ ((Writing(h) \/ Saving(h)) /\ Keeps(draft, draft'))
    PROVE  /\ Descends(draft', draft) \/ Descends(draft', db)
           /\ Descends(db', draft) \/ Descends(db', db)
<1>0. TypeOK
  BY DEF Shape
<1>1. Descends(draft, draft) /\ Descends(db, db)
  BY <1>0, Sizes DEF Descends, Made
<1>2. Keeps(draft, draft') => Descends(draft', draft)
  BY DEF Keeps, Descends, Made
<1>3. Rollback(h) => db' = db /\ draft' \in {db, draft}
  BY <1>0, Rolled
<1> QED  BY <1>1, <1>2, <1>3 DEF Reading, Writing, Saving

\* Databases that descend from these are sound, and have their guests apart.
LEMMA DescendedSound ==
    ASSUME Shape, AllSound(db), AllSound(draft), NEW e, Descends(e, draft) \/ Descends(e, db),
           e.rows \in [Servers -> Row]
    PROVE  AllSound(e)
<1>1. ASSUME NEW d \in {db, draft}, Descends(e, d), NEW s \in Made(e) \ spent
      PROVE  SoundIn(guests, e.rows[s])
  <2>1. s \in Made(d) \ spent /\ s \in Servers
    BY <1>1 DEF Descends, Made
  <2>2. SoundIn(guests, d.rows[s])
    BY <2>1 DEF AllSound
  <2>3. /\ e.rows[s].vmid = d.rows[s].vmid /\ e.rows[s].name = d.rows[s].name
        /\ e.rows[s].disk <= d.rows[s].disk
    BY <1>1, <2>1 DEF Descends
  <2>4. /\ e.rows[s].disk \in Nat /\ d.rows[s].disk \in Nat
        /\ d.rows[s].vmid \in Vmids \cup {NoVmid}
    BY <2>1, Sizes DEF Shape, Row
  <2>5. d.rows[s].vmid # NoVmid => guests[d.rows[s].vmid].disk \in Nat
    BY <2>4, Sizes DEF Shape
  <2> QED  BY <2>2, <2>3, <2>4, <2>5 DEF SoundIn, Host
<1> QED  BY <1>1 DEF AllSound

LEMMA DbIsWithin ==
    ASSUME RowsKept
    PROVE  /\ WithGuest(db) \subseteq WithGuest(draft)
           /\ \A s \in WithGuest(db) : db.rows[s].vmid = draft.rows[s].vmid
<1> QED  BY DEF RowsKept, WithGuest, Made

LEMMA DescendedDistinct ==
    ASSUME RowsKept, Distinct, NEW e, Descends(e, draft) \/ Descends(e, db)
    PROVE  /\ \A s, t \in WithGuest(e) : e.rows[s].vmid = e.rows[t].vmid => s = t
           /\ \A h \in HasClone, s \in WithGuest(e) : req[h].vmid # e.rows[s].vmid
<1>1. \A s \in WithGuest(e) : s \in WithGuest(draft) /\ e.rows[s].vmid = draft.rows[s].vmid
  BY DbIsWithin DEF WithGuest, Descends
<1> QED  BY <1>1 DEF Distinct

\* No step shrinks the guest of a committed record it does not empty.
GuestsKept ==
    \A s \in Made(db) \ spent' :
        /\ s \notin spent
        /\ db.rows[s].vmid # NoVmid => guests[db.rows[s].vmid].disk <= guests'[db.rows[s].vmid].disk

LEMMA SameGuests == ASSUME TypeOK, guests' = guests, spent' = spent PROVE GuestsKept
<1>1. \A s \in Made(db) : db.rows[s].vmid # NoVmid => guests[db.rows[s].vmid].disk \in Nat
  BY Sizes DEF Made
<1> QED  BY <1>1 DEF GuestsKept

LEMMA TypedNext == ASSUME TypeOK' PROVE db'.rows \in [Servers -> Row] /\ draft'.rows \in [Servers -> Row]
<1> QED  BY DEF TypeOK, Database

\* Where guests, and what was spent, stay, and the databases descend, all stays true
\* if no clone is added.
LEMMA DescendedTruth ==
    ASSUME Shape, Truth, TypeOK', UNCHANGED <<guests, spent>>, HasClone' \subseteq HasClone,
           \A k \in HasClone' : req'[k].vmid = req[k].vmid /\ req'[k].name = req[k].name,
           Descends(draft', draft) \/ Descends(draft', db),
           Descends(db', draft) \/ Descends(db', db)
    PROVE  Alive' /\ Distinct' /\ GuestsKept
<1>0. Alive /\ Distinct /\ RowsKept /\ TypeOK
  BY DEF Truth, Shape
<1>1. AllSound(db') /\ AllSound(draft')
  BY <1>0, TypedNext, DescendedSound DEF Alive
<1>2. AllSound(db)' /\ AllSound(draft)'
  BY <1>1 DEF AllSound, Made
<1>3. Alive'
  BY <1>0, <1>2 DEF Alive
<1>4. /\ \A s, t \in WithGuest(draft') : draft'.rows[s].vmid = draft'.rows[t].vmid => s = t
      /\ \A h \in HasClone, s \in WithGuest(draft') : req[h].vmid # draft'.rows[s].vmid
  BY <1>0, DescendedDistinct
<1>5. WithGuest(draft)' = WithGuest(draft')
  BY DEF WithGuest, Made
<1>6. Distinct'
  BY <1>0, <1>4, <1>5 DEF Distinct
<1> QED  BY <1>0, <1>3, <1>6, SameGuests

LEMMA QuietTruth ==
    ASSUME Shape, Truth, NEW h \in Threads, Quiet(h), TypeOK'
    PROVE  Alive' /\ Distinct' /\ GuestsKept
<1>1. /\ HasClone' \subseteq HasClone
      /\ \A k \in HasClone' : req'[k].vmid = req[k].vmid /\ req'[k].name = req[k].name
  BY DEF Quiet, Alone, HasClone
<1>2. /\ Descends(draft', draft) \/ Descends(draft', db)
      /\ Descends(db', draft) \/ Descends(db', db)
      /\ UNCHANGED <<guests, spent>>
  BY QuietDescends DEF Quiet
<1> QED  BY <1>1, <1>2, DescendedTruth

LEMMA CrashTruth == ASSUME Shape, Truth, Crash PROVE Truth'
<1>0. TypeOK
  BY DEF Shape
<1>1. /\ TypeOK' /\ \A h \in Threads : req'[h] = Idle
      /\ db' = db /\ draft' = db /\ UNCHANGED <<guests, spent>>
  BY <1>0, CrashFacts
<1>2. HasClone' = {}
  BY <1>1, IdleFields DEF HasClone
<1>3. Descends(db, db)
  BY <1>0, Sizes DEF Descends, Made
<1>4. Alive' /\ Distinct'
  BY <1>1, <1>2, <1>3, DescendedTruth
<1>5. Covered'
  BY <1>1, IdleFields DEF Covered
<1> QED  BY <1>4, <1>5 DEF Truth

LEMMA ReadDescends ==
    ASSUME Shape, NEW h \in Threads, Reading \/ Rollback(h)
    PROVE  /\ Descends(draft', draft) \/ Descends(draft', db)
           /\ Descends(db', draft) \/ Descends(db', db)
<1> QED  BY QuietDescends

LEMMA CloneTruth ==
    ASSUME Shape, Truth, NEW h \in Threads, Clone(h)
    PROVE  Alive' /\ Distinct' /\ GuestsKept
<1>0. TypeOK /\ AllFit /\ Alive /\ Distinct
  BY DEF Shape, Truth
<1> DEFINE v == req[h].vmid
<1>1. /\ TypeOK' /\ Alone(h) /\ req[h].step = "clone" /\ v \in Vmids
      /\ req'[h].name = req[h].name
      /\ \/ /\ guests[v] = NoGuest
            /\ guests' = [guests EXCEPT ![v] = [host |-> req[h].name, disk |-> Footprint]]
            /\ robbed' = robbed \ {h}
            /\ req'[h].step = "wait" /\ req'[h].vmid = v
         \/ req'[h].step = "record" /\ req'[h].vmid = NoVmid /\ UNCHANGED <<guests, robbed>>
      /\ UNCHANGED <<db, draft, spent>>
  BY <1>0, CloneFacts
<1>2. CASE req'[h].vmid = NoVmid /\ UNCHANGED <<guests, robbed>>
  <2>1. /\ HasClone' \subseteq HasClone
        /\ \A k \in HasClone' : req'[k].vmid = req[k].vmid /\ req'[k].name = req[k].name
    BY <1>1, <1>2 DEF Alone, HasClone
  <2>2. Descends(draft, draft) /\ Descends(db, db)
    BY <1>0, Sizes DEF Descends, Made
  <2> QED  BY <1>1, <1>2, <2>1, <2>2, DescendedTruth
<1>3. CASE /\ guests[v] = NoGuest
           /\ guests' = [guests EXCEPT ![v] = [host |-> req[h].name, disk |-> Footprint]]
           /\ robbed' = robbed \ {h} /\ req'[h].step = "wait" /\ req'[h].vmid = v
  <2>0. guests \in [Vmids -> Guest \cup {NoGuest}] /\ NoGuest # [host |-> req[h].name, disk |-> Footprint]
        /\ v # NoVmid
    <3>1. NoGuest.disk # Footprint
      BY DEF NoGuest, Footprint
    <3> QED  BY <1>0, <1>1, <3>1, Apart0 DEF TypeOK
  <2>1. /\ \A w \in Vmids : w # v => guests'[w] = guests[w]
        /\ guests'[v] # NoGuest /\ guests'[v].host = req[h].name /\ guests'[v].disk = Footprint
    BY <1>1, <1>3, <2>0
  <2>2. ASSUME NEW d \in {db, draft}, NEW s \in Made(d) \ spent, d.rows[s].vmid # NoVmid
        PROVE  /\ d.rows[s].vmid \in Vmids /\ d.rows[s].vmid # v
               /\ guests'[d.rows[s].vmid] = guests[d.rows[s].vmid]
               /\ SoundIn(guests', d.rows[s])
    <3>1. SoundIn(guests, d.rows[s]) /\ d.rows[s].vmid \in Vmids
      BY <1>0, <2>2, Sizes DEF Alive, AllSound, Made
    <3> QED  BY <1>3, <2>1, <2>2, <3>1 DEF SoundIn
  <2>3. AllSound(db)' /\ AllSound(draft)'
    BY <1>1, <2>2 DEF AllSound, Made, SoundIn
  <2>4. \A k \in HasClone : req[k].vmid \in Vmids /\ req[k].vmid # v
                            /\ guests'[req[k].vmid] = guests[req[k].vmid]
    BY <1>0, <1>3, <2>1, Sizes DEF Alive, HasClone
  <2>5. \A k \in HasClone' : (k # h => k \in HasClone /\ req'[k] = req[k])
    BY <1>1, <1>3 DEF HasClone, Alone
  <2>6. \A k \in HasClone' : /\ guests'[req'[k].vmid] # NoGuest
                             /\ guests'[req'[k].vmid].host = req'[k].name
    BY <1>0, <1>1, <1>3, <2>1, <2>4, <2>5 DEF Alive
  <2>7. \A w \in Vmids : guests'[w] # NoGuest => Footprint <= guests'[w].disk
    BY <1>0, <1>1, <2>1 DEF Alive, Footprint
  <2>8. Alive'
    BY <2>3, <2>6, <2>7 DEF Alive
  <2>9. WithGuest(draft)' = WithGuest(draft) /\ \A s \in WithGuest(draft) : draft.rows[s].vmid # v
    BY <1>1, <2>2 DEF WithGuest, Made
  <2>10. Distinct'
    BY <1>0, <1>1, <1>3, <2>4, <2>5, <2>9 DEF Distinct
  <2>11. GuestsKept
    BY <1>0, <1>1, <2>2, Sizes DEF GuestsKept, Made
  <2> QED  BY <2>8, <2>10, <2>11
<1> QED  BY <1>1, <1>2, <1>3

\* A guest that no record and no other clone has is taken away.
LEMMA RemovalTruth ==
    ASSUME Shape, Truth, TypeOK', NEW v \in Vmids, guests' = [guests EXCEPT ![v] = NoGuest],
           spent \subseteq spent', 
           \A d \in {db, draft} : \A s \in Made(d) \ spent' : d.rows[s].vmid # v,
           HasClone' \subseteq HasClone,
           \A k \in HasClone' : /\ req'[k].vmid = req[k].vmid /\ req'[k].name = req[k].name
                                /\ req[k].vmid # v,
           db' \in {db, draft}, draft' \in {db, draft}
    PROVE  Alive' /\ Distinct' /\ GuestsKept
<1>0. TypeOK /\ Alive /\ Distinct /\ RowsKept /\ guests \in [Vmids -> Guest \cup {NoGuest}]
  BY DEF Shape, Truth, TypeOK
<1>1. guests'[v] = NoGuest /\ \A w \in Vmids : w # v => guests'[w] = guests[w]
  BY <1>0
<1>2. ASSUME NEW d \in {db, draft}, NEW s \in Made(d) \ spent'
      PROVE  SoundIn(guests', d.rows[s])
  <2>1. d.rows[s].vmid # NoVmid => d.rows[s].vmid \in Vmids /\ d.rows[s].vmid # v
    BY <1>0, <1>2, Sizes DEF Made
  <2>2. SoundIn(guests, d.rows[s])
    BY <1>0, <1>2 DEF Alive, AllSound
  <2> QED  BY <1>1, <2>1, <2>2 DEF SoundIn
<1>3. AllSound(db)' /\ AllSound(draft)'
  BY <1>2 DEF AllSound, Made, SoundIn
<1>4. \A k \in HasClone' : /\ k \in HasClone /\ req[k].vmid \in Vmids
                           /\ guests'[req[k].vmid] = guests[req[k].vmid]
  BY <1>0, <1>1, Sizes DEF HasClone
<1>5. \A k \in HasClone' : /\ guests'[req'[k].vmid] # NoGuest
                           /\ guests'[req'[k].vmid].host = req'[k].name
  BY <1>0, <1>4 DEF Alive
<1>6. \A w \in Vmids : guests'[w] # NoGuest => Footprint <= guests'[w].disk
  BY <1>0, <1>1 DEF Alive
<1>7. Alive'
  BY <1>3, <1>5, <1>6 DEF Alive
<1>8. \A s \in WithGuest(draft)' : s \in WithGuest(draft) /\ draft'.rows[s].vmid = draft.rows[s].vmid
  BY <1>0, DbIsWithin DEF WithGuest, Made
<1>9. Distinct'
  BY <1>0, <1>4, <1>8 DEF Distinct
<1>10. GuestsKept
  BY <1>0, <1>1, Sizes DEF GuestsKept, Made
<1> QED  BY <1>7, <1>9, <1>10

LEMMA WaitTruth ==
    ASSUME Shape, Truth, NEW h \in Threads, Wait(h)
    PROVE  Alive' /\ Distinct' /\ GuestsKept
<1>0. TypeOK /\ AllFit /\ Alive /\ Distinct /\ RowsKept
  BY DEF Shape, Truth
<1>1. /\ TypeOK' /\ Alone(h) /\ req[h].step = "wait" /\ req'[h].name = req[h].name
      /\ req'[h].step = "record"
      /\ \/ req'[h].vmid = req[h].vmid /\ guests' = guests
         \/ req'[h].vmid = NoVmid /\ guests' = WithoutClone(h)
         \/ req'[h].vmid = NoVmid /\ guests' = guests
      /\ UNCHANGED <<db, draft, spent, robbed>>
  BY <1>0, WaitFacts
<1>2. /\ HasClone' \subseteq HasClone
      /\ \A k \in HasClone' : req'[k].vmid = req[k].vmid /\ req'[k].name = req[k].name
  BY <1>1 DEF Alone, HasClone
<1>3. CASE guests' = guests
  <2>1. Descends(draft, draft) /\ Descends(db, db)
    BY <1>0, Sizes DEF Descends, Made
  <2> QED  BY <1>1, <1>2, <1>3, <2>1, DescendedTruth
<1>4. CASE req'[h].vmid = NoVmid /\ guests' = WithoutClone(h) /\ h \notin robbed
  <2>1. req[h].vmid \in Vmids
    BY <1>0, <1>1 DEF AllFit, Fit
  <2>2. h \in HasClone
    BY <1>1, <1>4, <2>1, Apart0 DEF HasClone
  <2>3. guests' = [guests EXCEPT ![req[h].vmid] = NoGuest]
    BY <1>4 DEF WithoutClone
  <2>4. ASSUME NEW d \in {db, draft}, NEW s \in Made(d) \ spent PROVE d.rows[s].vmid # req[h].vmid
    <3>1. CASE d.rows[s].vmid = NoVmid
      BY <2>1, <3>1, Apart0
    <3>2. CASE d.rows[s].vmid # NoVmid
      BY <1>0, <2>2, <2>4, <3>2, DbIsWithin DEF Distinct, WithGuest
    <3> QED  BY <3>1, <3>2
  <2>5. \A k \in HasClone' : req[k].vmid # req[h].vmid
    BY <1>0, <1>1, <1>2, <1>4, <2>2 DEF Distinct, HasClone
  <2> QED  BY <1>1, <1>2, <2>1, <2>3, <2>4, <2>5, RemovalTruth
<1> QED  BY <1>1, <1>3, <1>4 DEF WithoutClone

LEMMA DestroyTruth ==
    ASSUME Shape, Truth, NEW h \in Threads, Destroy(h)
    PROVE  Alive' /\ Distinct' /\ GuestsKept
<1>0. TypeOK /\ AllFit /\ Alive /\ Distinct /\ RowsKept
  BY DEF Shape, Truth
<1>1. TypeOK' /\ Alone(h) /\ req[h].step = "destroy"
  BY <1>0, DestroyFacts
<1>2. PICK s \in Servers : s \in req[h].todo /\ Destroys(h, s)
  BY <1>0, DestroyFacts
<1> DEFINE v == db.rows[s].vmid
<1>3. /\ Reading \/ Rollback(h)
      /\ req'[h].step \in {"forget", "idle"}
      /\ guests' \in {guests, Gone(s)}
      /\ IF guests' = guests THEN UNCHANGED <<spent, robbed>>
         ELSE /\ spent' = spent \cup {i \in Servers : v \in {db.rows[i].vmid, draft.rows[i].vmid}}
              /\ robbed' = robbed \cup {k \in Threads : req[k].vmid = v}
  BY <1>2, IdleFields DEF Destroys, Reading
<1>4. db' \in {db, draft} /\ draft' \in {db, draft}
  BY <1>0, <1>3, Rolled DEF Reading
<1>5. /\ HasClone' \subseteq HasClone
      /\ \A k \in HasClone' : req'[k].vmid = req[k].vmid /\ req'[k].name = req[k].name
  BY <1>1, <1>3 DEF Alone, HasClone
<1>6. CASE guests' = guests
  BY <1>1, <1>3, <1>5, <1>6, ReadDescends, DescendedTruth
<1>7. CASE guests' # guests
  <2>1. v # NoVmid /\ v \in Vmids /\ guests' = [guests EXCEPT ![v] = NoGuest]
    BY <1>0, <1>3, <1>7, Sizes DEF Gone
  <2>2. \A d \in {db, draft} : \A i \in Made(d) \ spent' : d.rows[i].vmid # v
    BY <1>3, <1>7 DEF Made
  <2>3. \A k \in HasClone' : req[k].vmid # v
    BY <1>3, <1>7 DEF HasClone
  <2>4. spent \subseteq spent'
    BY <1>3, <1>7
  <2> QED  BY <1>1, <1>4, <1>5, <2>1, <2>2, <2>3, <2>4, RemovalTruth
<1> QED  BY <1>6, <1>7

LEMMA InsertTruth ==
    ASSUME Shape, Truth, NEW h \in Threads, Record(h), NEW s \in Lowest(Unused), Inserts(h, s)
    PROVE  Alive' /\ Distinct' /\ GuestsKept
<1>0. TypeOK /\ AllFit /\ Alive /\ Distinct /\ RowsKept
  BY DEF Shape, Truth
<1>1. TypeOK' /\ Alone(h) /\ req[h].step = "record" /\ guests' = guests
  BY <1>0, RecordFacts
<1>2. /\ db' = db /\ req'[h].step = "finish" /\ robbed' = robbed
      /\ spent' = IF h \in robbed THEN spent \cup {s} ELSE spent \ {s}
  BY DEF Inserts
<1>3. /\ s \in Servers /\ s \notin Made(draft) /\ s \notin Made(db)
      /\ Made(draft)' = Made(draft) \cup {s} /\ draft'.rows[s] = NewRow(req[h])
      /\ \A t \in Made(draft) : draft'.rows[t] = draft.rows[t]
  BY <1>0, <1>1, InsertRows
<1>4. /\ req[h] \in Request /\ req[h].name.disc = Plain /\ req[h].disk <= Footprint /\ req[h].disk \in Nat
  <2>1. Fit(h, req[h]) /\ req[h] \in Request
    BY <1>0, Requests DEF AllFit
  <2> QED  BY <1>1, <2>1 DEF Fit, Named, Request
<1>5. /\ NewRow(req[h]).vmid = req[h].vmid /\ NewRow(req[h]).disk <= req[h].disk
      /\ NewRow(req[h]).disk \in Nat /\ Host(NewRow(req[h])) = req[h].name
  BY <1>4, RowFacts DEF Row
<1>6. /\ \A t \in Made(db) : t \in spent' <=> t \in spent
      /\ \A t \in Made(draft) : t \in spent' <=> t \in spent
      /\ s \notin spent' => h \notin robbed
  BY <1>2, <1>3
<1>7. AllSound(db)'
  BY <1>0, <1>1, <1>2, <1>6 DEF Alive, AllSound, Made, SoundIn
<1>8. s \notin spent' => SoundIn(guests', draft'.rows[s])
  <2>1. SUFFICES ASSUME s \notin spent', req[h].vmid # NoVmid
                 PROVE  /\ guests[req[h].vmid] # NoGuest /\ guests[req[h].vmid].host = req[h].name
                        /\ NewRow(req[h]).disk <= guests[req[h].vmid].disk
    BY <1>1, <1>3, <1>5 DEF SoundIn
  <2>2. h \in HasClone /\ req[h].vmid \in Vmids
    BY <1>0, <1>1, <1>6, <2>1, Sizes DEF HasClone
  <2>3. /\ guests[req[h].vmid] # NoGuest /\ guests[req[h].vmid].host = req[h].name
        /\ Footprint <= guests[req[h].vmid].disk /\ guests[req[h].vmid].disk \in Nat
    BY <1>0, <2>2, Sizes DEF Alive
  <2> QED  BY <1>4, <1>5, <2>3 DEF Footprint
<1>9. ASSUME NEW t \in Made(draft)', t \notin spent' PROVE SoundIn(guests', draft'.rows[t])
  <2>1. CASE t = s
    BY <1>8, <1>9, <2>1
  <2>2. CASE t # s
    BY <1>0, <1>1, <1>3, <1>6, <1>9, <2>2 DEF Alive, AllSound
  <2> QED  BY <2>1, <2>2
<1>10. AllSound(draft)'
  BY <1>9 DEF AllSound, Made, SoundIn
<1>11. HasClone' = HasClone \ {h} /\ \A k \in HasClone' : req'[k] = req[k]
  BY <1>1, <1>2 DEF HasClone, Alone
<1>12. Alive'
  BY <1>0, <1>1, <1>7, <1>10, <1>11 DEF Alive
<1>13. \A t \in WithGuest(draft)' : /\ t = s => h \in HasClone /\ draft'.rows[t].vmid = req[h].vmid
                                    /\ t # s => /\ t \in WithGuest(draft)
                                                /\ draft'.rows[t].vmid = draft.rows[t].vmid
  BY <1>1, <1>3, <1>5, <1>6 DEF WithGuest, Made, HasClone
<1>14. Distinct'
  BY <1>0, <1>11, <1>13 DEF Distinct
<1>15. GuestsKept
  BY <1>0, <1>1, <1>6, Sizes DEF GuestsKept, Made
<1> QED  BY <1>12, <1>14, <1>15

LEMMA GrownFacts ==
    ASSUME TypeOK, NEW r, r.row.vmid \in Vmids, r.disk \in Nat, r.row.disk \in Nat,
           r.disk > r.row.disk, guests[r.row.vmid] # NoGuest
    PROVE  /\ Grown(r)[r.row.vmid] # NoGuest
           /\ Grown(r)[r.row.vmid].host = guests[r.row.vmid].host
           /\ Grown(r)[r.row.vmid].disk = guests[r.row.vmid].disk + (r.disk - r.row.disk)
           /\ guests[r.row.vmid].disk <= Grown(r)[r.row.vmid].disk
           /\ \A w \in Vmids : w # r.row.vmid => Grown(r)[w] = guests[w]
<1> DEFINE v == r.row.vmid
           e == [guests[v] EXCEPT !.disk = @ + (r.disk - r.row.disk)]
<1>1. guests \in [Vmids -> Guest \cup {NoGuest}] /\ guests[v] \in Guest /\ guests[v].disk \in Nat
  BY DEF TypeOK, Guest
<1>2. e.disk = guests[v].disk + (r.disk - r.row.disk) /\ e.host = guests[v].host
  BY <1>1 DEF Guest
<1>3. Grown(r) = [guests EXCEPT ![v] = e]
  BY DEF Grown
<1> HIDE DEF e
<1>4. Grown(r)[v] = e /\ \A w \in Vmids : w # v => Grown(r)[w] = guests[w]
  BY <1>1, <1>3
<1>5. e.disk > 0 /\ guests[v].disk <= e.disk
  BY <1>1, <1>2
<1>6. e # NoGuest
  BY <1>5 DEF NoGuest
<1> QED  BY <1>2, <1>4, <1>5, <1>6

LEMMA ApplyTruth ==
    ASSUME Shape, Truth, NEW h \in Threads, Apply(h)
    PROVE  Alive' /\ Distinct' /\ GuestsKept
<1>0. TypeOK /\ AllFit /\ Alive /\ Distinct
  BY DEF Shape, Truth
<1> DEFINE r == req[h]
           v == r.row.vmid
<1>1. /\ TypeOK' /\ Alone(h) /\ r.step = "apply" /\ v \in Vmids /\ r.disk > r.row.disk
      /\ r.disk \in Nat /\ r.row.disk \in Nat
      /\ req'[h].step \in {"idle", "write"}
      /\ guests' = guests \/ (guests[v] # NoGuest /\ guests' = Grown(r))
      /\ UNCHANGED <<db, draft, spent, robbed>>
  BY <1>0, ApplyFacts, IdleFields
<1>2. HasClone' = HasClone /\ \A k \in HasClone : req'[k] = req[k]
  BY <1>1 DEF HasClone, Alone
<1>3. \A w \in Vmids : guests[w] # NoGuest =>
         /\ guests'[w] # NoGuest /\ guests'[w].host = guests[w].host
         /\ guests[w].disk <= guests'[w].disk
  <2>1. CASE guests' = guests
    BY <1>0, <2>1, Sizes
  <2>2. CASE guests[v] # NoGuest /\ guests' = Grown(r)
    BY <1>0, <1>1, <2>2, GrownFacts, Sizes
  <2> QED  BY <1>1, <2>1, <2>2
<1>4. \A w \in Vmids : guests[w] = NoGuest => guests'[w] = NoGuest
  BY <1>0, <1>1, GrownFacts
<1>5. \A w \in Vmids : guests[w].disk \in Nat /\ guests'[w].disk \in Nat
  <2>1. \A w \in Vmids : guests'[w].disk \in Nat
    BY <1>1 DEF TypeOK, Guest, NoGuest
  <2> QED  BY <1>0, <2>1, Sizes
<1>6. ASSUME NEW d \in {db, draft}, NEW s \in Made(d) \ spent PROVE SoundIn(guests', d.rows[s])
  <2>1. d.rows[s].vmid \in Vmids \cup {NoVmid} /\ d.rows[s].disk \in Nat
    BY <1>0, <1>6, Sizes DEF Made
  <2>2. SoundIn(guests, d.rows[s])
    BY <1>0, <1>6 DEF Alive, AllSound
  <2>3. CASE d.rows[s].vmid \in Vmids
    <3>1. d.rows[s].disk <= guests[d.rows[s].vmid].disk /\ guests[d.rows[s].vmid] # NoGuest
      BY <2>2, <2>3, Apart0 DEF SoundIn
    <3>2. /\ guests[d.rows[s].vmid].disk <= guests'[d.rows[s].vmid].disk
          /\ guests[d.rows[s].vmid].disk \in Nat /\ guests'[d.rows[s].vmid].disk \in Nat
      BY <1>3, <1>5, <2>3, <3>1
    <3>3. d.rows[s].disk <= guests'[d.rows[s].vmid].disk
      BY <2>1, <3>1, <3>2
    <3> QED  BY <1>3, <2>2, <2>3, <3>1, <3>3 DEF SoundIn
  <2> QED  BY <2>1, <2>3 DEF SoundIn
<1>7. AllSound(db)' /\ AllSound(draft)'
  BY <1>1, <1>6 DEF AllSound, Made, SoundIn
<1>8. \A w \in Vmids : guests'[w] # NoGuest => Footprint <= guests'[w].disk
  BY <1>0, <1>3, <1>4, <1>5 DEF Alive, Footprint
<1>9. \A k \in HasClone' : /\ guests'[req'[k].vmid] # NoGuest
                           /\ guests'[req'[k].vmid].host = req'[k].name
  BY <1>0, <1>2, <1>3, Sizes DEF Alive, HasClone
<1>10. Alive'
  BY <1>7, <1>8, <1>9 DEF Alive
<1>11. Distinct'
  BY <1>0, <1>1, <1>2 DEF Distinct, WithGuest, Made
<1>12. GuestsKept
  <2>1. ASSUME NEW s \in Made(db) \ spent, db.rows[s].vmid # NoVmid
        PROVE  guests[db.rows[s].vmid].disk <= guests'[db.rows[s].vmid].disk
    <3>1. db.rows[s].vmid \in Vmids /\ SoundIn(guests, db.rows[s])
      BY <1>0, <2>1, Sizes DEF Alive, AllSound, Made
    <3> QED  BY <1>3, <2>1, <3>1 DEF SoundIn
  <2> QED  BY <1>1, <2>1 DEF GuestsKept
<1> QED  BY <1>10, <1>11, <1>12

LEMMA WriteResizeTruth ==
    ASSUME Shape, Truth, NEW h \in Threads, WriteResize(h)
    PROVE  Alive' /\ Distinct' /\ GuestsKept
<1>0. TypeOK /\ AllFit /\ RowsKept /\ Listed /\ Alive /\ Distinct /\ Covered
  BY DEF Shape, Truth
<1> DEFINE r == req[h]
<1>1. /\ TypeOK' /\ Alone(h) /\ req'[h] = Idle /\ r.step = "write" /\ r.kind = "resize"
      /\ UNCHANGED <<guests, spent, robbed>>
  BY <1>0, WriteResizeFacts
<1>2. /\ HasClone' \subseteq HasClone
      /\ \A k \in HasClone' : req'[k].vmid = req[k].vmid /\ req'[k].name = req[k].name
  BY <1>1, IdleFields DEF Alone, HasClone
<1>3. CASE Reading
  BY <1>1, <1>2, <1>3, ReadDescends, DescendedTruth
<1>4. ASSUME NEW s \in r.mine, s \in Servers, s \in Owned(draft, r.user), draft' = db',
             db'.rows = [draft.rows EXCEPT ![s] = Resized(draft.rows[s], r)]
      PROVE  Alive' /\ Distinct' /\ GuestsKept
  <2>1. /\ draft.rows \in [Servers -> Row] /\ r \in Request /\ draft.rows[s].state = "live"
    BY <1>0, <1>4, Requests DEF TypeOK, Database, Owned, Rows
  <2>10. draft.rows[s] \in Row
    BY <1>4, <2>1
  <2>2. /\ Resized(draft.rows[s], r).disk = r.disk /\ Resized(draft.rows[s], r).state = "live"
        /\ Resized(draft.rows[s], r).name = draft.rows[s].name
        /\ Resized(draft.rows[s], r).vmid = draft.rows[s].vmid
    BY <2>1, <2>10, ResizedFacts
  <2>3. /\ Made(draft)' = Made(draft) /\ Made(db)' = Made(draft)
        /\ \A t \in Made(draft) : t # s => draft'.rows[t] = draft.rows[t]
        /\ draft'.rows[s].vmid = draft.rows[s].vmid /\ draft'.rows[s].name = draft.rows[s].name
        /\ draft'.rows[s].disk = r.disk
    BY <1>4, <2>1, <2>2 DEF Made
  <2>4. s \notin spent => SoundIn(guests, draft'.rows[s])
    <3>1. SUFFICES ASSUME s \notin spent, draft.rows[s].vmid # NoVmid
                   PROVE  r.disk <= guests[draft.rows[s].vmid].disk /\ SoundIn(guests, draft.rows[s])
      BY <2>3 DEF SoundIn, Host
    <3>2. r.row.vmid = draft.rows[s].vmid
      BY <1>0, <1>1, <1>4 DEF Listed, RowsKept
    <3>3. r.disk <= guests[r.row.vmid].disk
      BY <1>0, <1>1, <1>4, <3>1 DEF Covered
    <3>4. SoundIn(guests, draft.rows[s])
      BY <1>0, <1>4, <2>1, <3>1 DEF Alive, AllSound, Made
    <3> QED  BY <3>2, <3>3, <3>4
  <2>5. AllSound(draft)'
    <3>1. ASSUME NEW t \in Made(draft)', t \notin spent' PROVE SoundIn(guests', draft'.rows[t])
      BY <1>0, <1>1, <2>3, <2>4, <3>1 DEF Alive, AllSound
    <3> QED  BY <3>1 DEF AllSound, Made, SoundIn
  <2>6. AllSound(db)'
    BY <1>4, <2>5 DEF AllSound, Made, SoundIn
  <2>7. Alive'
    BY <1>0, <1>1, <1>2, <2>5, <2>6 DEF Alive
  <2>8. WithGuest(draft)' = WithGuest(draft) /\ \A t \in WithGuest(draft) : draft'.rows[t].vmid = draft.rows[t].vmid
    BY <1>1, <2>3 DEF WithGuest, Made
  <2>9. Distinct'
    BY <1>0, <1>2, <2>8 DEF Distinct
  <2> QED  BY <1>0, <1>1, <2>7, <2>9, SameGuests
<1>5. Reading \/ \E s \in r.mine : /\ s \in Servers /\ s \in Owned(draft, r.user) /\ draft' = db'
                                   /\ db'.rows = [draft.rows EXCEPT ![s] = Resized(draft.rows[s], r)]
  BY <1>0, WriteResizeFacts DEF Reading
<1> QED  BY <1>3, <1>4, <1>5

\* The resize in progress: of the thread that steps, and of the others.
LEMMA CoveredStep ==
    ASSUME Shape, Truth, NEW h \in Threads, Alone(h), GuestsKept, TypeOK',
           req'[h].kind = "resize" => \A s \in req'[h].mine \ spent' :
              (IF req'[h].step = "apply" THEN req'[h].row.disk ELSE req'[h].disk)
                  <= guests'[req'[h].row.vmid].disk
    PROVE  Covered'
<1>0. TypeOK /\ AllFit /\ Listed /\ Covered
  BY DEF Shape, Truth
<1>1. ASSUME NEW k \in Threads, k # h, req'[k].kind = "resize", NEW s \in req'[k].mine \ spent'
      PROVE  (IF req'[k].step = "apply" THEN req'[k].row.disk ELSE req'[k].disk)
                  <= guests'[req'[k].row.vmid].disk
  <2> DEFINE q == req[k]
             size == IF q.step = "apply" THEN q.row.disk ELSE q.disk
  <2>1. req'[k] = q /\ q.kind = "resize" /\ s \in q.mine
    BY <1>1 DEF Alone
  <2>2. s \in Made(db) /\ q.row.vmid = db.rows[s].vmid /\ q.row.vmid \in Vmids
    BY <1>0, <2>1 DEF Listed, AllFit, Fit
  <2>3. s \notin spent /\ guests[q.row.vmid].disk <= guests'[q.row.vmid].disk
    BY <1>1, <2>2, Apart0 DEF GuestsKept
  <2>4. size <= guests[q.row.vmid].disk
    BY <1>0, <2>1, <2>3 DEF Covered
  <2>5. size \in Nat /\ guests[q.row.vmid].disk \in Nat
    BY <1>0, <2>2, Sizes
  <2>6. guests'[q.row.vmid].disk \in Nat
    BY <2>2 DEF TypeOK, Guest, NoGuest
  <2> HIDE DEF size
  <2>7. size <= guests'[q.row.vmid].disk
    BY <2>3, <2>4, <2>5, <2>6
  <2> QED  BY <2>1, <2>7 DEF size
<1> QED  BY <1>1 DEF Covered

\* Only a resize that begins or is applied leaves a resize in progress.
Resizes(h) == \E s \in Servers, size \in 1 .. MaxDisk : BeginResize(h, s, size)

LEMMA OthersResizeNot ==
    ASSUME TypeOK, AllFit, NEW h \in Threads, Starting(h) \/ Working(h) \/ Loud(h),
           ~Resizes(h), ~Apply(h)
    PROVE  req'[h].kind # "resize"
<1> USE DEF Removals, Named
<1>0. Fit(h, req[h])
  BY DEF AllFit
<1>1. \/ \E u \in Users, t \in Templates, x \in Suffixes : BeginCreate(h, u, t, x)
      \/ \E u \in Users, c \in Changes : BeginUpdate(h, u, c)
      \/ \E u \in Users, to \in Users \cup {Nobody} : BeginDeleteUser(h, u, to)
      \/ \E s \in Servers : BeginRemove(h, s)
      \/ CheckQuota(h) \/ TakeId(h) \/ SkipTemplate(h)
      \/ \E u \in Users : Joins(h, u)
      \/ \E t \in Templates : DeleteTemplate(h, t)
      \/ Record(h) \/ Finish(h) \/ Onboard(h) \/ WriteUpdate(h) \/ Forget(h) \/ WriteDelete(h)
      \/ CommitDelete(h) \/ BusyTimeout(h)
      \/ Clone(h) \/ Wait(h) \/ Destroy(h) \/ WriteResize(h)
  BY Zenon DEF Starting, Working, Loud, Resizes
<1>2. CASE \E u \in Users, t \in Templates, x \in Suffixes : BeginCreate(h, u, t, x)
  BY <1>2, CreateFacts
<1>3. CASE \E u \in Users, c \in Changes : BeginUpdate(h, u, c)
  BY <1>3, UpdateFacts
<1>4. CASE \E u \in Users, to \in Users \cup {Nobody} : BeginDeleteUser(h, u, to)
  BY <1>4, DeleteFacts
<1>5. CASE \E s \in Servers : BeginRemove(h, s)
  BY <1>5, RemoveFacts
<1>6. CASE CheckQuota(h) \/ TakeId(h) \/ SkipTemplate(h)
  <2>1. /\ req[h].step \in {"quota", "nextid"}
        /\ req'[h] = Idle \/ req'[h].kind = req[h].kind
    BY <1>6, QuotaFacts, TakeFacts, SkipFacts DEF SameTask
  <2> QED  BY <1>0, <2>1, IdleFields DEF Fit
<1>7. CASE \E u \in Users : Joins(h, u)
  BY <1>7, NewUserFacts
<1>8. CASE \E t \in Templates : DeleteTemplate(h, t)
  <2>1. req' = req /\ req[h].step = "idle"
    BY <1>8, TemplateFacts
  <2> QED  BY <1>0, <2>1 DEF Fit
<1>9. CASE Record(h) \/ Finish(h) \/ Onboard(h) \/ Clone(h) \/ Wait(h)
  <2>1. /\ req[h].step \in {"record", "finish", "onboard", "clone", "wait"}
        /\ req'[h] = Idle \/ req'[h].kind = req[h].kind
    BY <1>9, RecordFacts, FinishFacts, CloneFacts, WaitFacts DEF SameTask, Inserts
  <2> QED  BY <1>0, <2>1, IdleFields DEF Fit
<1>10. CASE WriteUpdate(h) \/ CommitDelete(h) \/ WriteResize(h)
  BY <1>10, WriteUpdateFacts, CommitDeleteFacts, WriteResizeFacts, IdleFields
<1>11. CASE Forget(h) \/ Destroy(h)
  <2>1. /\ req[h].step \in {"destroy", "forget"}
        /\ req'[h] = Idle \/ req'[h].kind = req[h].kind
    BY <1>11, ForgetFacts, DestroyFacts DEF SameTask, Destroys
  <2> QED  BY <1>0, <2>1, IdleFields DEF Fit
<1>12. CASE WriteDelete(h)
  BY <1>12, WriteDeleteFacts, IdleFields DEF SameTask
<1>13. CASE BusyTimeout(h)
  <2>1. req'[h] = Idle \/ (req'[h].step = "nextid" /\ Fit(h, req'[h]))
    BY <1>13, BusyFacts
  <2> QED  BY <2>1, IdleFields DEF Fit
<1> QED  BY <1>1, <1>2, <1>3, <1>4, <1>5, <1>6, <1>7, <1>8, <1>9, <1>10, <1>11, <1>12, <1>13

LEMMA ResizeCovered ==
    ASSUME Shape, Truth, NEW h \in Threads, Resizes(h), GuestsKept, TypeOK', Alone(h)
    PROVE  Covered'
<1>0. TypeOK /\ AllFit /\ Alive
  BY DEF Shape, Truth
<1>1. PICK s \in Servers, size \in 1 .. MaxDisk : BeginResize(h, s, size)
  BY DEF Resizes
<1>2. /\ req'[h].step = "apply" /\ req'[h].mine = {s} /\ s \in Rows(db) /\ req'[h].row = db.rows[s]
      /\ Fit(h, req'[h]) /\ req'[h].kind = "resize" /\ guests' = guests /\ spent' = spent
  BY <1>0, <1>1, ResizeFacts
<1>3. db.rows[s].vmid # NoVmid /\ s \in Made(db)
  BY <1>2, Apart0, OwnedAreMade DEF Fit
<1>4. s \notin spent => db.rows[s].disk <= guests[db.rows[s].vmid].disk
  BY <1>0, <1>3 DEF Alive, AllSound, SoundIn
<1> QED  BY <1>2, <1>4, CoveredStep

LEMMA ApplyCovered ==
    ASSUME Shape, Truth, NEW h \in Threads, Apply(h), GuestsKept, TypeOK', Alone(h)
    PROVE  Covered'
<1>0. TypeOK /\ AllFit /\ Alive /\ Covered
  BY DEF Shape, Truth
<1> DEFINE r == req[h]
<1>1. /\ r.step = "apply" /\ r.kind = "resize"
      /\ r.row.vmid \in Vmids /\ r.disk > r.row.disk
      /\ r.disk \in Nat /\ r.row.disk \in Nat
      /\ req'[h] = Idle \/ (req'[h].step = "write" /\ SameTask(req'[h], r)
                            /\ req'[h].disk = r.disk /\ guests' # guests)
      /\ guests' = guests \/ (guests[r.row.vmid] # NoGuest /\ guests' = Grown(r))
      /\ spent' = spent
  BY <1>0, ApplyFacts
<1>2. CASE req'[h] = Idle
  BY <1>2, IdleFields, CoveredStep
<1>3. CASE req'[h].step = "write" /\ SameTask(req'[h], r) /\ req'[h].disk = r.disk /\ guests' # guests
  <2>1. guests'[r.row.vmid].disk = guests[r.row.vmid].disk + (r.disk - r.row.disk)
    BY <1>0, <1>1, <1>3, GrownFacts
  <2>2. guests[r.row.vmid].disk \in Nat
    BY <1>0, <1>1, Sizes
  <2>3. ASSUME NEW s \in r.mine \ spent PROVE r.disk <= guests'[r.row.vmid].disk
    <3>1. r.row.disk <= guests[r.row.vmid].disk
      BY <1>0, <1>1, <2>3 DEF Covered
    <3>2. r.disk <= guests[r.row.vmid].disk + (r.disk - r.row.disk)
      BY <1>1, <2>2, <3>1
    <3> QED  BY <2>1, <3>2
  <2>4. req'[h].mine = r.mine /\ req'[h].row = r.row
    BY <1>3 DEF SameTask
  <2> QED  BY <1>1, <1>3, <2>3, <2>4, CoveredStep
<1> QED  BY <1>1, <1>2, <1>3

LEMMA LoudTruth ==
    ASSUME Shape, Truth, NEW h \in Threads, Loud(h)
    PROVE  Alive' /\ Distinct' /\ GuestsKept
<1>1. CASE Record(h) /\ \E s \in Lowest(Unused) : Inserts(h, s)
  BY <1>1, InsertTruth
<1> QED  BY <1>1, CloneTruth, WaitTruth, DestroyTruth, ApplyTruth, WriteResizeTruth DEF Loud

LEMMA TruthInit == ASSUME Init PROVE Truth
<1>1. /\ TypeOK /\ draft = db /\ guests = [v \in Vmids |-> NoGuest] /\ req = [h \in Threads |-> Idle]
      /\ db.rows = [s \in Servers |-> UnusedRow]
  BY ShapeInit DEF Init, Shape
<1>2. Made(db) = {} /\ Made(draft) = {}
  BY <1>1 DEF Made, UnusedRow
<1>3. HasClone = {}
  BY <1>1, IdleFields DEF HasClone
<1>4. Alive
  BY <1>1, <1>2, <1>3 DEF Alive, AllSound
<1>5. Distinct
  BY <1>2, <1>3 DEF Distinct, WithGuest
<1>6. Covered
  BY <1>1, IdleFields DEF Covered
<1> QED  BY <1>4, <1>5, <1>6 DEF Truth

LEMMA TruthStep == ASSUME Shape, Truth, [Next]_vars PROVE Truth'
<1>0. TypeOK /\ AllFit /\ OneWriter
  BY DEF Shape
<1>1. CASE UNCHANGED vars
  BY <1>1 DEF Truth, Alive, AllSound, SoundIn, Distinct, Covered, HasClone, WithGuest, Made,
     vars, history, bounds
<1>2. CASE Crash
  BY <1>2, CrashTruth
<1>3. ASSUME NEW h \in Threads, Starting(h) \/ Working(h) \/ Loud(h) PROVE Truth'
  <2>1. TypeOK' /\ AllFit' /\ Alone(h) /\ (Quiet(h) \/ Loud(h))
    BY <1>0, <1>3, StepFacts
  <2>2. Alive' /\ Distinct' /\ GuestsKept
    BY <2>1, QuietTruth, LoudTruth
  <2>3. CASE Resizes(h)
    BY <2>1, <2>2, <2>3, ResizeCovered DEF Truth
  <2>4. CASE Apply(h)
    BY <2>1, <2>2, <2>4, ApplyCovered DEF Truth
  <2>5. CASE ~Resizes(h) /\ ~Apply(h)
    <3>1. req'[h].kind # "resize"
      BY <1>0, <1>3, <2>5, OthersResizeNot
    <3> QED  BY <2>1, <2>2, <3>1, CoveredStep DEF Truth
  <2> QED  BY <2>3, <2>4, <2>5
<1> QED  BY <1>1, <1>2, <1>3, Steps0

LEMMA TruthHolds == Spec => []Truth
<1>1. Init => Truth
  BY TruthInit
<1>2. Shape /\ Truth /\ [Next]_vars => Truth'
  BY TruthStep
<1> QED  BY <1>1, <1>2, ShapeHolds, PTL DEF Spec

\* However creations, resizes, removals and crashes interleave, a record whose guest no
\* request has destroyed is the record of the guest under its id and claims no more disk
\* than that has, so the quota is never charged for disk that is not there.
THEOREM TrueOfGuests == Spec => []DiskNeverOverstated
<1>1. ASSUME Alive PROVE DiskNeverOverstated
  <2>1. ASSUME NEW s \in Rows(db) \ spent PROVE SoundIn(guests, db.rows[s])
    BY <1>1, <2>1, OwnedAreMade DEF Alive, AllSound
  <2> QED  BY <2>1 DEF DiskNeverOverstated, SoundIn
<1>2. Truth => DiskNeverOverstated
  BY <1>1 DEF Truth
<1> QED  BY <1>2, TruthHolds, PTL

LEMMA OnlyDestroys ==
    ASSUME Shape, Next, NEW h \in Threads, req[h].step = "destroy", req'[h] # req[h],
           guests' # guests
    PROVE  Destroy(h)
<1>0. TypeOK /\ AllFit /\ OneWriter
  BY DEF Shape
<1>1. ~Crash
  BY <1>0, CrashFacts
<1>2. PICK k \in Threads : Starting(k) \/ Working(k) \/ Loud(k)
  BY <1>1, Steps0
<1>3. Alone(k) /\ (Quiet(k) \/ Loud(k))
  BY <1>0, <1>2, StepFacts
<1>4. k = h
  BY <1>3 DEF Alone
<1>5. Loud(h)
  BY <1>3, <1>4 DEF Quiet
<1>6. ~Clone(h) /\ ~Wait(h) /\ ~Apply(h) /\ ~WriteResize(h) /\ ~Record(h)
  BY <1>0, CloneFacts, WaitFacts, ApplyFacts, WriteResizeFacts, RecordFacts
<1> QED  BY <1>5, <1>6 DEF Loud

LEMMA DestroysOwn ==
    ASSUME Shape, Truth, NEW h \in Threads, Destroy(h), guests' # guests,
           NEW s \in Lowest(req[h].todo), s \notin spent
    PROVE  guests[db.rows[s].vmid].host = Host(db.rows[s])
<1>0. TypeOK /\ AllFit /\ Listed /\ Alive
  BY DEF Shape, Truth
<1>1. PICK t \in Servers : t \in req[h].todo /\ Destroys(h, t)
  BY <1>0, DestroyFacts
<1>2. t \in Lowest(req[h].todo) /\ guests' \in {guests, Gone(t)}
  BY <1>1 DEF Destroys
<1>3. req[h].todo \subseteq req[h].mine /\ req[h].mine \subseteq Servers
  BY <1>0, Sizes DEF AllFit, Fit
<1>4. s \in req[h].todo /\ s \in Servers /\ s <= t /\ t <= s
  BY <1>2, <1>3 DEF Lowest
<1>5. s = t
  BY <1>1, <1>4, IdsAssumption
<1>6. db.rows[s].vmid # NoVmid
  BY <1>2, <1>5 DEF Gone
<1>7. s \in Made(db)
  BY <1>0, <1>3, <1>4 DEF Listed
<1> QED  BY <1>0, <1>6, <1>7 DEF Alive, AllSound, SoundIn

\* A freed id is handed out again, and still no destroy takes a guest other than the one
\* its record was made for, unless another request had destroyed that one before.
THEOREM TakesItsOwn == Spec => DestroysItsOwnGuest
<1> DEFINE A == \A h \in Threads :
                   req[h].step = "destroy" /\ req'[h] # req[h] /\ guests' # guests =>
                      \A s \in Lowest(req[h].todo) :
                         s \in spent \/ guests[db.rows[s].vmid].host = Host(db.rows[s])
<1>1. ASSUME Shape, Truth, [Next]_vars PROVE [A]_vars
  <2>1. CASE UNCHANGED vars
    BY <2>1
  <2>2. CASE Next
    BY <1>1, <2>2, OnlyDestroys, DestroysOwn
  <2> QED  BY <1>1, <2>1, <2>2
<1> QED  BY <1>1, ShapeHolds, TruthHolds, PTL DEF Spec, DestroysItsOwnGuest

-----------------------------------------------------------------------------
(* No guest without a record.                                               *)

\* A record whose guest is gone, or that never had one.
Emptied(s) == s \in spent \/ db.rows[s].vmid = NoVmid

\* A request that removes has emptied the records it has dealt with.
RemovedFor(h) ==
    req[h].kind \in Removals /\ req[h].to = Nobody =>
        /\ \A s \in req[h].mine \ req[h].todo : Emptied(s)
        /\ req[h].step = "forget" => \A s \in Lowest(req[h].todo) : Emptied(s)
Removed == \A h \in Threads : RemovedFor(h)

\* The writer drops a record only when it is emptied, or when it deletes an account over
\* a server that it did not list.
Dropped ==
    \A s \in Rows(db) \ Rows(draft) :
        \/ Emptied(s)
        \/ writer # NoRequest /\ req[writer].step = "commit" /\ s \notin req[writer].mine

\* A clone that is about to be committed has its record.
Recorded ==
    \A h \in Threads \ robbed :
        req[h].step = "finish" /\ req[h].vmid # NoVmid =>
            \E s \in Rows(draft) \ spent : draft.rows[s].vmid = req[h].vmid

Ledger == Removed /\ Dropped /\ Recorded /\ NoGuestUnaccounted

LEMMA SpentStays ==
    ASSUME Shape, NEW h \in Threads, Quiet(h) \/ Loud(h)
    PROVE  spent \cap Made(db) \subseteq spent'
<1>0. TypeOK /\ AllFit /\ RowsKept
  BY DEF Shape
<1>1. CASE Quiet(h)
  BY <1>1 DEF Quiet
<1>2. CASE Clone(h) \/ Wait(h) \/ Apply(h) \/ WriteResize(h)
  <2>1. spent' = spent
    BY <1>0, <1>2, CloneFacts, WaitFacts, ApplyFacts, WriteResizeFacts
  <2> QED  BY <2>1
<1>3. CASE Destroy(h)
  <2>1. PICK s \in Servers : Destroys(h, s)
    BY <1>0, <1>3, DestroyFacts
  <2> QED  BY <2>1 DEF Destroys
<1>4. CASE Record(h) /\ \E s \in Lowest(Unused) : Inserts(h, s)
  <2>1. PICK s \in Lowest(Unused) : Inserts(h, s)
    BY <1>4
  <2>2. s \notin Made(db)
    BY <1>0, <1>4, <2>1, RecordFacts, InsertRows
  <2>3. spent \ {s} \subseteq spent'
    BY <2>1 DEF Inserts
  <2> QED  BY <2>2, <2>3
<1> QED  BY <1>1, <1>2, <1>3, <1>4 DEF Loud

LEMMA EmptiedStays ==
    ASSUME DbGrows, spent \cap Made(db) \subseteq spent', NEW s \in Made(db), Emptied(s)
    PROVE  Emptied(s)'
<1> QED  BY DEF Emptied, DbGrows

LEMMA RemovedOthers ==
    ASSUME Shape, Removed, NEW h \in Threads, Alone(h), DbGrows,
           spent \cap Made(db) \subseteq spent',
           \/ RemovedFor(h)'
           \/ req'[h].kind \notin Removals
           \/ SameTask(req'[h], req[h]) /\ req'[h].step # "forget"
    PROVE  Removed'
<1>1. Listed /\ AllFit
  BY DEF Shape
<1>2. ASSUME NEW k \in Threads, req'[k].kind = req[k].kind, req'[k].to = req[k].to,
             req'[k].mine = req[k].mine, req'[k].todo = req[k].todo,
             req'[k].step = "forget" => req[k].step = "forget"
      PROVE  RemovedFor(k)'
  <2>1. RemovedFor(k) /\ req[k].mine \subseteq Made(db) /\ req[k].todo \subseteq req[k].mine
    BY <1>1 DEF Removed, Listed, AllFit, Fit
  <2>2. \A s \in req[k].mine : Emptied(s) => Emptied(s)'
    BY <2>1, EmptiedStays
  <2>3. Lowest(req[k].todo) \subseteq req[k].mine
    BY <2>1 DEF Lowest
  <2> QED  BY <1>2, <2>1, <2>2, <2>3 DEF RemovedFor
<1>3. ASSUME NEW k \in Threads, k # h PROVE RemovedFor(k)'
  BY <1>2, <1>3 DEF Alone
<1>4. RemovedFor(h)'
  BY <1>2 DEF RemovedFor, SameTask
<1> QED  BY <1>3, <1>4 DEF Removed

\* Steps that leave a request where it is, or with something else to do.
Mild(h) == \/ req'[h].kind \notin Removals
           \/ SameTask(req'[h], req[h]) /\ req'[h].step # "forget"

LEMMA MildSteps ==
    ASSUME TypeOK, AllFit, NEW h \in Threads, Starting(h) \/ Working(h) \/ Loud(h)
    PROVE  \/ Mild(h) \/ Forget(h) \/ Destroy(h)
           \/ \E u \in Users, to \in Users \cup {Nobody} : BeginDeleteUser(h, u, to)
           \/ \E s \in Servers : BeginRemove(h, s)
<1> USE DEF Removals, Mild
<1>1. CASE \E u \in Users, t \in Templates, x \in Suffixes : BeginCreate(h, u, t, x)
  BY <1>1, CreateFacts
<1>2. CASE \E u \in Users, c \in Changes : BeginUpdate(h, u, c)
  BY <1>2, UpdateFacts
<1>3. CASE \E s \in Servers, size \in 1 .. MaxDisk : BeginResize(h, s, size)
  BY <1>3, ResizeFacts
<1>4. CASE CheckQuota(h) \/ TakeId(h) \/ SkipTemplate(h)
  BY <1>4, QuotaFacts, TakeFacts, SkipFacts, IdleFields
<1>5. CASE \E u \in Users : Joins(h, u)
  BY <1>5, NewUserFacts
<1>6. CASE \E t \in Templates : DeleteTemplate(h, t)
  BY <1>6, TemplateFacts DEF SameTask
<1>7. CASE Record(h)
  BY <1>7, RecordFacts, IdleFields DEF Inserts
<1>8. CASE Finish(h) \/ Onboard(h) \/ BusyTimeout(h)
  BY <1>8, FinishFacts, BusyFacts, IdleFields
<1>9. CASE WriteUpdate(h) \/ CommitDelete(h) \/ WriteResize(h)
  BY <1>9, WriteUpdateFacts, CommitDeleteFacts, WriteResizeFacts, IdleFields
<1>10. CASE WriteDelete(h)
  BY <1>10, WriteDeleteFacts, IdleFields
<1>11. CASE Clone(h) \/ Wait(h)
  BY <1>11, CloneFacts, WaitFacts
<1>12. CASE Apply(h)
  BY <1>12, ApplyFacts, IdleFields
<1> QED  BY <1>1, <1>2, <1>3, <1>4, <1>5, <1>6, <1>7, <1>8, <1>9, <1>10, <1>11, <1>12, Zenon
         DEF Starting, Working, Loud

LEMMA LowestIsOne ==
    ASSUME NEW S, S \subseteq Servers, NEW s \in Lowest(S), NEW t \in Lowest(S)
    PROVE  s = t
<1>1. s \in Nat /\ t \in Nat /\ s <= t /\ t <= s
  BY IdsAssumption DEF Lowest
<1> QED  BY <1>1

\* After a destroy that goes on, the record's guest is gone.
LEMMA DestroyedIsEmpty ==
    ASSUME Shape, Truth, NEW h \in Threads, NEW s \in Servers, s \in req[h].todo, Destroys(h, s),
           guests' = Gone(s), req[h].step = "destroy", DbGrows
    PROVE  Emptied(s)'
<1>0. TypeOK /\ AllFit /\ Listed /\ Alive
  BY DEF Shape, Truth
<1> DEFINE v == db.rows[s].vmid
<1>1. s \in Made(db)
  BY <1>0 DEF AllFit, Fit, Listed
<1>2. db'.rows[s].vmid = v
  BY <1>1 DEF DbGrows
<1>3. CASE v = NoVmid
  BY <1>2, <1>3 DEF Emptied
<1>4. CASE v # NoVmid /\ guests' # guests
  <2>1. s \in spent'
    BY <1>4 DEF Destroys
  <2> QED  BY <2>1 DEF Emptied
<1>5. CASE v # NoVmid /\ guests' = guests
  <2>1. v \in Vmids /\ guests' = [guests EXCEPT ![v] = NoGuest] /\ spent' = spent
    BY <1>0, <1>5, Sizes DEF Gone, Destroys
  <2>2. guests[v] = NoGuest
    BY <1>0, <1>5, <2>1 DEF TypeOK
  <2>3. s \in spent
    BY <1>0, <1>1, <1>5, <2>2 DEF Alive, AllSound, SoundIn
  <2> QED  BY <2>1, <2>3 DEF Emptied
<1> QED  BY <1>3, <1>4, <1>5

LEMMA RemovedStep ==
    ASSUME Shape, Truth, Removed, NEW h \in Threads, Starting(h) \/ Working(h) \/ Loud(h), DbGrows,
           Alone(h), spent \cap Made(db) \subseteq spent'
    PROVE  Removed'
<1>0. TypeOK /\ AllFit /\ Listed
  BY DEF Shape
<1> DEFINE r == req[h]
<1>1. CASE Mild(h)
  BY <1>1, RemovedOthers DEF Mild
<1>2. CASE \E u \in Users, to \in Users \cup {Nobody} : BeginDeleteUser(h, u, to)
  <2>1. PICK u \in Users, to \in Users \cup {Nobody} : BeginDeleteUser(h, u, to)
    BY <1>2
  <2>2. /\ req'[h].step \in {"write", "destroy"} /\ req'[h].to = to
        /\ to = Nobody => req'[h].todo = req'[h].mine
    BY <1>0, <2>1, DeleteFacts
  <2>3. RemovedFor(h)'
    BY <2>2 DEF RemovedFor
  <2> QED  BY <2>3, RemovedOthers
<1>3. CASE \E s \in Servers : BeginRemove(h, s)
  <2>1. req'[h].step = "destroy" /\ req'[h].todo = req'[h].mine
    BY <1>0, <1>3, RemoveFacts
  <2>3. RemovedFor(h)'
    BY <2>1 DEF RemovedFor
  <2> QED  BY <2>3, RemovedOthers
<1>4. CASE Destroy(h)
  <2>1. PICK s \in Servers : s \in r.todo /\ Destroys(h, s) /\ r.step = "destroy"
    BY <1>0, <1>4, DestroyFacts
  <2>2. CASE req'[h] = Idle
    BY <2>2, IdleFields, RemovedOthers DEF Removals
  <2>3. CASE req'[h].step = "forget" /\ SameTask(req'[h], r) /\ guests' = Gone(s)
    <3>1. Emptied(s)'
      BY <2>1, <2>3, DestroyedIsEmpty
    <3>2. r.todo \subseteq r.mine /\ r.mine \subseteq Servers /\ r.mine \subseteq Made(db)
      BY <1>0, Sizes DEF AllFit, Fit, Listed
    <3>3. s \in Lowest(r.todo)
      BY <2>1 DEF Destroys
    <3>4. \A t \in Lowest(req'[h].todo) : t = s
      BY <2>3, <3>2, <3>3, LowestIsOne DEF SameTask
    <3>5. \A t \in r.mine : Emptied(t) => Emptied(t)'
      BY <3>2, EmptiedStays
    <3>6. RemovedFor(h)'
      BY <2>3, <3>1, <3>4, <3>5 DEF RemovedFor, Removed, SameTask
    <3> QED  BY <3>6, RemovedOthers
  <2> QED  BY <2>1, <2>2, <2>3 DEF Destroys
<1>5. CASE Forget(h)
  <2>1. /\ r.step = "forget" /\ req'[h].step \in {"destroy", "write", "commit"}
        /\ req'[h].kind = r.kind /\ req'[h].to = r.to /\ req'[h].mine = r.mine
    BY <1>0, <1>5, ForgetFacts
  <2>2. PICK s \in Lowest(r.todo) : req'[h].todo = r.todo \ {s}
    BY <1>0, <1>5, ForgetFacts
  <2>3. r.todo \subseteq r.mine /\ r.mine \subseteq Made(db) /\ r.kind \in Removals /\ r.to = Nobody
    BY <1>0, <2>1 DEF AllFit, Fit, Listed
  <2>4. \A t \in r.mine \ req'[h].todo : Emptied(t) /\ t \in Made(db)
    BY <2>1, <2>2, <2>3 DEF Removed, RemovedFor
  <2>5. \A t \in r.mine \ req'[h].todo : Emptied(t)'
    BY <2>4, EmptiedStays
  <2>6. RemovedFor(h)'
    BY <2>1, <2>5 DEF RemovedFor
  <2> QED  BY <2>6, RemovedOthers
<1> QED  BY <1>0, <1>1, <1>2, <1>3, <1>4, <1>5, MildSteps

LEMMA DroppedRead ==
    ASSUME Shape, Dropped, NEW h \in Threads, Alone(h), Reading, DbGrows,
           spent \cap Made(db) \subseteq spent', req[h].step # "commit"
    PROVE  Dropped'
<1>1. ASSUME NEW s \in Rows(db) \ Rows(draft)
      PROVE  \/ Emptied(s)'
             \/ writer # NoRequest /\ req'[writer].step = "commit" /\ s \notin req'[writer].mine
  <2>1. Emptied(s) => Emptied(s)'
    BY <1>1, OwnedAreMade, EmptiedStays
  <2>2. writer \in Threads \cup {NoRequest}
    BY DEF Shape, TypeOK
  <2> QED  BY <1>1, <2>1, <2>2 DEF Dropped, Alone
<1> QED  BY <1>1 DEF Dropped, Reading, Rows

LEMMA DroppedSaved == ASSUME draft' = db' PROVE Dropped'
<1> QED  BY DEF Dropped, Rows

LEMMA DroppedRolled ==
    ASSUME Shape, Dropped, NEW h \in Threads, Alone(h), Rollback(h), DbGrows,
           spent \cap Made(db) \subseteq spent', req[h].step # "commit"
    PROVE  Dropped'
<1>1. CASE writer = h
  <2>1. draft' = db'
    BY <1>1, Rolled DEF Shape
  <2> QED  BY <2>1, DroppedSaved
<1>2. CASE writer # h
  BY <1>2, DroppedRead DEF Rollback, Reading
<1> QED  BY <1>1, <1>2

LEMMA DroppedWritten ==
    ASSUME Shape, Dropped, NEW h \in Threads, Writing(h), DbGrows,
           spent \cap Made(db) \subseteq spent', req[h].step # "commit",
           \A s \in Rows(draft) : s \in Rows(draft)' \/ s \notin Rows(db) \/ Emptied(s)
                                  \/ (req'[h].step = "commit" /\ s \notin req'[h].mine)
    PROVE  Dropped'
<1>1. db' = db /\ writer' = h /\ h # NoRequest /\ (writer = NoRequest => draft = db)
      /\ (writer = NoRequest \/ writer = h)
  BY Apart0 DEF Writing, CanWrite, Shape, OneWriter
<1>2. ASSUME NEW s \in Rows(db) \ Rows(draft)'
      PROVE  Emptied(s)' \/ (req'[h].step = "commit" /\ s \notin req'[h].mine)
  <2>1. Emptied(s) => Emptied(s)'
    BY <1>2, OwnedAreMade, EmptiedStays
  <2>2. CASE s \in Rows(draft)
    BY <1>2, <2>1, <2>2
  <2>3. CASE s \notin Rows(draft)
    <3>1. writer = h
      BY <1>1, <1>2, <2>3
    <3> QED  BY <1>2, <2>1, <2>3, <3>1 DEF Dropped
  <2> QED  BY <2>2, <2>3
<1>3. Rows(db)' = Rows(db)
  BY <1>1 DEF Rows
<1> QED  BY <1>1, <1>2, <1>3 DEF Dropped

LEMMA DroppedStep ==
    ASSUME Shape, Removed, Dropped, NEW h \in Threads, Starting(h) \/ Working(h) \/ Loud(h), DbGrows,
           Alone(h), spent \cap Made(db) \subseteq spent'
    PROVE  Dropped'
<1>0. TypeOK /\ AllFit /\ Listed
  BY DEF Shape
<1> DEFINE r == req[h]
<1>1. CASE Starting(h)
  BY <1>0, <1>1, StartingIsQuiet, DroppedRead
<1>2. CASE \E u \in Users : Joins(h, u)
  <2>1. PICK u \in Users : Joins(h, u)
    BY <1>2
  <2>2. r.step = "idle" /\ CanWrite(h) /\ writer' = h /\ db' = db /\ draft'.rows = draft.rows
    BY <1>0, <2>1, NewUserFacts
  <2>3. Rows(draft)' = Rows(draft)
    BY <2>2 DEF Rows
  <2> QED  BY <2>2, <2>3, DroppedWritten DEF Writing
<1>3. CASE \E t \in Templates : DeleteTemplate(h, t)
  BY <1>0, <1>3, TemplateFacts, DroppedSaved
<1>4. CASE Record(h)
  <2>1. r.step = "record" /\ CanWrite(h)
    BY <1>0, <1>4, RecordFacts
  <2>2. CASE \E s \in Lowest(Unused) : Inserts(h, s)
    <3>1. PICK s \in Lowest(Unused) : Inserts(h, s)
      BY <2>2
    <3>2. \A t \in Made(draft) : draft'.rows[t] = draft.rows[t]
      BY <1>0, <2>1, <3>1, InsertRows DEF Shape
    <3>3. Rows(draft) \subseteq Rows(draft)'
      BY <3>2 DEF Rows, Made
    <3>4. Writing(h)
      BY <2>1, <3>1 DEF Inserts, Writing
    <3> QED  BY <2>1, <3>3, <3>4, DroppedWritten
  <2>3. CASE Rollback(h)
    BY <2>1, <2>3, DroppedRolled
  <2> QED  BY <1>0, <1>4, <2>2, <2>3, RecordFacts
<1>5. CASE Finish(h) \/ Onboard(h) \/ CommitDelete(h)
  BY <1>0, <1>5, FinishFacts, CommitDeleteFacts, DroppedSaved
<1>6. CASE WriteUpdate(h) \/ WriteResize(h)
  <2>1. r.step = "write" /\ (Reading \/ draft' = db')
    BY <1>0, <1>6, WriteUpdateFacts, WriteResizeFacts DEF Reading
  <2> QED  BY <2>1, DroppedRead, DroppedSaved
<1>7. CASE Forget(h)
  <2>1. r.step = "forget" /\ CanWrite(h) /\ writer' = h /\ db' = db
    BY <1>0, <1>7, ForgetFacts
  <2>2. PICK s \in Lowest(r.todo) :
           /\ s \in Servers
           /\ \/ draft' = draft
              \/ draft'.rows = [draft.rows EXCEPT ![s] = DeletedRow(draft.rows[s])]
    BY <1>0, <1>7, ForgetFacts
  <2>3. r.kind \in Removals /\ r.to = Nobody
    BY <1>0, <2>1 DEF AllFit, Fit
  <2>4. Emptied(s)
    BY <2>1, <2>2, <2>3 DEF Removed, RemovedFor
  <2>5. \A t \in Rows(draft) : t \in Rows(draft)' \/ t = s
    BY <1>0, <2>2 DEF Rows, TypeOK, Database
  <2> QED  BY <2>1, <2>4, <2>5, DroppedWritten DEF Writing
<1>8. CASE WriteDelete(h)
  <2>1. r.step = "write" /\ r.kind = "deleteUser" /\ CanWrite(h)
    BY <1>0, <1>8, WriteDeleteFacts
  <2>2. CASE Rollback(h)
    BY <2>1, <2>2, DroppedRolled
  <2>3. CASE /\ req'[h].step = "commit" /\ SameTask(req'[h], r) /\ db' = db /\ writer' = h
             /\ draft'.rows = [s \in Servers |->
                       IF s \in Owned(draft, r.user)
                       THEN Inherited(draft.rows[s], r.to) ELSE draft.rows[s]]
    <3>1. ASSUME NEW s \in Rows(draft), s \notin Rows(draft)', s \in Rows(db)
          PROVE  Emptied(s) \/ s \notin req'[h].mine
      <4>1. s \in Servers /\ draft.rows[s].state = "live" /\ draft.rows[s] \in Row
        BY <1>0, <3>1, Sizes DEF Rows
      <4>2. draft'.rows[s] # draft.rows[s]
        BY <3>1, <4>1 DEF Rows
      <4>3. s \in Owned(draft, r.user) /\ draft'.rows[s] = Inherited(draft.rows[s], r.to)
        BY <2>3, <4>1, <4>2
      <4>4. r.to \in Users \cup {Nobody}
        BY <1>0, Requests DEF Request
      <4>5. r.to = Nobody
        <5>1. CASE r.to # Nobody
          <6>1. draft'.rows[s].state = "live"
            BY <4>1, <4>3, <4>4, <5>1, InheritedFacts
          <6> QED  BY <3>1, <4>1, <6>1 DEF Rows
        <5> QED  BY <5>1
      <4>6. r.todo = {}
        BY <1>0, <2>1 DEF AllFit, Fit
      <4>7. s \in r.mine => Emptied(s)
        BY <2>1, <4>5, <4>6 DEF Removed, RemovedFor, Removals
      <4> QED  BY <2>3, <4>7 DEF SameTask
    <3>2. Writing(h)
      BY <2>1, <2>3 DEF Writing
    <3> QED  BY <2>1, <2>3, <3>1, <3>2, DroppedWritten
  <2> QED  BY <1>0, <1>8, <2>2, <2>3, WriteDeleteFacts
<1>9. CASE BusyTimeout(h) \/ Clone(h) \/ Wait(h) \/ Apply(h)
  <2>1. Reading /\ r.step # "commit"
    BY <1>0, <1>9, BusyFacts, CloneFacts, WaitFacts, ApplyFacts DEF Reading
  <2> QED  BY <2>1, DroppedRead
<1>10. CASE Destroy(h)
  <2>1. r.step = "destroy" /\ (Reading \/ Rollback(h))
    BY <1>0, <1>10, DestroyFacts DEF Destroys, Reading
  <2> QED  BY <2>1, DroppedRead, DroppedRolled
<1> QED  BY <1>1, <1>2, <1>3, <1>4, <1>5, <1>6, <1>7, <1>8, <1>9, <1>10 DEF Working, Loud

LEMMA OnlyRecordFinishes ==
    ASSUME TypeOK, AllFit, NEW h \in Threads, Starting(h) \/ Working(h) \/ Loud(h),
           req'[h].step = "finish"
    PROVE  Record(h) /\ \E s \in Lowest(Unused) : Inserts(h, s)
<1>1. ~Starting(h)
  BY StartingIsQuiet DEF Committing
<1>2. ~\E u \in Users : Joins(h, u)
  BY NewUserFacts
<1>3. ~\E t \in Templates : DeleteTemplate(h, t)
  BY TemplateFacts
<1>4. ~Finish(h) /\ ~Onboard(h) /\ ~WriteUpdate(h) /\ ~CommitDelete(h) /\ ~BusyTimeout(h)
  BY FinishFacts, WriteUpdateFacts, CommitDeleteFacts, BusyFacts, IdleFields
<1>5. ~Forget(h) /\ ~WriteDelete(h)
  BY ForgetFacts, WriteDeleteFacts, IdleFields
<1>6. ~Clone(h) /\ ~Wait(h) /\ ~Apply(h) /\ ~WriteResize(h)
  BY CloneFacts, WaitFacts, ApplyFacts, WriteResizeFacts, IdleFields
<1>7. ~Destroy(h)
  BY DestroyFacts, IdleFields DEF Destroys
<1>8. Record(h)
  BY <1>1, <1>2, <1>3, <1>4, <1>5, <1>6, <1>7 DEF Working, Loud
<1> QED  BY <1>8, RecordFacts, IdleFields

\* While one thread writes, the others leave what it has written.
LEMMA WriterUndisturbed ==
    ASSUME Shape, NEW h \in Threads, Quiet(h) \/ Loud(h), NEW k \in Threads, k # h, writer = k
    PROVE  draft' = draft /\ db' = db
<1>0. TypeOK /\ AllFit
  BY DEF Shape
<1>1. ~CanWrite(h)
  BY Apart0 DEF CanWrite
<1>2. Rollback(h) => Reading
  BY DEF Rollback, Reading
<1>3. Quiet(h) => Reading
  BY <1>1, <1>2 DEF Quiet, Writing, Saving
<1>4. Clone(h) \/ Wait(h) \/ Apply(h) => Reading
  BY <1>0, CloneFacts, WaitFacts, ApplyFacts DEF Reading
<1>5. Destroy(h) => Reading
  BY <1>0, <1>2, DestroyFacts DEF Destroys, Reading
<1>6. ~WriteResize(h) /\ ~Record(h)
  BY <1>0, <1>1, WriteResizeFacts, RecordFacts
<1> QED  BY <1>3, <1>4, <1>5, <1>6 DEF Loud, Reading

LEMMA RecordedOther ==
    ASSUME Shape, Recorded, NEW h \in Threads, Quiet(h) \/ Loud(h), Alone(h),
           NEW k \in Threads \ robbed', k # h, req'[k].step = "finish", req'[k].vmid # NoVmid
    PROVE  \E s \in Rows(draft)' \ spent' : draft'.rows[s].vmid = req'[k].vmid
<1>0. TypeOK /\ AllFit /\ RowsKept /\ OneWriter
  BY DEF Shape
<1>1. req'[k] = req[k]
  BY DEF Alone
<1>2. writer = k
  BY <1>0, <1>1 DEF OneWriter, Committing
<1>3. draft' = draft
  BY <1>2, WriterUndisturbed
<1>4. CASE Destroy(h)
  <2>1. PICK i \in Servers : Destroys(h, i)
    BY <1>0, <1>4, DestroyFacts
  <2>2. CASE guests' = guests
    <3>1. spent' = spent /\ robbed' = robbed
      BY <2>1, <2>2 DEF Destroys
    <3> QED  BY <1>1, <1>3, <3>1 DEF Recorded, Rows
  <2>3. CASE guests' # guests
    <3> DEFINE v == db.rows[i].vmid
    <3>1. /\ spent' = spent \cup {j \in Servers : v \in {db.rows[j].vmid, draft.rows[j].vmid}}
          /\ robbed' = robbed \cup {j \in Threads : req[j].vmid = v}
      BY <2>1, <2>3 DEF Destroys
    <3>2. k \notin robbed /\ req[k].vmid # v
      BY <3>1
    <3>3. PICK s \in Rows(draft) \ spent : draft.rows[s].vmid = req[k].vmid
      BY <1>1, <3>2 DEF Recorded
    <3>4. v # NoVmid
      BY <2>1, <2>3 DEF Destroys, Gone
    <3>5. s \in Servers /\ db.rows[s].vmid # v
      BY <1>0, <3>2, <3>3, <3>4 DEF RowsKept, Rows, Made, UnusedRow
    <3>6. s \notin spent'
      BY <3>1, <3>2, <3>3, <3>5
    <3>7. s \in Rows(draft)' /\ draft'.rows[s].vmid = req'[k].vmid
      BY <1>1, <1>3, <3>3 DEF Rows
    <3> QED  BY <3>6, <3>7
  <2> QED  BY <2>2, <2>3
<1>5. CASE ~Destroy(h)
  <2>1. ~CanWrite(h)
    BY <1>2, Apart0 DEF CanWrite
  <2>2. ~Record(h)
    BY <1>0, <2>1, RecordFacts
  <2>3. spent' = spent /\ (robbed' = robbed \/ robbed' = robbed \ {h})
    BY <1>0, <1>5, <2>2, CloneFacts, WaitFacts, ApplyFacts, WriteResizeFacts DEF Quiet, Loud
  <2>4. k \notin robbed
    BY <2>3
  <2> QED  BY <1>1, <1>3, <2>3, <2>4 DEF Recorded, Rows
<1> QED  BY <1>4, <1>5

LEMMA RecordedStep ==
    ASSUME Shape, Recorded, NEW h \in Threads, Starting(h) \/ Working(h) \/ Loud(h),
           Quiet(h) \/ Loud(h), Alone(h)
    PROVE  Recorded'
<1>0. TypeOK /\ AllFit
  BY DEF Shape
<1>1. ASSUME NEW k \in Threads \ robbed', req'[k].step = "finish", req'[k].vmid # NoVmid
      PROVE  \E s \in Rows(draft)' \ spent' : draft'.rows[s].vmid = req'[k].vmid
  <2>1. CASE k # h
    BY <1>1, <2>1, RecordedOther
  <2>2. CASE k = h
    <3>1. PICK s \in Lowest(Unused) : Inserts(h, s)
      BY <1>0, <1>1, <2>2, OnlyRecordFinishes
    <3>2. Record(h) /\ req[h].step = "record"
      BY <1>0, <1>1, <2>2, OnlyRecordFinishes, RecordFacts
    <3>3. draft'.rows[s] = NewRow(req[h]) /\ s \in Servers
      BY <1>0, <3>1, <3>2, InsertRows DEF Shape
    <3>4. NewRow(req[h]).state = "live" /\ NewRow(req[h]).vmid = req[h].vmid
      BY DEF NewRow
    <3>5. req'[h].vmid = req[h].vmid /\ h \notin robbed /\ spent' = spent \ {s}
      BY <1>1, <2>2, <3>1 DEF Inserts
    <3> QED  BY <2>2, <3>3, <3>4, <3>5 DEF Rows
  <2> QED  BY <2>1, <2>2
<1> QED  BY <1>1 DEF Recorded

\* A guest that is accounted for: blamed, in the hands of its request, or of a record.
Known(v) == \/ v \in blamed
            \/ \E h \in Cloning : v \in InHand(h)
            \/ \E s \in Rows(db) \ spent : db.rows[s].vmid = v

\* What a step must do about the guests the stepping thread holds and the records name.
LEMMA KnownStep ==
    ASSUME TypeOK, NoGuestUnaccounted, NEW h \in Threads, Alone(h),
           \A v \in Vmids : guests'[v] # NoGuest => guests[v] # NoGuest \/ Known(v)',
           \A v \in blamed : guests'[v] = NoGuest \/ Known(v)',
           \A k \in Threads : k \in robbed' /\ k \notin robbed =>
               req[k].vmid = NoVmid \/ guests'[req[k].vmid] = NoGuest,
           h \in Cloning => \A v \in InHand(h) : guests'[v] = NoGuest \/ Known(v)',
           \A s \in Rows(db) \ spent, v \in Vmids :
               db.rows[s].vmid = v => guests'[v] = NoGuest \/ Known(v)'
    PROVE  NoGuestUnaccounted'
<1>1. ASSUME NEW v \in Vmids, guests'[v] # NoGuest PROVE Known(v)'
  <2>1. CASE guests[v] = NoGuest
    BY <1>1, <2>1
  <2>2. CASE v \in blamed
    BY <1>1, <2>2
  <2>3. CASE \E k \in Cloning : v \in InHand(k)
    <3>1. PICK k \in Cloning : v \in InHand(k)
      BY <2>3
    <3>2. CASE k = h
      BY <1>1, <3>1, <3>2
    <3>3. CASE k # h
      <4>1. k \in Threads /\ k \in Cloning' /\ req'[k] = req[k]
        BY <3>1, <3>3 DEF Cloning, Alone
      <4>2. k \notin robbed /\ v = req[k].vmid /\ v # NoVmid
        BY <3>1 DEF InHand
      <4>3. k \notin robbed'
        BY <1>1, <4>1, <4>2
      <4>4. v \in InHand(k)'
        BY <4>1, <4>2, <4>3 DEF InHand
      <4> QED  BY <4>1, <4>4 DEF Known
    <3> QED  BY <3>2, <3>3
  <2>4. CASE \E s \in Rows(db) \ spent : db.rows[s].vmid = v
    BY <1>1, <2>4
  <2> QED  BY <2>1, <2>2, <2>3, <2>4 DEF NoGuestUnaccounted
<1> QED  BY <1>1 DEF NoGuestUnaccounted, Known

\* Guests, and the records of them, stay, and nobody is robbed.
LEMMA KnownStays ==
    ASSUME TypeOK, NoGuestUnaccounted, NEW h \in Threads, Alone(h),
           \A v \in Vmids : guests'[v] # NoGuest => guests[v] # NoGuest \/ Known(v)',
           \A v \in blamed : v \in blamed' \/ Known(v)', robbed' \subseteq robbed,
           h \in Cloning => \A v \in InHand(h) : guests'[v] = NoGuest \/ Known(v)',
           db' = db, Rows(db) \cap spent' \subseteq spent
    PROVE  NoGuestUnaccounted'
<1>1. \A s \in Rows(db) \ spent, v \in Vmids : db.rows[s].vmid = v => Known(v)'
  BY DEF Known, Rows
<1>2. \A v \in blamed : Known(v)'
  BY DEF Known
<1> QED  BY <1>1, <1>2, KnownStep

\* The same, for a thread that holds no clone.
LEMMA KnownQuietly ==
    ASSUME TypeOK, NoGuestUnaccounted, NEW h \in Threads, Alone(h), UNCHANGED <<guests, blamed, spent, robbed>>,
           db' = db, h \notin Cloning
    PROVE  NoGuestUnaccounted'
<1> QED  BY KnownStays

\* A commit: what the writer dropped is emptied, or blamed.
LEMMA KnownSaved ==
    ASSUME Shape, NoGuestUnaccounted, Dropped, NEW h \in Threads, Alone(h),
           UNCHANGED <<guests, spent, robbed>>, blamed \subseteq blamed',
           writer \in {NoRequest, h}, Carries(draft, db'), Rows(draft) \subseteq Rows(db)',
           h \in Cloning => \A v \in InHand(h) : Known(v)',
           req[h].step = "commit" => \A s \in Rows(db) \ (Rows(draft) \cup req[h].mine \cup spent) :
               db.rows[s].vmid # NoVmid => db.rows[s].vmid \in blamed'
    PROVE  NoGuestUnaccounted'
<1>0. TypeOK /\ OneWriter /\ RowsKept /\ h # NoRequest
  BY Apart0 DEF Shape
<1>1. ASSUME NEW s \in Rows(db) \ spent, NEW v \in Vmids, db.rows[s].vmid = v PROVE Known(v)'
  <2>1. s \in Servers /\ s \in Made(db) /\ db.rows[s].vmid # NoVmid
    BY <1>1, OwnedAreMade, Apart0 DEF Rows
  <2>2. CASE s \in Rows(draft)
    <3>1. s \in Rows(db)' /\ db'.rows[s].vmid = db.rows[s].vmid
      BY <1>0, <2>1, <2>2 DEF RowsKept, Carries, Made
    <3> QED  BY <1>1, <3>1 DEF Known
  <2>3. CASE s \notin Rows(draft)
    <3>1. writer = h
      BY <1>0, <1>1, <2>3 DEF OneWriter
    <3>2. req[h].step = "commit" /\ s \notin req[h].mine
      BY <1>1, <2>1, <2>3, <3>1 DEF Dropped, Emptied
    <3>3. v \in blamed'
      BY <1>1, <2>1, <2>3, <3>2
    <3> QED  BY <3>3 DEF Known
  <2> QED  BY <2>2, <2>3
<1>2. \A v \in blamed : Known(v)'
  BY DEF Known
<1> QED  BY <1>0, <1>1, <1>2, KnownStep

LEMMA NotCloning == ASSUME NEW h, req[h].step \notin {"wait", "record", "finish"} PROVE h \notin Cloning
<1> QED  BY DEF Cloning

LEMMA SameRowsCarry == ASSUME NEW d, NEW e, e.rows = d.rows PROVE Carries(d, e) /\ Rows(e) = Rows(d)
<1> QED  BY DEF Carries, Rows

LEMMA CloneKnown ==
    ASSUME Shape, NoGuestUnaccounted, NEW h \in Threads, Clone(h)
    PROVE  NoGuestUnaccounted'
<1>0. TypeOK /\ AllFit
  BY DEF Shape
<1> DEFINE w == req[h].vmid
<1>1. Alone(h) /\ req[h].step = "clone" /\ w \in Vmids /\ UNCHANGED <<db, spent>>
  BY <1>0, CloneFacts
<1>2. h \notin Cloning
  BY <1>1, NotCloning
<1>3. CASE /\ guests' = [guests EXCEPT ![w] = [host |-> req[h].name, disk |-> Footprint]]
           /\ blamed' = blamed \ {w} /\ robbed' = robbed \ {h}
           /\ req'[h].step = "wait" /\ req'[h].vmid = w
  <2>1. h \in Cloning' /\ w \in InHand(h)'
    BY <1>1, <1>3, Apart0 DEF Cloning, InHand
  <2>2. \A v \in Vmids : v = w => Known(v)'
    BY <2>1 DEF Known
  <2>3. \A v \in Vmids : v # w => guests'[v] = guests[v]
    BY <1>0, <1>3 DEF TypeOK
  <2>4. \A v \in Vmids : guests'[v] # NoGuest => guests[v] # NoGuest \/ Known(v)'
    BY <2>2, <2>3
  <2>5. \A v \in blamed : v \in blamed' \/ Known(v)'
    BY <1>0, <1>3, <2>2 DEF TypeOK
  <2> QED  BY <1>0, <1>1, <1>2, <1>3, <2>4, <2>5, KnownStays
<1>4. CASE UNCHANGED <<guests, blamed, robbed>>
  BY <1>0, <1>1, <1>2, <1>4, KnownQuietly
<1> QED  BY <1>0, <1>3, <1>4, CloneFacts

LEMMA WaitKnown ==
    ASSUME Shape, NoGuestUnaccounted, NEW h \in Threads, Wait(h)
    PROVE  NoGuestUnaccounted'
<1>0. TypeOK /\ AllFit
  BY DEF Shape
<1>1. /\ Alone(h) /\ req'[h].step = "record" /\ UNCHANGED <<db, spent, robbed>>
      /\ \/ req'[h].vmid = req[h].vmid /\ UNCHANGED <<guests, blamed>>
         \/ guests' = WithoutClone(h) /\ UNCHANGED blamed
         \/ blamed' = blamed \cup InHand(h) /\ UNCHANGED guests
  BY <1>0, WaitFacts
<1>2. guests \in [Vmids -> Guest \cup {NoGuest}]
  BY <1>0 DEF TypeOK
<1>3. \A v \in Vmids : guests'[v] # NoGuest => guests[v] # NoGuest
  BY <1>1, <1>2 DEF WithoutClone
<1>4. ASSUME NEW v \in InHand(h) PROVE guests'[v] = NoGuest \/ Known(v)'
  <2>1. v \in Vmids /\ v = req[h].vmid /\ h \notin robbed
    BY <1>0, <1>4, HandsAreIds DEF InHand
  <2>2. CASE req'[h].vmid = req[h].vmid
    <3>1. h \in Cloning' /\ v \in InHand(h)'
      BY <1>1, <1>4, <2>1, <2>2 DEF Cloning, InHand
    <3> QED  BY <3>1 DEF Known
  <2>3. CASE guests' = WithoutClone(h)
    BY <1>2, <2>1, <2>3 DEF WithoutClone
  <2>4. CASE blamed' = blamed \cup InHand(h)
    BY <1>4, <2>4 DEF Known
  <2> QED  BY <1>1, <2>2, <2>3, <2>4
<1>5. blamed \subseteq blamed'
  BY <1>1
<1> QED  BY <1>0, <1>1, <1>3, <1>4, <1>5, KnownStays

LEMMA DestroyKnown ==
    ASSUME Shape, NoGuestUnaccounted, NEW h \in Threads, Destroy(h)
    PROVE  NoGuestUnaccounted'
<1>0. TypeOK /\ AllFit /\ RowsKept /\ guests \in [Vmids -> Guest \cup {NoGuest}]
  BY DEF Shape, TypeOK
<1>1. PICK s \in Servers : Alone(h) /\ req[h].step = "destroy" /\ Destroys(h, s)
  BY <1>0, DestroyFacts
<1> DEFINE w == db.rows[s].vmid
<1>2. h \notin Cloning
  BY <1>1, NotCloning
<1>3. /\ db' = db /\ blamed' = {v \in blamed : guests'[v] # NoGuest} /\ guests' \in {guests, Gone(s)}
      /\ IF guests' = guests THEN UNCHANGED <<spent, robbed>>
         ELSE /\ spent' = spent \cup {i \in Servers : w \in {db.rows[i].vmid, draft.rows[i].vmid}}
              /\ robbed' = robbed \cup {k \in Threads : req[k].vmid = w}
  BY <1>0, <1>1, Rolled DEF Destroys
<1>4. \A v \in blamed : guests'[v] = NoGuest \/ Known(v)'
  BY <1>3 DEF Known
<1>5. CASE guests' = guests
  <2>1. \A t \in Rows(db) \ spent, v \in Vmids : db.rows[t].vmid = v => Known(v)'
    BY <1>3, <1>5 DEF Known, Rows
  <2> QED  BY <1>0, <1>1, <1>2, <1>3, <1>4, <1>5, <2>1, KnownStep
<1>6. CASE guests' # guests
  <2>1. w \in Vmids /\ guests' = [guests EXCEPT ![w] = NoGuest]
    BY <1>0, <1>3, <1>6, Sizes DEF Gone
  <2>2. guests'[w] = NoGuest /\ \A v \in Vmids : guests'[v] # NoGuest => guests[v] # NoGuest
    BY <1>0, <2>1
  <2>3. ASSUME NEW t \in Rows(db) \ spent, NEW v \in Vmids, db.rows[t].vmid = v, guests'[v] # NoGuest
        PROVE  Known(v)'
    <3>1. v # w /\ t \in Servers /\ t \in Made(db)
      BY <2>2, <2>3, OwnedAreMade DEF Rows
    <3>2. draft.rows[t].vmid = v
      BY <1>0, <2>3, <3>1 DEF RowsKept
    <3>3. t \notin spent'
      BY <1>3, <1>6, <2>3, <3>1, <3>2
    <3>4. t \in Rows(db)' /\ db'.rows[t].vmid = v
      BY <1>3, <2>3 DEF Rows
    <3> QED  BY <3>3, <3>4 DEF Known
  <2>4. \A k \in Threads : k \in robbed' /\ k \notin robbed => guests'[req[k].vmid] = NoGuest
    BY <1>3, <1>6, <2>2
  <2> QED  BY <1>0, <1>1, <1>2, <1>4, <2>2, <2>3, <2>4, KnownStep
<1> QED  BY <1>5, <1>6

LEMMA LosesKnown ==
    ASSUME TypeOK, NoGuestUnaccounted, NEW h \in Threads, Alone(h), db' = db,
           UNCHANGED <<guests, spent, robbed>>, blamed' = blamed \cup InHand(h)
    PROVE  NoGuestUnaccounted'
<1>1. \A v \in InHand(h) : Known(v)'
  BY DEF Known
<1> QED  BY <1>1, KnownStays

LEMMA RecordKnown ==
    ASSUME Shape, NoGuestUnaccounted, NEW h \in Threads, Record(h)
    PROVE  NoGuestUnaccounted'
<1>0. TypeOK /\ AllFit /\ RowsKept
  BY DEF Shape
<1>1. Alone(h) /\ req[h].step = "record" /\ guests' = guests
  BY <1>0, RecordFacts
<1>2. CASE \E s \in Lowest(Unused) : Inserts(h, s)
  <2>1. PICK s \in Lowest(Unused) : Inserts(h, s)
    BY <1>2
  <2>2. s \notin Rows(db)
    BY <1>0, <1>1, <2>1, InsertRows, OwnedAreMade
  <2>3. /\ db' = db /\ UNCHANGED <<blamed, robbed>> /\ Rows(db) \cap spent' \subseteq spent
        /\ req'[h].step = "finish" /\ req'[h].vmid = req[h].vmid
    BY <2>1, <2>2 DEF Inserts
  <2>4. h \in Cloning' /\ InHand(h)' = InHand(h)
    BY <2>3 DEF Cloning, InHand
  <2>5. \A v \in InHand(h) : Known(v)'
    BY <2>4 DEF Known
  <2> QED  BY <1>0, <1>1, <2>3, <2>5, KnownStays
<1>3. CASE Rollback(h) /\ blamed' = blamed \cup InHand(h) /\ UNCHANGED <<spent, robbed>>
  BY <1>0, <1>1, <1>3, Rolled, LosesKnown
<1> QED  BY <1>0, <1>2, <1>3, RecordFacts

LEMMA SaveKnown ==
    ASSUME Shape, NoGuestUnaccounted, Removed, Dropped, Recorded, NEW h \in Threads,
           Finish(h) \/ Onboard(h) \/ CommitDelete(h)
    PROVE  NoGuestUnaccounted'
<1>0. TypeOK /\ AllFit /\ OneWriter
  BY DEF Shape
<1>1. /\ Alone(h) /\ req[h].step \in Committing /\ db' = draft /\ UNCHANGED <<guests, spent, robbed>>
      /\ blamed \subseteq blamed'
  BY <1>0, FinishFacts, CommitDeleteFacts DEF Committing
<1>2. writer = h /\ Carries(draft, db') /\ Rows(db)' = Rows(draft)
  BY <1>0, <1>1 DEF OneWriter, Carries, Rows
<1>3. ASSUME h \in Cloning, NEW v \in InHand(h) PROVE Known(v)'
  <2>1. req[h].step = "finish" /\ h \notin robbed /\ v = req[h].vmid /\ v # NoVmid
    BY <1>1, <1>3 DEF Cloning, InHand, Committing
  <2>2. PICK s \in Rows(draft) \ spent : draft.rows[s].vmid = v
    BY <2>1 DEF Recorded
  <2>3. s \in Rows(db)' \ spent' /\ db'.rows[s].vmid = v
    BY <1>1, <1>2, <2>2
  <2> QED  BY <2>3 DEF Known
<1>4. ASSUME req[h].step = "commit",
             NEW s \in Rows(db) \ (Rows(draft) \cup req[h].mine \cup spent), db.rows[s].vmid # NoVmid
      PROVE  db.rows[s].vmid \in blamed'
  <2>1. CommitDelete(h)
    BY <1>0, <1>4, FinishFacts
  <2>2. blamed' = blamed \cup ({db.rows[t].vmid :
                 t \in Rows(db) \ (Rows(draft) \cup req[h].mine \cup spent)} \ {NoVmid})
    BY <1>0, <2>1, CommitDeleteFacts
  <2> QED  BY <1>4, <2>2
<1> QED  BY <1>1, <1>2, <1>3, <1>4, KnownSaved

LEMMA WriteKnown ==
    ASSUME Shape, NoGuestUnaccounted, Dropped, NEW h \in Threads,
           WriteUpdate(h) \/ WriteResize(h) \/ \E t \in Templates : DeleteTemplate(h, t)
    PROVE  NoGuestUnaccounted'
<1>0. TypeOK /\ AllFit
  BY DEF Shape
<1>1. /\ Alone(h) /\ req[h].step \in {"write", "idle"} /\ CanWrite(h)
      /\ UNCHANGED <<guests, blamed, spent, robbed>>
  BY <1>0, WriteUpdateFacts, WriteResizeFacts, TemplateFacts DEF Alone
<1>2. h \notin Cloning /\ writer \in {NoRequest, h}
  BY <1>1, NotCloning DEF CanWrite
<1>3. CASE Reading
  BY <1>0, <1>1, <1>2, <1>3, KnownQuietly DEF Reading
<1>4. CASE Carries(draft, db') /\ Rows(draft) \subseteq Rows(db)'
  BY <1>1, <1>2, <1>4, KnownSaved
<1>5. CASE db'.rows = draft.rows
  <2>1. Carries(draft, db') /\ Rows(db') = Rows(draft)
    BY <1>5, SameRowsCarry
  <2>2. Rows(db)' = Rows(db')
    BY DEF Rows
  <2> QED  BY <1>4, <2>1, <2>2
<1>6. ASSUME NEW s \in Servers, s \in Owned(draft, req[h].user), draft' = db',
             db'.rows = [draft.rows EXCEPT ![s] = Resized(draft.rows[s], req[h])]
      PROVE  Carries(draft, db') /\ Rows(draft) \subseteq Rows(db)'
  <2>1. draft.rows[s].state = "live" /\ draft.rows[s] \in Row /\ draft.rows \in [Servers -> Row]
    BY <1>0, <1>6, Sizes DEF Owned, Rows, TypeOK, Database
  <2>2. Carries(draft, draft')
    BY <1>0, <1>6, <2>1, Requests, ResizeCarries
  <2>3. Resized(draft.rows[s], req[h]).state = "live"
    BY <1>0, <2>1, Requests, ResizedFacts
  <2> QED  BY <1>6, <2>1, <2>2, <2>3 DEF Rows
<1>7. CASE WriteUpdate(h)
  BY <1>0, <1>3, <1>5, <1>7, WriteUpdateFacts DEF Reading
<1>8. CASE WriteResize(h)
  BY <1>0, <1>3, <1>4, <1>6, <1>8, WriteResizeFacts DEF Reading
<1>9. CASE \E t \in Templates : DeleteTemplate(h, t)
  BY <1>0, <1>5, <1>9, TemplateFacts
<1> QED  BY <1>7, <1>8, <1>9

LEMMA KnownNext ==
    ASSUME Shape, Removed, Dropped, Recorded, NoGuestUnaccounted, NEW h \in Threads,
           Starting(h) \/ Working(h) \/ Loud(h)
    PROVE  NoGuestUnaccounted'
<1>0. TypeOK /\ AllFit
  BY DEF Shape
<1>1. CASE Starting(h)
  <2>1. /\ Alone(h) /\ UNCHANGED <<guests, blamed, spent, robbed>> /\ db' = db
        /\ req[h].step \in {"idle", "quota", "nextid"}
    BY <1>0, <1>1, StartingIsQuiet DEF Quiet, Reading
  <2> QED  BY <1>0, <2>1, NotCloning, KnownQuietly
<1>2. CASE \E u \in Users : Joins(h, u)
  <2>1. /\ Alone(h) /\ UNCHANGED <<guests, blamed, spent, robbed>> /\ db' = db
        /\ req[h].step = "idle"
    BY <1>0, <1>2, NewUserFacts
  <2> QED  BY <1>0, <2>1, NotCloning, KnownQuietly
<1>3. CASE Forget(h) \/ WriteDelete(h)
  <2>1. /\ Alone(h) /\ UNCHANGED <<guests, blamed, spent, robbed>> /\ db' = db
        /\ req[h].step \in {"forget", "write"}
    BY <1>0, <1>3, ForgetFacts, WriteDeleteFacts, Rolled
  <2> QED  BY <1>0, <2>1, NotCloning, KnownQuietly
<1>4. CASE BusyTimeout(h)
  <2>1. /\ Alone(h) /\ db' = db /\ UNCHANGED <<guests, spent, robbed>>
        /\ req[h].step \in {"record", "write", "forget"}
        /\ \/ blamed' = blamed \cup InHand(h)
           \/ req[h].step # "record" /\ blamed' = blamed
    BY <1>0, <1>4, BusyFacts
  <2> QED  BY <1>0, <2>1, NotCloning, KnownQuietly, LosesKnown
<1>5. CASE Apply(h)
  <2>1. /\ Alone(h) /\ UNCHANGED <<db, blamed, spent, robbed>> /\ req[h].step = "apply"
        /\ guests' = guests \/ (guests[req[h].row.vmid] # NoGuest /\ guests' = Grown(req[h]))
        /\ req[h].row.vmid \in Vmids /\ req[h].disk > req[h].row.disk
        /\ req[h].disk \in Nat /\ req[h].row.disk \in Nat
    BY <1>0, <1>5, ApplyFacts
  <2>2. \A v \in Vmids : guests'[v] # NoGuest => guests[v] # NoGuest
    BY <1>0, <2>1, GrownFacts
  <2>3. h \notin Cloning
    BY <2>1, NotCloning
  <2> QED  BY <1>0, <2>1, <2>2, <2>3, KnownStays
<1> QED  BY <1>1, <1>2, <1>3, <1>4, <1>5, CloneKnown, WaitKnown, DestroyKnown, RecordKnown, SaveKnown,
         WriteKnown DEF Working, Loud

LEMMA CrashLedger == ASSUME Shape, Ledger, Crash PROVE Ledger'
<1>0. TypeOK
  BY DEF Shape
<1>1. /\ \A h \in Threads : req'[h] = Idle
      /\ db' = db /\ draft' = db /\ writer' = NoRequest
      /\ blamed' = blamed \cup UNION {InHand(h) : h \in Cloning} /\ robbed' = {}
      /\ UNCHANGED <<guests, spent>>
  BY <1>0, CrashFacts
<1>2. Removed' /\ Recorded'
  BY <1>1, IdleFields DEF Removed, RemovedFor, Removals, Recorded
<1>3. Dropped'
  BY <1>1, DroppedSaved
<1>4. NoGuestUnaccounted'
  BY <1>1 DEF Ledger, NoGuestUnaccounted, Rows
<1> QED  BY <1>2, <1>3, <1>4 DEF Ledger

LEMMA LedgerInit == ASSUME Init PROVE Ledger
<1>1. /\ TypeOK /\ draft = db /\ guests = [v \in Vmids |-> NoGuest] /\ req = [h \in Threads |-> Idle]
  BY ShapeInit DEF Init, Shape
<1>2. Removed /\ Recorded
  BY <1>1, IdleFields DEF Removed, RemovedFor, Removals, Recorded
<1>3. Dropped
  BY <1>1 DEF Dropped
<1>4. NoGuestUnaccounted
  BY <1>1 DEF NoGuestUnaccounted
<1> QED  BY <1>2, <1>3, <1>4 DEF Ledger

LEMMA LedgerStep == ASSUME Shape, Truth, Ledger, [Next]_vars PROVE Ledger'
<1>0. TypeOK /\ AllFit /\ OneWriter /\ Removed /\ Dropped /\ Recorded /\ NoGuestUnaccounted
  BY DEF Shape, Ledger
<1>1. CASE UNCHANGED vars
  BY <1>1 DEF Ledger, Removed, RemovedFor, Emptied, Dropped, Recorded, NoGuestUnaccounted, Rows,
     Cloning, InHand, vars, history, bounds
<1>2. CASE Crash
  BY <1>2, CrashLedger
<1>3. ASSUME NEW h \in Threads, Starting(h) \/ Working(h) \/ Loud(h) PROVE Ledger'
  <2>1. Alone(h) /\ (Quiet(h) \/ Loud(h))
    BY <1>0, <1>3, StepFacts
  <2>2. DbGrows /\ spent \cap Made(db) \subseteq spent'
    BY <2>1, RowsStep, SpentStays
  <2>3. Removed' /\ Dropped'
    BY <1>0, <1>3, <2>1, <2>2, RemovedStep, DroppedStep
  <2>4. Recorded'
    BY <1>0, <1>3, <2>1, RecordedStep
  <2>5. NoGuestUnaccounted'
    BY <1>0, <1>3, KnownNext
  <2> QED  BY <2>3, <2>4, <2>5 DEF Ledger
<1> QED  BY <1>1, <1>2, <1>3, Steps0

\* A guest cloned for an owner is named by a committed record, or in the hands of the
\* request that cloned it, unless the code knows, or could know, that it lost it:
\* collisions of names, templates and pools that fail, and the rollback of an aborted
\* deletion leave no guest without a record.
THEOREM NoneUnaccounted == Spec => []NoGuestUnaccounted
<1>1. Init => Ledger
  BY LedgerInit
<1>2. Shape /\ Truth /\ Ledger /\ [Next]_vars => Ledger'
  BY LedgerStep
<1>3. Ledger => NoGuestUnaccounted
  BY DEF Ledger
<1> QED  BY <1>1, <1>2, <1>3, ShapeHolds, TruthHolds, PTL DEF Spec

-----------------------------------------------------------------------------
(* The last administrator.                                                  *)

\* Accounts are written by administrators, and committed by the next step.
AccountsKept ==
    draft.users # db.users => writer \in Desk /\ req[writer].step \in {"onboard", "commit"}

\* A request that is about to take an administrator away, and the others that remain.
Dismisses(r) ==
    /\ r.kind = "deleteUser" \/ (r.kind = "update" /\ r.change \in {"demote", "disable"})
    /\ r.step \in {"destroy", "forget", "write"}
OthersRemain ==
    /\ ActiveAdmins(db) # {} /\ ActiveAdmins(draft) # {}
    /\ \A h \in Desk : Dismisses(req[h]) => ActiveAdmins(db) \ {req[h].user} # {}

Watch == AccountsKept /\ OthersRemain

LEMMA AdminsOf == ASSUME NEW d, NEW e, d.users = e.users PROVE ActiveAdmins(d) = ActiveAdmins(e)
<1> QED  BY DEF ActiveAdmins, Live

LEMMA AdminsNext ==
    /\ db'.users = db.users => ActiveAdmins(db)' = ActiveAdmins(db)
    /\ db'.users = draft.users => ActiveAdmins(db)' = ActiveAdmins(draft)
    /\ draft'.users = draft.users => ActiveAdmins(draft)' = ActiveAdmins(draft)
    /\ draft'.users = db.users => ActiveAdmins(draft)' = ActiveAdmins(db)
<1> QED  BY DEF ActiveAdmins, Live

LEMMA WritesCommitted ==
    ASSUME Shape, AccountsKept, NEW h \in Threads, CanWrite(h), req[h].step \notin {"onboard", "commit"}
    PROVE  draft.users = db.users
<1> QED  BY DEF Shape, OneWriter, AccountsKept, CanWrite

LEMMA Calm ==
    ASSUME Shape, Watch, NEW h \in Threads, Alone(h), req[h].step \notin {"onboard", "commit"},
           \/ Reading \/ Rollback(h)
           \/ CanWrite(h) /\ draft'.users = draft.users /\ (db' = db \/ db' = draft'),
           Dismisses(req'[h]) => ActiveAdmins(db) \ {req'[h].user} # {}
    PROVE  Watch'
<1>0. AccountsKept /\ OthersRemain /\ writer \in Threads \cup {NoRequest} /\ TypeOK /\ Desk \subseteq Threads
  BY DEF Watch, Shape, TypeOK, Threads
<1>1. CASE Reading
  <2>1. AccountsKept'
    BY <1>0, <1>1, Apart0 DEF AccountsKept, Reading, Alone
  <2>2. db'.users = db.users /\ draft'.users = draft.users
    BY <1>1 DEF Reading
  <2> QED  BY <1>0, <2>1, <2>2, AdminsNext DEF Watch, OthersRemain, Alone
<1>2. CASE writer = h /\ Rollback(h)
  <2>1. db'.users = db.users /\ draft'.users = db.users
    BY <1>0, <1>2, Rolled
  <2>2. AccountsKept'
    BY <2>1 DEF AccountsKept
  <2> QED  BY <1>0, <2>1, <2>2, AdminsNext DEF Watch, OthersRemain, Alone
<1>3. CASE CanWrite(h) /\ draft'.users = draft.users /\ (db' = db \/ db' = draft')
  <2>1. draft.users = db.users
    BY <1>0, <1>3, WritesCommitted
  <2>2. db'.users = db.users /\ draft'.users = draft.users
    BY <1>3, <2>1
  <2>3. AccountsKept'
    BY <2>1, <2>2 DEF AccountsKept
  <2> QED  BY <1>0, <2>2, <2>3, AdminsNext DEF Watch, OthersRemain, Alone
<1> QED  BY <1>1, <1>2, <1>3 DEF Rollback, Reading

LEMMA AnotherAdmin ==
    ASSUME NEW S, NEW u, S # {}, u \in S => Cardinality(S) > 1
    PROVE  S \ {u} # {}
<1>1. CASE u \notin S
  BY <1>1
<1>2. CASE u \in S /\ S \ {u} = {}
  <2>1. S = {u}
    BY <1>2
  <2>2. Cardinality(S) = 1
    BY <2>1, FS_Singleton
  <2> QED  BY <1>2, <2>2
<1> QED  BY <1>1, <1>2

LEMMA StartingWatch ==
    ASSUME Shape, Watch, NEW h \in Threads, Starting(h)
    PROVE  Dismisses(req'[h]) => ActiveAdmins(db) \ {req'[h].user} # {}
<1>0. TypeOK /\ AllFit /\ ActiveAdmins(db) # {}
  BY DEF Shape, Watch, OthersRemain
<1>1. CASE \E u \in Users, t \in Templates, x \in Suffixes : BeginCreate(h, u, t, x)
  BY <1>0, <1>1, CreateFacts DEF Dismisses
<1>2. CASE \E u \in Users, c \in Changes : BeginUpdate(h, u, c)
  <2>1. PICK u \in Users, c \in Changes : BeginUpdate(h, u, c)
    BY <1>2
  <2>2. /\ req'[h].kind = "update" /\ req'[h].user = u /\ req'[h].change = c
        /\ c \in {"demote", "disable"} => LeavesAnAdmin(db, u)
    BY <1>0, <2>1, UpdateFacts
  <2>3. c \in {"demote", "disable"} => ActiveAdmins(db) \ {u} # {}
    BY <1>0, <2>2, AnotherAdmin DEF LeavesAnAdmin
  <2> QED  BY <2>2, <2>3 DEF Dismisses
<1>3. CASE \E u \in Users, to \in Users \cup {Nobody} : BeginDeleteUser(h, u, to)
  BY <1>0, <1>3, DeleteFacts
<1>4. CASE \E s \in Servers : BeginRemove(h, s)
  BY <1>0, <1>4, RemoveFacts DEF Dismisses
<1>5. CASE \E s \in Servers, size \in 1 .. MaxDisk : BeginResize(h, s, size)
  BY <1>0, <1>5, ResizeFacts DEF Dismisses
<1>6. CASE CheckQuota(h)
  BY <1>0, <1>6, QuotaFacts, IdleFields DEF Dismisses
<1>7. CASE TakeId(h)
  BY <1>0, <1>7, TakeFacts DEF Dismisses
<1>8. CASE SkipTemplate(h)
  BY <1>0, <1>8, SkipFacts, IdleFields DEF Dismisses
<1> QED  BY <1>1, <1>2, <1>3, <1>4, <1>5, <1>6, <1>7, <1>8 DEF Starting

\* What has been read is still so when it is written: no other administrator's request
\* comes between.
OneDesk == \A h, k \in Desk : h = k

LEMMA DeskWatch ==
    ASSUME OneDesk, NEW h \in Desk, ~Dismisses(req'[h]), AccountsKept',
           ActiveAdmins(db)' # {}, ActiveAdmins(draft)' # {}
    PROVE  Watch'
<1>1. \A k \in Desk : ~Dismisses(req'[k])
  BY DEF OneDesk
<1> QED  BY <1>1 DEF Watch, OthersRemain

LEMMA SaveWatch ==
    ASSUME OneDesk, Shape, Watch, NEW h \in Threads, Finish(h) \/ Onboard(h) \/ CommitDelete(h)
    PROVE  Watch'
<1>0. TypeOK /\ AllFit /\ OneWriter /\ AccountsKept /\ OthersRemain
  BY DEF Shape, Watch
<1>1. /\ Alone(h) /\ req[h].step \in Committing /\ req'[h].step \in {"idle", "nextid"}
      /\ db' = draft /\ draft' = draft
  BY <1>0, FinishFacts, CommitDeleteFacts, IdleFields DEF Committing
<1>2. writer = h /\ ~Dismisses(req'[h])
  BY <1>0, <1>1 DEF OneWriter, Dismisses
<1>3. AccountsKept'
  BY <1>1 DEF AccountsKept
<1>4. ActiveAdmins(db)' # {} /\ ActiveAdmins(draft)' # {}
  BY <1>0, <1>1, AdminsNext DEF OthersRemain
<1>5. CASE h \in Desk
  BY <1>2, <1>3, <1>4, <1>5, DeskWatch
<1>6. CASE h \notin Desk
  <2>1. draft.users = db.users
    BY <1>0, <1>2, <1>6 DEF AccountsKept
  <2>2. ActiveAdmins(db)' = ActiveAdmins(db)
    BY <1>1, <2>1, AdminsNext
  <2>3. \A k \in Desk : req'[k] = req[k]
    BY <1>1, <1>6 DEF Alone, Threads
  <2> QED  BY <1>0, <1>3, <1>4, <2>2, <2>3 DEF Watch, OthersRemain
<1> QED  BY <1>5, <1>6

\* Every administrator but one is left by a change of that one.
LEMMA OthersStay ==
    ASSUME TypeOK, NEW u \in Users, NEW new \in Account, NEW e,
           e.users = [draft.users EXCEPT ![u] = new]
    PROVE  /\ ActiveAdmins(draft) \ {u} \subseteq ActiveAdmins(e)
           /\ new.state = "live" /\ new.admin /\ new.active => u \in ActiveAdmins(e)
<1>1. draft.users \in [Users -> Account]
  BY DEF TypeOK, Database
<1> QED  BY <1>1 DEF ActiveAdmins, Live

LEMMA JoinsWatch ==
    ASSUME OneDesk, Shape, Watch, NEW h \in Threads, NEW u \in Users, Joins(h, u)
    PROVE  Watch'
<1>0. TypeOK /\ AllFit /\ AccountsKept /\ OthersRemain
  BY DEF Shape, Watch
<1>1. /\ h \in Desk /\ req'[h].step = "onboard" /\ writer' = h /\ db' = db
      /\ draft.users[u].state = "unborn"
  BY <1>0, NewUserFacts
<1>2. PICK new \in Account : draft'.users = [draft.users EXCEPT ![u] = new]
  BY <1>0, NewUserFacts
<1>3. u \notin ActiveAdmins(draft)
  BY <1>1 DEF ActiveAdmins, Live
<1>4. ActiveAdmins(draft) \subseteq ActiveAdmins(draft')
  BY <1>0, <1>2, <1>3, OthersStay
<1>5. ActiveAdmins(draft)' # {} /\ ActiveAdmins(db)' # {}
  BY <1>0, <1>1, <1>4, AdminsNext DEF OthersRemain, ActiveAdmins, Live
<1>6. AccountsKept' /\ ~Dismisses(req'[h])
  BY <1>1 DEF AccountsKept, Dismisses
<1> QED  BY <1>1, <1>5, <1>6, DeskWatch

LEMMA UpdateWatch ==
    ASSUME OneDesk, Shape, Watch, NEW h \in Threads, WriteUpdate(h)
    PROVE  Watch'
<1>0. TypeOK /\ AllFit /\ AccountsKept /\ OthersRemain
  BY DEF Shape, Watch
<1> DEFINE r == req[h]
<1>1. Alone(h) /\ req'[h] = Idle /\ r.step = "write" /\ r.kind = "update" /\ CanWrite(h)
  BY <1>0, WriteUpdateFacts
<1>2. h \in Desk
  <2>1. h \notin Portal
    BY <1>0, <1>1 DEF AllFit, Fit
  <2> QED  BY <2>1 DEF Threads
<1>3. CASE Reading
  BY <1>1, <1>3, IdleFields, Calm DEF Dismisses
<1>4. CASE /\ draft' = db' /\ Live(draft, r.user) /\ r.user \in Users
           /\ db'.users = [draft.users EXCEPT ![r.user] = Changed(draft.users[r.user], r.change)]
  <2> DEFINE a == draft.users[r.user]
             new == Changed(a, r.change)
  <2>1. a \in Account /\ a.state = "live"
    BY <1>0, <1>4 DEF TypeOK, Database, Live
  <2>2. new \in Account /\ new.state = "live"
        /\ (r.change \notin {"demote", "disable"} /\ a.admin /\ a.active => new.admin /\ new.active)
    BY <2>1, ChangedAccount
  <2>3. db'.users = [draft.users EXCEPT ![r.user] = new]
    BY <1>4
  <2> HIDE DEF new
  <2>4. /\ ActiveAdmins(draft) \ {r.user} \subseteq ActiveAdmins(db')
        /\ new.state = "live" /\ new.admin /\ new.active => r.user \in ActiveAdmins(db')
    BY <1>0, <1>4, <2>2, <2>3, OthersStay
  <2>5. ActiveAdmins(draft) = ActiveAdmins(db)
    BY <1>0, <1>1, WritesCommitted, AdminsOf
  <2>6. ActiveAdmins(db') # {}
    <3>1. CASE r.change \in {"demote", "disable"}
      <4>1. ActiveAdmins(db) \ {r.user} # {}
        BY <1>0, <1>1, <1>2, <3>1 DEF OthersRemain, Dismisses
      <4> QED  BY <2>4, <2>5, <4>1
    <3>2. CASE r.change \notin {"demote", "disable"}
      <4>1. PICK b : b \in ActiveAdmins(draft)
        BY <1>0 DEF OthersRemain
      <4>2. b = r.user => a.admin /\ a.active
        BY <4>1 DEF ActiveAdmins
      <4> QED  BY <2>2, <2>4, <3>2, <4>1, <4>2
    <3> QED  BY <3>1, <3>2
  <2>7. ActiveAdmins(db)' # {} /\ ActiveAdmins(draft)' # {}
    BY <1>4, <2>6 DEF ActiveAdmins, Live
  <2>8. AccountsKept' /\ ~Dismisses(req'[h])
    BY <1>1, <1>4, IdleFields DEF AccountsKept, Dismisses
  <2> QED  BY <1>2, <2>7, <2>8, DeskWatch
<1> QED  BY <1>0, <1>3, <1>4, WriteUpdateFacts DEF Reading

LEMMA DeleteWatch ==
    ASSUME OneDesk, Shape, Watch, NEW h \in Threads, WriteDelete(h)
    PROVE  Watch'
<1>0. TypeOK /\ AllFit /\ AccountsKept /\ OthersRemain
  BY DEF Shape, Watch
<1> DEFINE r == req[h]
<1>1. Alone(h) /\ r.step = "write" /\ r.kind = "deleteUser" /\ CanWrite(h) /\ r.user \in Users
  BY <1>0, WriteDeleteFacts
<1>2. h \in Desk
  <2>1. h \notin Portal
    BY <1>0, <1>1 DEF AllFit, Fit
  <2> QED  BY <2>1 DEF Threads
<1>3. CASE req'[h] = Idle /\ Rollback(h)
  BY <1>1, <1>3, IdleFields, Calm DEF Dismisses
<1>4. CASE /\ req'[h].step = "commit" /\ db' = db /\ writer' = h
           /\ draft'.users = [draft.users EXCEPT ![r.user] = Deleted]
  <2>1. Deleted \in Account
    BY DEF Deleted, Account
  <2>2. ActiveAdmins(draft) \ {r.user} \subseteq ActiveAdmins(draft')
    BY <1>0, <1>1, <1>4, <2>1, OthersStay
  <2>3. ActiveAdmins(draft) = ActiveAdmins(db)
    BY <1>0, <1>1, WritesCommitted, AdminsOf
  <2>4. ActiveAdmins(db) \ {r.user} # {}
    BY <1>0, <1>1, <1>2 DEF OthersRemain, Dismisses
  <2>5. ActiveAdmins(db)' # {} /\ ActiveAdmins(draft)' # {}
    BY <1>0, <1>4, <2>2, <2>3, <2>4 DEF OthersRemain, ActiveAdmins, Live
  <2>6. AccountsKept' /\ ~Dismisses(req'[h])
    BY <1>2, <1>4 DEF AccountsKept, Dismisses
  <2> QED  BY <1>2, <2>5, <2>6, DeskWatch
<1> QED  BY <1>0, <1>3, <1>4, WriteDeleteFacts

LEMMA WatchNext ==
    ASSUME OneDesk, Shape, Watch, NEW h \in Threads, Starting(h) \/ Working(h) \/ Loud(h)
    PROVE  Watch'
<1>0. TypeOK /\ AllFit /\ OneWriter /\ OthersRemain
  BY DEF Shape, Watch
<1>1. CASE Starting(h)
  <2>1. Alone(h) /\ Reading /\ req[h].step \in {"idle", "quota", "nextid"}
    BY <1>0, <1>1, StartingIsQuiet DEF Quiet
  <2> QED  BY <1>1, <2>1, StartingWatch, Calm
<1>2. CASE \E t \in Templates : DeleteTemplate(h, t)
  <2>1. /\ req' = req /\ req[h].step = "idle" /\ CanWrite(h) /\ draft' = db'
        /\ draft'.users = draft.users
    BY <1>0, <1>2, TemplateFacts
  <2> QED  BY <2>1, Calm DEF Alone, Dismisses
<1>3. CASE Record(h)
  <2>1. /\ Alone(h) /\ req[h].step = "record" /\ CanWrite(h) /\ req'[h].step \in {"finish", "idle", "nextid"}
        /\ Rollback(h) \/ (draft'.users = draft.users /\ db' = db)
    BY <1>0, <1>3, RecordFacts, IdleFields DEF Inserts
  <2> QED  BY <2>1, Calm DEF Dismisses
<1>4. CASE Forget(h)
  <2>1. /\ Alone(h) /\ req[h].step = "forget" /\ CanWrite(h) /\ draft'.users = draft.users /\ db' = db
        /\ req'[h].kind = req[h].kind /\ req'[h].user = req[h].user /\ req'[h].change = req[h].change
    BY <1>0, <1>4, ForgetFacts
  <2>2. h \in Desk
    <3>1. h \notin Portal
      BY <1>0, <2>1 DEF AllFit, Fit, Removals
    <3> QED  BY <3>1 DEF Threads
  <2>3. Dismisses(req'[h]) => Dismisses(req[h])
    BY <2>1 DEF Dismisses
  <2> QED  BY <1>0, <2>1, <2>2, <2>3, Calm DEF OthersRemain
<1>5. CASE Destroy(h)
  <2>1. /\ Alone(h) /\ req[h].step = "destroy" /\ (Reading \/ Rollback(h))
        /\ req'[h] = Idle \/ SameTask(req'[h], req[h])
    BY <1>0, <1>5, DestroyFacts DEF Destroys, Reading
  <2>2. h \in Desk
    <3>1. h \notin Portal
      BY <1>0, <2>1 DEF AllFit, Fit, Removals
    <3> QED  BY <3>1 DEF Threads
  <2>3. Dismisses(req'[h]) => Dismisses(req[h]) /\ req'[h].user = req[h].user
    BY <2>1, IdleFields DEF Dismisses, SameTask
  <2> QED  BY <1>0, <2>1, <2>2, <2>3, Calm DEF OthersRemain
<1>6. CASE BusyTimeout(h) \/ Clone(h) \/ Wait(h)
  <2>1. /\ Alone(h) /\ Reading /\ req[h].step \in {"record", "write", "forget", "clone", "wait"}
        /\ req'[h].step \in {"idle", "nextid", "wait", "record"}
    BY <1>0, <1>6, BusyFacts, CloneFacts, WaitFacts, IdleFields DEF Reading
  <2> QED  BY <2>1, Calm DEF Dismisses
<1>7. CASE Apply(h)
  <2>1. /\ Alone(h) /\ Reading /\ req[h].step = "apply" /\ req[h].kind = "resize"
        /\ req'[h] = Idle \/ SameTask(req'[h], req[h])
    BY <1>0, <1>7, ApplyFacts DEF Reading
  <2> QED  BY <2>1, IdleFields, Calm DEF Dismisses, SameTask
<1>8. CASE WriteResize(h)
  <2>1. /\ Alone(h) /\ req[h].step = "write" /\ CanWrite(h) /\ req'[h] = Idle
        /\ Reading \/ (draft' = db' /\ draft'.users = draft.users)
    BY <1>0, <1>8, WriteResizeFacts DEF Reading
  <2> QED  BY <2>1, IdleFields, Calm DEF Dismisses
<1> QED  BY <1>1, <1>2, <1>3, <1>4, <1>5, <1>6, <1>7, <1>8, JoinsWatch, UpdateWatch, DeleteWatch,
         SaveWatch DEF Working, Loud

LEMMA WatchInit == ASSUME Init PROVE Watch
<1>1. draft = db /\ req = [h \in Threads |-> Idle] /\ Desk \subseteq Threads
  BY DEF Init, Threads
<1>2. PICK Born \in SUBSET Users : db.users =
              [u \in Users |-> [state |-> IF u \in Born THEN "live" ELSE "unborn",
                                admin |-> u \in Admins, active |-> u \in Born]]
  BY DEF Init
<1>3. PICK a \in Admins : a \in Users /\ db.users[a].active
  BY AdminsAssumption DEF Init
<1>4. a \in ActiveAdmins(db)
  <2> DEFINE st == IF a \in Born THEN "live" ELSE "unborn"
             ad == a \in Admins
             ac == a \in Born
  <2>1. db.users[a] = [state |-> st, admin |-> ad, active |-> ac]
    BY <1>2, <1>3
  <2>2. ad \in BOOLEAN /\ ac \in BOOLEAN /\ (ac => st = "live") /\ ad
    BY <1>3
  <2> HIDE DEF st, ad, ac
  <2>3. db.users[a].state = st /\ db.users[a].admin = ad /\ db.users[a].active = ac
    BY <2>1, <2>2, SMT
  <2>4. db.users[a].state = "live" /\ db.users[a].admin /\ db.users[a].active
    BY <1>3, <2>2, <2>3
  <2> QED  BY <1>3, <2>4 DEF ActiveAdmins, Live
<1>5. \A h \in Desk : ~Dismisses(req[h])
  BY <1>1, IdleFields DEF Dismisses
<1> QED  BY <1>1, <1>4, <1>5 DEF Watch, AccountsKept, OthersRemain

LEMMA WatchStep == ASSUME OneDesk, Shape, Watch, [Next]_vars PROVE Watch'
<1>1. CASE UNCHANGED vars
  BY <1>1 DEF Watch, AccountsKept, OthersRemain, ActiveAdmins, Live, Dismisses, vars
<1>2. CASE Crash
  <2>1. (\A h \in Threads : req'[h] = Idle) /\ db' = db /\ draft' = db /\ Desk \subseteq Threads
    BY <1>2, CrashFacts DEF Shape, Threads
  <2>2. \A h \in Desk : ~Dismisses(req'[h])
    BY <2>1, IdleFields DEF Dismisses
  <2> QED  BY <2>1, <2>2, AdminsNext DEF Watch, AccountsKept, OthersRemain
<1>3. ASSUME NEW h \in Threads, Starting(h) \/ Working(h) \/ Loud(h) PROVE Watch'
  BY <1>3, WatchNext
<1> QED  BY <1>1, <1>2, <1>3, Steps0

\* While administrators' requests are served one at a time, no interleaving of an update
\* or a deletion of accounts with owners' requests, failures and crashes leaves the
\* system without an active administrator.
THEOREM SomeoneAdministers == ASSUME OneDesk PROVE Spec => []AnAdminRemains
<1>1. Init => Watch
  BY WatchInit
<1>2. Shape /\ Watch /\ [Next]_vars => Watch'
  BY WatchStep
<1>3. Watch => AnAdminRemains
  BY DEF Watch, OthersRemain, AnAdminRemains
<1> QED  BY <1>1, <1>2, <1>3, ShapeHolds, PTL DEF Spec

-----------------------------------------------------------------------------
(* What owners create for themselves.                                       *)

SelfMadeIn(d, u) == {s \in Counted(d, u) : /\ ~d.rows[s].adminModified
                                           /\ d.rows[s].name.owner = u}

\* A server changes hands only when the account it was made for is deleted.
Heirs(d) ==
    \A s \in Servers : d.rows[s].state = "live" =>
        \/ d.rows[s].owner = d.rows[s].name.owner
        \/ /\ d.rows[s].name.owner \in Users
           /\ d.users[d.rows[s].name.owner].state = "deleted"

\* The writer is ahead of the database by one server of the owner it creates for at most.
Ahead ==
    \A u \in Users :
        \/ SelfMadeIn(draft, u) \subseteq SelfMadeIn(db, u)
        \/ /\ writer \in UnderWay(u) /\ req[writer].step = "finish"
           /\ \E s \in Servers : SelfMadeIn(draft, u) \subseteq SelfMadeIn(db, u) \cup {s}

Quota == Heirs(db) /\ Heirs(draft) /\ Ahead /\ OvershootIsBounded

\* Writes that add no server: records stay with their owner or go to an heir.
Follows(d, e) ==
    /\ \A u \in Users : d.users[u].state = "deleted" => e.users[u].state = "deleted"
    /\ \A s \in Servers : e.rows[s].state = "live" =>
          /\ d.rows[s].state = "live" /\ e.rows[s].name = d.rows[s].name
          /\ e.rows[s].vmid = d.rows[s].vmid
          /\ d.rows[s].adminModified => e.rows[s].adminModified
          /\ \/ e.rows[s].owner = d.rows[s].owner
             \/ /\ e.rows[s].owner \in Users /\ Live(d, e.rows[s].owner)
                /\ d.rows[s].owner \in Users /\ e.users[d.rows[s].owner].state = "deleted"

LEMMA SelfMadeFields ==
    ASSUME NEW d, NEW u, NEW s
    PROVE  s \in SelfMadeIn(d, u) <=>
              /\ s \in Servers /\ d.rows[s].state = "live" /\ d.rows[s].owner = u
              /\ d.rows[s].vmid # NoVmid /\ ~d.rows[s].adminModified /\ d.rows[s].name.owner = u
<1> QED  BY DEF SelfMadeIn, Counted, Created, Owned, Rows

LEMMA Following ==
    ASSUME NEW d, NEW e, Heirs(d), Follows(d, e)
    PROVE  Heirs(e) /\ \A u \in Users : SelfMadeIn(e, u) \subseteq SelfMadeIn(d, u)
<1>1. Heirs(e)
  BY DEF Heirs, Follows
<1>2. ASSUME NEW u \in Users, NEW s \in SelfMadeIn(e, u) PROVE s \in SelfMadeIn(d, u)
  <2>1. /\ s \in Servers /\ e.rows[s].state = "live" /\ e.rows[s].owner = u
        /\ e.rows[s].vmid # NoVmid /\ ~e.rows[s].adminModified /\ e.rows[s].name.owner = u
    BY <1>2, SelfMadeFields
  <2>2. /\ d.rows[s].state = "live" /\ d.rows[s].vmid # NoVmid /\ d.rows[s].name.owner = u
        /\ ~d.rows[s].adminModified
        /\ d.rows[s].owner = u \/ Live(d, u)
    BY <2>1 DEF Follows
  <2>3. d.rows[s].owner = u
    BY <2>1, <2>2 DEF Heirs, Live
  <2> QED  BY <2>1, <2>2, <2>3, SelfMadeFields
<1> QED  BY <1>1, <1>2

LEMMA SameDatabase ==
    ASSUME NEW d, NEW e, e.rows = d.rows,
           \A u \in Users : d.users[u].state = "deleted" => e.users[u].state = "deleted"
    PROVE  Follows(d, e)
<1> QED  BY DEF Follows

LEMMA RowFollows ==
    ASSUME TypeOK, NEW e, NEW t \in Servers, NEW row \in Row, e.users = draft.users,
           e.rows = [draft.rows EXCEPT ![t] = row],
           row.state = "live" =>
              /\ draft.rows[t].state = "live" /\ row.name = draft.rows[t].name
              /\ row.vmid = draft.rows[t].vmid /\ row.owner = draft.rows[t].owner
              /\ draft.rows[t].adminModified => row.adminModified
    PROVE  Follows(draft, e)
<1>1. draft.rows \in [Servers -> Row]
  BY DEF TypeOK, Database
<1>2. e.rows[t] = row /\ \A s \in Servers : s # t => e.rows[s] = draft.rows[s]
  BY <1>1
<1> QED  BY <1>2 DEF Follows

LEMMA UserFollows ==
    ASSUME TypeOK, NEW e, NEW u \in Users, NEW new \in Account, e.rows = draft.rows,
           e.users = [draft.users EXCEPT ![u] = new],
           draft.users[u].state = "deleted" => new.state = "deleted"
    PROVE  Follows(draft, e)
<1>1. draft.users \in [Users -> Account]
  BY DEF TypeOK, Database
<1>2. \A k \in Users : draft.users[k].state = "deleted" => e.users[k].state = "deleted"
  BY <1>1
<1> QED  BY <1>2, SameDatabase

\* The writes of requests that add no server.
LEMMA WritesFollow ==
    ASSUME TypeOK, AllFit, NEW h \in Threads,
           \/ \E u \in Users : Joins(h, u)
           \/ \E t \in Templates : DeleteTemplate(h, t)
           \/ WriteUpdate(h) /\ ~Reading
           \/ WriteResize(h) /\ ~Reading
           \/ Forget(h)
           \/ WriteDelete(h) /\ ~Rollback(h)
    PROVE  Follows(draft, draft')
<1>0. draft.rows \in [Servers -> Row] /\ draft.users \in [Users -> Account] /\ draft \in Database
  BY DEF TypeOK, Database
<1>1. CASE \E u \in Users : Joins(h, u)
  <2>1. PICK u \in Users : Joins(h, u)
    BY <1>1
  <2>2. draft'.rows = draft.rows /\ draft.users[u].state = "unborn"
    BY <2>1, NewUserFacts
  <2>3. PICK new \in Account : draft'.users = [draft.users EXCEPT ![u] = new]
    BY <2>1, NewUserFacts
  <2> QED  BY <2>2, <2>3, UserFollows
<1>2. CASE \E t \in Templates : DeleteTemplate(h, t)
  <2>1. draft'.rows = draft.rows /\ draft'.users = draft.users
    BY <1>2, TemplateFacts
  <2> QED  BY <2>1, SameDatabase
<1>3. CASE WriteUpdate(h) /\ ~Reading
  <2> DEFINE r == req[h]
             new == Changed(draft.users[r.user], r.change)
  <2>1. /\ draft' = db' /\ r.user \in Users /\ draft'.rows = draft.rows
        /\ draft'.users = [draft.users EXCEPT ![r.user] = new]
    BY <1>3, WriteUpdateFacts DEF Reading
  <2>2. new \in Account /\ new.state = draft.users[r.user].state
    BY <1>0, <2>1, ChangedAccount
  <2> HIDE DEF new
  <2> QED  BY <2>1, <2>2, UserFollows
<1>4. CASE WriteResize(h) /\ ~Reading
  <2>1. PICK s \in Servers : /\ s \in Owned(draft, req[h].user) /\ draft'.users = draft.users
                             /\ draft'.rows = [draft.rows EXCEPT ![s] = Resized(draft.rows[s], req[h])]
    BY <1>4, WriteResizeFacts DEF Reading
  <2> DEFINE new == Resized(draft.rows[s], req[h])
  <2>2. /\ new \in Row /\ new.state = draft.rows[s].state /\ new.owner = draft.rows[s].owner
        /\ new.name = draft.rows[s].name /\ new.vmid = draft.rows[s].vmid
        /\ draft.rows[s].adminModified => new.adminModified
    BY <1>0, Requests, ResizedFacts
  <2>3. draft'.rows = [draft.rows EXCEPT ![s] = new]
    BY <2>1
  <2> HIDE DEF new
  <2> QED  BY <2>1, <2>2, <2>3, RowFollows
<1>5. CASE Forget(h)
  <2>1. PICK s \in Servers : \/ draft' = draft
                             \/ draft'.rows = [draft.rows EXCEPT ![s] = DeletedRow(draft.rows[s])]
    BY <1>5, ForgetFacts
  <2>2. draft'.users = draft.users
    BY <1>5, ForgetFacts
  <2>3. CASE draft' = draft
    BY <2>2, <2>3, SameDatabase
  <2>4. CASE draft'.rows = [draft.rows EXCEPT ![s] = DeletedRow(draft.rows[s])]
    <3> DEFINE new == DeletedRow(draft.rows[s])
    <3>1. new \in Row /\ new.state # "live"
      BY <1>0, DeletedRowFacts
    <3>2. draft'.rows = [draft.rows EXCEPT ![s] = new]
      BY <2>4
    <3> HIDE DEF new
    <3> QED  BY <2>2, <3>1, <3>2, RowFollows
  <2> QED  BY <2>1, <2>3, <2>4
<1>6. CASE WriteDelete(h) /\ ~Rollback(h)
  <2> DEFINE r == req[h]
             mine == Owned(draft, r.user)
             after == [s \in Servers |-> IF s \in mine THEN Inherited(draft.rows[s], r.to)
                                         ELSE draft.rows[s]]
  <2>1. /\ r.user \in Users /\ r.to \in Users \cup {Nobody}
        /\ r.to # Nobody /\ mine # {} => Live(draft, r.to)
        /\ draft'.users = [draft.users EXCEPT ![r.user] = Deleted]
        /\ draft'.rows = after
    BY <1>6, WriteDeleteFacts, Requests DEF Request
  <2>2. /\ draft'.users[r.user].state = "deleted"
        /\ \A u \in Users : draft.users[u].state = "deleted" => draft'.users[u].state = "deleted"
    BY <1>0, <2>1 DEF Deleted
  <2>3. \A s \in Servers : draft'.rows[s] = IF s \in mine THEN Inherited(draft.rows[s], r.to)
                                            ELSE draft.rows[s]
    BY <2>1
  <2>4. ASSUME NEW s \in mine, draft'.rows[s].state = "live"
        PROVE  /\ s \in Servers /\ draft.rows[s].state = "live" /\ draft.rows[s].owner = r.user
               /\ draft'.rows[s].name = draft.rows[s].name
               /\ draft'.rows[s].vmid = draft.rows[s].vmid
               /\ draft'.rows[s].adminModified = draft.rows[s].adminModified
               /\ draft'.rows[s].owner = r.to /\ r.to \in Users /\ Live(draft, r.to)
    <3>1. s \in Servers /\ draft.rows[s].state = "live" /\ draft.rows[s].owner = r.user
      BY DEF Owned, Rows
    <3>2. draft'.rows[s] = Inherited(draft.rows[s], r.to) /\ draft.rows[s] \in Row
      BY <1>0, <2>3, <3>1
    <3>3. r.to # Nobody
      BY <2>1, <2>4, <3>2, InheritedFacts
    <3> HIDE DEF mine
    <3>4. r.to \in Users /\ Live(draft, r.to)
      BY <2>1, <3>3
    <3> QED  BY <2>1, <3>1, <3>2, <3>3, <3>4, InheritedFacts
  <2> HIDE DEF mine, after
  <2> QED  BY <2>1, <2>2, <2>3, <2>4 DEF Follows
<1> QED  BY <1>1, <1>2, <1>3, <1>4, <1>5, <1>6

\* The server an owner's creation records is its only one that is not committed.
LEMMA InsertsOne ==
    ASSUME TypeOK, AllFit, RowsKept, Heirs(draft), NEW h \in Threads, NEW s \in Lowest(Unused),
           Inserts(h, s), req[h].step = "record"
    PROVE  /\ Heirs(draft')
           /\ \A u \in Users :
                 \/ SelfMadeIn(draft', u) \subseteq SelfMadeIn(draft, u)
                 \/ /\ h \in Portal /\ req[h].kind = "create" /\ req[h].user = u /\ s \in Servers
                    /\ SelfMadeIn(draft', u) \subseteq SelfMadeIn(draft, u) \cup {s}
<1> DEFINE new == NewRow(req[h])
<1>1. /\ s \in Servers /\ draft'.rows[s] = new
      /\ \A t \in Servers : t # s => draft'.rows[t] = draft.rows[t]
  BY InsertRows DEF TypeOK, Database, Inserts, Lowest, Unused
<1>2. /\ req[h] \in Request /\ req[h].name.disc = Plain /\ req[h].name.owner = req[h].user
      /\ req[h].kind \in {"create", "newUser"} /\ (h \in Desk => req[h].admin)
      /\ h \in Portal => req[h].kind \in {"none", "create", "resize"}
  BY Requests DEF AllFit, Fit, Named
<1>3. /\ new.owner = req[h].user /\ new.name.owner = req[h].user
      /\ new.adminModified = req[h].admin
  BY <1>2, RowFacts
<1>4. draft'.users = draft.users
  BY DEF Inserts
<1> HIDE DEF new
<1>5. Heirs(draft')
  BY <1>1, <1>3, <1>4 DEF Heirs
<1>6. ASSUME NEW u \in Users, NEW t \in SelfMadeIn(draft', u)
      PROVE  \/ t \in SelfMadeIn(draft, u)
             \/ t = s /\ h \in Portal /\ req[h].kind = "create" /\ req[h].user = u
  <2>1. CASE t # s
    <3>1. draft'.rows[t] = draft.rows[t]
      BY <1>1, <1>6, <2>1, SelfMadeFields
    <3> QED  BY <1>6, <3>1, SelfMadeFields
  <2>2. CASE t = s
    <3>1. ~new.adminModified /\ new.owner = u
      BY <1>1, <1>6, <2>2, SelfMadeFields
    <3>2. h \notin Desk
      BY <1>2, <1>3, <3>1
    <3>3. h \in Portal
      BY <3>2, DeskOrPortal
    <3> QED  BY <1>2, <1>3, <2>2, <3>1, <3>3
  <2> QED  BY <2>1, <2>2
<1> QED  BY <1>1, <1>5, <1>6

LEMMA SelfMadeSets ==
    ASSUME NEW u
    PROVE  /\ SelfMade(u) = SelfMadeIn(db, u) /\ SelfMade(u)' = SelfMadeIn(db', u)
           /\ IsFiniteSet(SelfMade(u)) /\ IsFiniteSet(UnderWay(u))
<1>1. SelfMade(u) = SelfMadeIn(db, u) /\ SelfMade(u)' = SelfMadeIn(db', u)
  BY DEF SelfMade, SelfMadeIn, Counted, Created, Owned, Rows
<1>2. SelfMade(u) \in SUBSET Servers /\ UnderWay(u) \in SUBSET Portal
  BY DEF SelfMade, Counted, Owned, Rows, UnderWay
<1>3. IsFiniteSet(Servers) /\ IsFiniteSet(Portal)
  BY IdsAssumption, ThreadsAssumption
<1> QED  BY <1>1, <1>2, <1>3, FS_Subset

LEMMA Bound == MaxServers - 1 + Cardinality(Portal) \in Int
<1> QED  BY LimitsAssumption, ThreadsAssumption, FS_CardinalityType

LEMMA Fewer ==
    ASSUME NEW S, NEW T, IsFiniteSet(S), IsFiniteSet(T), NEW S1 \in SUBSET S, NEW T1 \in SUBSET T,
           NEW n \in Int, Cardinality(S) + Cardinality(T) <= n
    PROVE  Cardinality(S1) + Cardinality(T1) <= n
<1>1. Cardinality(S1) <= Cardinality(S) /\ Cardinality(T1) <= Cardinality(T)
      /\ IsFiniteSet(S1) /\ IsFiniteSet(T1)
  BY FS_Subset
<1>2. /\ Cardinality(S) \in Nat /\ Cardinality(T) \in Nat
      /\ Cardinality(S1) \in Nat /\ Cardinality(T1) \in Nat
  BY <1>1, FS_CardinalityType
<1> QED  BY <1>1, <1>2

LEMMA Exchanged ==
    ASSUME NEW S, NEW T, IsFiniteSet(S), IsFiniteSet(T), NEW s, NEW t \in T,
           NEW S1 \in SUBSET (S \cup {s}), NEW T1 \in SUBSET (T \ {t}),
           NEW n \in Int, Cardinality(S) + Cardinality(T) <= n
    PROVE  Cardinality(S1) + Cardinality(T1) <= n
<1>1. /\ IsFiniteSet(S \cup {s}) /\ Cardinality(S \cup {s}) \in {Cardinality(S), Cardinality(S) + 1}
      /\ IsFiniteSet(T \ {t}) /\ Cardinality(T \ {t}) = Cardinality(T) - 1
  BY FS_AddElement, FS_RemoveElement
<1>2. Cardinality(S) \in Nat /\ Cardinality(T) \in Nat
  BY FS_CardinalityType
<1>3. Cardinality(S \cup {s}) + Cardinality(T \ {t}) <= n
  BY <1>1, <1>2
<1> QED  BY <1>1, <1>3, Fewer

\* Only a creation that begins is one more under way.
LEMMA OnlyCreatesQueue ==
    ASSUME TypeOK, AllFit, OneWriter, NEW h \in Threads, Starting(h) \/ Working(h) \/ Loud(h),
           ~\E u \in Users, t \in Templates, x \in Suffixes : BeginCreate(h, u, t, x)
    PROVE  Alone(h) /\ \A u \in Users : UnderWay(u)' \subseteq UnderWay(u)
<1>1. Alone(h)
  BY StepFacts
<1>2. req'[h].kind = "create" => req[h].kind = "create" /\ req'[h].user = req[h].user
  <2>1. CASE Starting(h)
    <3>1. CASE \E u \in Users, c \in Changes : BeginUpdate(h, u, c)
      BY <3>1, UpdateFacts
    <3>2. CASE \E u \in Users, to \in Users \cup {Nobody} : BeginDeleteUser(h, u, to)
      BY <3>2, DeleteFacts
    <3>3. CASE \E s \in Servers : BeginRemove(h, s)
      BY <3>3, RemoveFacts
    <3>4. CASE \E s \in Servers, size \in 1 .. MaxDisk : BeginResize(h, s, size)
      BY <3>4, ResizeFacts
    <3>5. CASE CheckQuota(h) \/ TakeId(h) \/ SkipTemplate(h)
      BY <3>5, QuotaFacts, TakeFacts, SkipFacts, IdleFields DEF SameTask
    <3> QED  BY <2>1, <3>1, <3>2, <3>3, <3>4, <3>5 DEF Starting
  <2>2. CASE Working(h)
    <3>1. CASE \E u \in Users : Joins(h, u)
      BY <3>1, NewUserFacts
    <3>2. CASE \E t \in Templates : DeleteTemplate(h, t)
      BY <3>2, TemplateFacts
    <3>3. CASE Record(h)
      BY <3>3, RecordFacts, IdleFields DEF SameTask, Inserts
    <3>4. CASE Finish(h) \/ Onboard(h) \/ CommitDelete(h) \/ WriteUpdate(h)
      BY <3>4, FinishFacts, CommitDeleteFacts, WriteUpdateFacts, IdleFields DEF SameTask
    <3>5. CASE Forget(h) \/ WriteDelete(h)
      BY <3>5, ForgetFacts, WriteDeleteFacts, IdleFields DEF SameTask
    <3>6. CASE BusyTimeout(h)
      BY <3>6, BusyFacts, IdleFields DEF SameTask
    <3> QED  BY <2>2, <3>1, <3>2, <3>3, <3>4, <3>5, <3>6 DEF Working
  <2>3. CASE Loud(h)
    <3>1. CASE Clone(h) \/ Wait(h) \/ Apply(h) \/ WriteResize(h)
      BY <3>1, CloneFacts, WaitFacts, ApplyFacts, WriteResizeFacts, IdleFields DEF SameTask
    <3>2. CASE Destroy(h)
      BY <3>2, DestroyFacts, IdleFields DEF SameTask, Destroys
    <3>3. CASE Record(h)
      BY <3>3, RecordFacts, IdleFields DEF SameTask, Inserts
    <3> QED  BY <2>3, <3>1, <3>2, <3>3 DEF Loud
  <2> QED  BY <2>1, <2>2, <2>3
<1> QED  BY <1>1, <1>2 DEF Alone, UnderWay, Threads

LEMMA BoundKept ==
    ASSUME OvershootIsBounded, NEW u \in Users, UnderWay(u)' \subseteq UnderWay(u),
           SelfMadeIn(db', u) \subseteq SelfMadeIn(db, u)
    PROVE  Cardinality(SelfMade(u)') + Cardinality(UnderWay(u)') <= MaxServers - 1 + Cardinality(Portal)
<1>1. Cardinality(SelfMade(u)) + Cardinality(UnderWay(u)) <= MaxServers - 1 + Cardinality(Portal)
  BY DEF OvershootIsBounded
<1>2. SelfMade(u)' \subseteq SelfMade(u)
  BY SelfMadeSets
<1> QED  BY <1>1, <1>2, SelfMadeSets, Bound, Fewer

LEMMA NoneAhead ==
    ASSUME Shape, Ahead, NEW h \in Threads, CanWrite(h), req[h].step # "finish", NEW u \in Users
    PROVE  SelfMadeIn(draft, u) \subseteq SelfMadeIn(db, u)
<1> QED  BY DEF Shape, OneWriter, Ahead, CanWrite

\* Steps that add no server and put no creation under way.
LEMMA QuotaKept ==
    ASSUME Shape, Quota, NEW h \in Threads, Alone(h), req[h].step # "finish",
           \A u \in Users : UnderWay(u)' \subseteq UnderWay(u),
           \/ Reading \/ Rollback(h)
           \/ CanWrite(h) /\ Follows(draft, draft') /\ (db' = db \/ db' = draft')
    PROVE  Quota'
<1>0. TypeOK /\ Heirs(db) /\ Heirs(draft) /\ Ahead /\ OvershootIsBounded
  BY DEF Shape, Quota
<1> DEFINE Within(d, e) == \A u \in Users : SelfMadeIn(d, u) \subseteq SelfMadeIn(e, u)
<1>1. /\ Heirs(db') /\ Heirs(draft') /\ Within(db', db)
      /\ Within(draft', db') \/ Reading
  <2>1. CASE Reading
    BY <1>0, <2>1 DEF Reading
  <2>2. CASE writer = h /\ Rollback(h)
    <3>1. db' = db /\ draft' = db
      BY <1>0, <2>2, Rolled
    <3> QED  BY <1>0, <3>1
  <2>3. CASE CanWrite(h) /\ Follows(draft, draft') /\ (db' = db \/ db' = draft')
    <3>1. Heirs(draft') /\ Within(draft', draft)
      BY <1>0, <2>3, Following
    <3>2. Within(draft, db)
      BY <1>0, <2>3, NoneAhead
    <3> QED  BY <1>0, <2>3, <3>1, <3>2
  <2> QED  BY <2>1, <2>2, <2>3 DEF Rollback, Reading
<1>2. Heirs(db)' /\ Heirs(draft)'
  BY <1>1 DEF Heirs
<1>3. Ahead'
  <2>1. CASE Within(draft', db')
    <3>1. \A u \in Users : /\ SelfMadeIn(draft, u)' = SelfMadeIn(draft', u)
                           /\ SelfMadeIn(db, u)' = SelfMadeIn(db', u)
      BY DEF SelfMadeIn, Counted, Created, Owned, Rows
    <3> QED  BY <2>1, <3>1 DEF Ahead
  <2>2. CASE Reading
    <3>1. \A u \in Users : /\ SelfMadeIn(draft, u)' = SelfMadeIn(draft, u)
                           /\ SelfMadeIn(db, u)' = SelfMadeIn(db, u)
      BY <2>2 DEF SelfMadeIn, Counted, Created, Owned, Rows, Reading
    <3>2. ASSUME NEW u \in Users, writer \in UnderWay(u), req[writer].step = "finish"
          PROVE  writer' \in UnderWay(u)' /\ req'[writer].step = "finish"
      BY <2>2, <3>2 DEF UnderWay, Alone, Threads, Reading
    <3> QED  BY <1>0, <2>2, <3>1, <3>2 DEF Ahead, Reading
  <2> QED  BY <1>1, <2>1, <2>2
<1>4. OvershootIsBounded'
  BY <1>0, <1>1, BoundKept DEF OvershootIsBounded
<1> QED  BY <1>2, <1>3, <1>4 DEF Quota

LEMMA CreateQuota ==
    ASSUME Shape, Quota, NEW h \in Threads, NEW u \in Users, NEW t \in Templates, NEW x \in Suffixes,
           BeginCreate(h, u, t, x)
    PROVE  Quota'
<1>0. TypeOK /\ AllFit /\ OneWriter /\ Heirs(db) /\ Heirs(draft) /\ Ahead /\ OvershootIsBounded
  BY DEF Shape, Quota
<1>1. /\ Alone(h) /\ req[h].step = "idle" /\ req'[h].user = u /\ Reading
      /\ h \in Portal => WithinLimit(db, u)
  BY <1>0, CreateFacts DEF Reading
<1>2. Heirs(db)' /\ Heirs(draft)'
  BY <1>0, <1>1 DEF Heirs, Reading
<1>3. /\ \A k \in Users : /\ SelfMadeIn(draft, k)' = SelfMadeIn(draft, k)
                          /\ SelfMadeIn(db, k)' = SelfMadeIn(db, k)
      /\ \A k \in Users : SelfMade(k)' = SelfMade(k)
  BY <1>1 DEF SelfMadeIn, SelfMade, Counted, Created, Owned, Rows, Reading
<1>4. Ahead'
  <2>1. ASSUME NEW k \in Users, writer \in UnderWay(k), req[writer].step = "finish"
        PROVE  writer' \in UnderWay(k)' /\ req'[writer].step = "finish"
    BY <1>1, <2>1 DEF UnderWay, Alone, Threads, Reading
  <2> QED  BY <1>0, <1>1, <1>3, <2>1 DEF Ahead, Reading
<1>5. ASSUME NEW k \in Users
      PROVE  Cardinality(SelfMade(k)') + Cardinality(UnderWay(k)') <= MaxServers - 1 + Cardinality(Portal)
  <2>1. CASE k # u \/ h \notin Portal
    <3>1. UnderWay(k)' \subseteq UnderWay(k)
      BY <1>1, <2>1 DEF UnderWay, Alone, Threads
    <3>2. SelfMadeIn(db', k) \subseteq SelfMadeIn(db, k)
      BY <1>1 DEF Reading
    <3> QED  BY <1>0, <3>1, <3>2, BoundKept
  <2>2. CASE k = u /\ h \in Portal
    <3>1. SelfMade(k) \in SUBSET Counted(db, k) /\ Counted(db, k) \in SUBSET Servers
      BY DEF SelfMade, Counted, Owned, Rows
    <3>2. UnderWay(k)' \in SUBSET Portal
      BY DEF UnderWay
    <3>3. IsFiniteSet(Portal) /\ IsFiniteSet(Servers)
      BY ThreadsAssumption, IdsAssumption
    <3>4. IsFiniteSet(Counted(db, k))
      BY <3>1, <3>3, FS_Subset
    <3>5. Cardinality(Counted(db, k)) + Cardinality(Portal) <= MaxServers - 1 + Cardinality(Portal)
      <4>1. Cardinality(Counted(db, k)) < MaxServers
        BY <1>1, <2>2 DEF WithinLimit
      <4> QED  BY <3>3, <3>4, <4>1, FS_CardinalityType, LimitsAssumption
    <3> QED  BY <1>3, <3>1, <3>2, <3>3, <3>4, <3>5, Fewer, Bound
  <2> QED  BY <2>1, <2>2
<1>6. OvershootIsBounded'
  BY <1>5 DEF OvershootIsBounded
<1> QED  BY <1>2, <1>4, <1>6 DEF Quota

LEMMA InsertQuota ==
    ASSUME Shape, Quota, NEW h \in Threads, Record(h), NEW s \in Lowest(Unused), Inserts(h, s),
           \A u \in Users : UnderWay(u)' \subseteq UnderWay(u)
    PROVE  Quota'
<1>0. TypeOK /\ AllFit /\ OneWriter /\ RowsKept /\ Heirs(db) /\ Heirs(draft) /\ Ahead /\ OvershootIsBounded
  BY DEF Shape, Quota
<1>1. req[h].step = "record" /\ CanWrite(h) /\ Alone(h)
  BY <1>0, RecordFacts
<1>2. /\ Heirs(draft')
      /\ \A u \in Users :
            \/ SelfMadeIn(draft', u) \subseteq SelfMadeIn(draft, u)
            \/ /\ h \in Portal /\ req[h].kind = "create" /\ req[h].user = u /\ s \in Servers
               /\ SelfMadeIn(draft', u) \subseteq SelfMadeIn(draft, u) \cup {s}
  BY <1>0, <1>1, InsertsOne
<1>3. /\ db' = db /\ writer' = h /\ req'[h].step = "finish"
      /\ req'[h].kind = req[h].kind /\ req'[h].user = req[h].user
  BY DEF Inserts, SameTask
<1>4. Heirs(db)' /\ Heirs(draft)'
  BY <1>0, <1>2, <1>3 DEF Heirs
<1>5. \A u \in Users : SelfMadeIn(draft, u) \subseteq SelfMadeIn(db, u)
  BY <1>0, <1>1, NoneAhead
<1>6. \A u \in Users : /\ SelfMadeIn(draft, u)' = SelfMadeIn(draft', u)
                       /\ SelfMadeIn(db, u)' = SelfMadeIn(db', u)
  BY DEF SelfMadeIn, Counted, Created, Owned, Rows
<1>7. \A u \in Users : h \in Portal /\ req[h].kind = "create" /\ req[h].user = u => h \in UnderWay(u)'
  BY <1>3 DEF UnderWay
<1>8. Ahead'
  BY <1>2, <1>3, <1>5, <1>6, <1>7 DEF Ahead
<1>9. OvershootIsBounded'
  BY <1>0, <1>3, BoundKept DEF OvershootIsBounded
<1> QED  BY <1>4, <1>8, <1>9 DEF Quota

LEMMA FinishEnds ==
    ASSUME TypeOK, NEW h \in Threads, Finish(h), req[h].kind # "newUser"
    PROVE  req'[h] = Idle
<1>1. Goes(h, Idle)
  BY DEF Finish, Proceeds, End
<1> QED  BY <1>1, Going DEF TypeOK

LEMMA SaveQuota ==
    ASSUME Shape, Quota, NEW h \in Threads, Finish(h) \/ Onboard(h) \/ CommitDelete(h),
           \A u \in Users : UnderWay(u)' \subseteq UnderWay(u)
    PROVE  Quota'
<1>0. TypeOK /\ AllFit /\ OneWriter /\ Heirs(draft) /\ Ahead /\ OvershootIsBounded
  BY DEF Shape, Quota
<1>1. Alone(h) /\ req[h].step \in Committing /\ db' = draft /\ draft' = draft
  BY <1>0, FinishFacts, CommitDeleteFacts DEF Committing
<1>2. writer = h
  BY <1>0, <1>1 DEF OneWriter
<1>3. Heirs(db)' /\ Heirs(draft)'
  BY <1>0, <1>1 DEF Heirs
<1>4. Ahead'
  <2>1. \A u \in Users : SelfMadeIn(draft, u)' = SelfMadeIn(db, u)'
    BY <1>1 DEF SelfMadeIn, Counted, Created, Owned, Rows
  <2> QED  BY <2>1 DEF Ahead
<1>5. ASSUME NEW u \in Users
      PROVE  Cardinality(SelfMade(u)') + Cardinality(UnderWay(u)') <= MaxServers - 1 + Cardinality(Portal)
  <2>1. CASE SelfMadeIn(draft, u) \subseteq SelfMadeIn(db, u)
    <3>1. SelfMadeIn(db', u) \subseteq SelfMadeIn(db, u)
      BY <1>1, <2>1
    <3> QED  BY <1>0, <3>1, BoundKept
  <2>2. CASE /\ writer \in UnderWay(u) /\ req[writer].step = "finish"
             /\ \E s \in Servers : SelfMadeIn(draft, u) \subseteq SelfMadeIn(db, u) \cup {s}
    <3>1. h \in UnderWay(u) /\ req[h].step = "finish" /\ req[h].kind = "create"
      BY <1>2, <2>2 DEF UnderWay
    <3>2. Finish(h)
      BY <3>1 DEF Onboard, CommitDelete
    <3>3. req'[h].kind # "create"
      BY <1>0, <3>1, <3>2, FinishEnds, IdleFields
    <3>4. UnderWay(u)' \subseteq UnderWay(u) \ {h}
      BY <3>3 DEF UnderWay
    <3>5. PICK s \in Servers : SelfMade(u)' \subseteq SelfMade(u) \cup {s}
      BY <1>1, <2>2, SelfMadeSets
    <3>6. Cardinality(SelfMade(u)) + Cardinality(UnderWay(u)) <= MaxServers - 1 + Cardinality(Portal)
      BY <1>0 DEF OvershootIsBounded
    <3>7. /\ SelfMade(u)' \in SUBSET (SelfMade(u) \cup {s}) /\ UnderWay(u)' \in SUBSET (UnderWay(u) \ {h})
          /\ IsFiniteSet(SelfMade(u)) /\ IsFiniteSet(UnderWay(u)) /\ h \in UnderWay(u)
          /\ MaxServers - 1 + Cardinality(Portal) \in Int
      BY <3>1, <3>4, <3>5, SelfMadeSets, Bound
    <3> QED  BY <3>6, <3>7, Exchanged
  <2> QED  BY <1>0, <2>1, <2>2 DEF Ahead
<1>6. OvershootIsBounded'
  BY <1>5 DEF OvershootIsBounded
<1> QED  BY <1>3, <1>4, <1>6 DEF Quota

LEMMA QuotaNext ==
    ASSUME Shape, Quota, NEW h \in Threads, Starting(h) \/ Working(h) \/ Loud(h)
    PROVE  Quota'
<1>0. TypeOK /\ AllFit /\ OneWriter
  BY DEF Shape
<1>1. CASE \E u \in Users, t \in Templates, x \in Suffixes : BeginCreate(h, u, t, x)
  BY <1>1, CreateQuota
<1>2. CASE ~\E u \in Users, t \in Templates, x \in Suffixes : BeginCreate(h, u, t, x)
  <2>0. Alone(h) /\ \A u \in Users : UnderWay(u)' \subseteq UnderWay(u)
    BY <1>0, <1>2, OnlyCreatesQueue
  <2>1. CASE Starting(h)
    <3>1. Reading /\ req[h].step # "finish"
      BY <1>0, <2>1, StartingIsQuiet
    <3> QED  BY <2>0, <3>1, QuotaKept
  <2>2. CASE \/ \E u \in Users : Joins(h, u)
             \/ \E t \in Templates : DeleteTemplate(h, t)
             \/ WriteUpdate(h) /\ ~Reading
             \/ WriteResize(h) /\ ~Reading
             \/ Forget(h)
             \/ WriteDelete(h) /\ ~Rollback(h)
    <3>1. Follows(draft, draft')
      BY <1>0, <2>2, WritesFollow
    <3>2. CanWrite(h) /\ (db' = db \/ db' = draft') /\ req[h].step # "finish"
      BY <1>0, <2>2, NewUserFacts, TemplateFacts, WriteUpdateFacts, WriteResizeFacts, ForgetFacts,
         WriteDeleteFacts DEF Reading
    <3> QED  BY <2>0, <3>1, <3>2, QuotaKept
  <2>3. CASE \/ WriteUpdate(h) /\ Reading
             \/ WriteResize(h) /\ Reading
             \/ WriteDelete(h) /\ Rollback(h)
    <3>1. req[h].step # "finish"
      BY <1>0, <2>3, WriteUpdateFacts, WriteResizeFacts, WriteDeleteFacts
    <3> QED  BY <2>0, <2>3, <3>1, QuotaKept
  <2>4. CASE Clone(h) \/ Wait(h) \/ Apply(h) \/ BusyTimeout(h)
    <3>1. Reading /\ req[h].step # "finish"
      BY <1>0, <2>4, CloneFacts, WaitFacts, ApplyFacts, BusyFacts DEF Reading
    <3> QED  BY <2>0, <3>1, QuotaKept
  <2>5. CASE Destroy(h)
    <3>1. (Reading \/ Rollback(h)) /\ req[h].step # "finish"
      BY <1>0, <2>5, DestroyFacts DEF Reading, Destroys
    <3> QED  BY <2>0, <3>1, QuotaKept
  <2>6. CASE Record(h)
    <3>1. /\ req[h].step = "record"
          /\ Rollback(h) \/ \E s \in Lowest(Unused) : Inserts(h, s)
      BY <1>0, <2>6, RecordFacts
    <3> QED  BY <2>0, <2>6, <3>1, QuotaKept, InsertQuota
  <2>7. CASE Finish(h) \/ Onboard(h) \/ CommitDelete(h)
    BY <2>0, <2>7, SaveQuota
  <2> QED  BY <2>1, <2>2, <2>3, <2>4, <2>5, <2>6, <2>7 DEF Working, Loud
<1> QED  BY <1>1, <1>2

LEMMA QuotaInit == ASSUME Init PROVE Quota
<1>1. /\ draft = db /\ req = [h \in Threads |-> Idle] /\ \A s \in Servers : db.rows[s] = UnusedRow
  <2>1. PICK Born \in SUBSET Users : db.rows = [s \in Servers |-> UnusedRow]
    BY DEF Init
  <2> QED  BY <2>1 DEF Init
<1>2. Heirs(db) /\ Heirs(draft) /\ \A u \in Users : SelfMadeIn(db, u) = {} /\ SelfMade(u) = {}
  BY <1>1 DEF Heirs, SelfMadeIn, SelfMade, Counted, Owned, Rows, UnusedRow
<1>3. Ahead
  BY <1>1, <1>2 DEF Ahead
<1>4. \A u \in Users : UnderWay(u) = {}
  BY <1>1, IdleFields DEF UnderWay, Threads
<1>5. Cardinality({}) + Cardinality({}) <= MaxServers - 1 + Cardinality(Portal)
  <2>1. Cardinality({}) = 0 /\ Cardinality(Portal) \in Nat /\ Cardinality(Portal) # 0
    BY ThreadsAssumption, FS_EmptySet, FS_CardinalityType
  <2> QED  BY <2>1, LimitsAssumption
<1>6. OvershootIsBounded
  BY <1>2, <1>4, <1>5 DEF OvershootIsBounded
<1> QED  BY <1>2, <1>3, <1>6 DEF Quota

LEMMA QuotaStep == ASSUME Shape, Quota, [Next]_vars PROVE Quota'
<1>1. CASE UNCHANGED vars
  BY <1>1 DEF Quota, Heirs, Ahead, OvershootIsBounded, UnderWay, SelfMade, SelfMadeIn, Counted, Owned,
     Rows, Created, vars
<1>2. CASE Crash
  <2>1. /\ \A h \in Threads : req'[h] = Idle
        /\ db' = db /\ draft' = db
    BY <1>2, CrashFacts DEF Shape
  <2>2. Heirs(db)' /\ Heirs(draft)'
    BY <2>1 DEF Quota, Heirs
  <2>3. Ahead'
    <3>1. \A u \in Users : SelfMadeIn(draft, u)' = SelfMadeIn(db, u)'
      BY <2>1 DEF SelfMadeIn, Counted, Created, Owned, Rows
    <3> QED  BY <3>1 DEF Ahead
  <2>4. OvershootIsBounded'
    <3>1. \A u \in Users : UnderWay(u)' \subseteq UnderWay(u) /\ SelfMadeIn(db', u) \subseteq SelfMadeIn(db, u)
      BY <2>1, IdleFields DEF UnderWay, Threads
    <3> QED  BY <3>1, BoundKept DEF Quota, OvershootIsBounded
  <2> QED  BY <2>2, <2>3, <2>4 DEF Quota
<1>3. ASSUME NEW h \in Threads, Starting(h) \/ Working(h) \/ Loud(h) PROVE Quota'
  BY <1>3, QuotaNext
<1> QED  BY <1>1, <1>2, <1>3, Steps0

\* However creations, deletions and transfers overlap, the servers an account made for
\* itself and those under way exceed the limit by no more than the creations that can be
\* checked at the same time.
THEOREM NoneOverbooks == Spec => []OvershootIsBounded
<1>1. Init => Quota
  BY QuotaInit
<1>2. Shape /\ Quota /\ [Next]_vars => Quota'
  BY QuotaStep
<1>3. Quota => OvershootIsBounded
  BY DEF Quota
<1> QED  BY <1>1, <1>2, <1>3, ShapeHolds, PTL DEF Spec
=============================================================================
