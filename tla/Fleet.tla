--------------------------------- MODULE Fleet ---------------------------------
(***************************************************************************)
(* Accounts, their server records and the Proxmox guests behind them:      *)
(* creation by a clone that takes minutes, the servers a new account gets, *)
(* resizing, removal, and the deletion of an account with its servers      *)
(* (backend/app/routers/provisioning.py and users.py over servers.py,      *)
(* proxmox.py and repository.py).  A request reads the database, talks to  *)
(* Proxmox, and writes; SQLite admits one writer at a time, from its first *)
(* write to its commit, and the others read what is committed.             *)
(***************************************************************************)
EXTENDS Integers, FiniteSets, FiniteSetsExt

CONSTANTS
    Users,         \* ids of accounts (AUTOINCREMENT: an id is never reused)
    Admins,        \* the administrators to begin with
    Templates,     \* rows of server_templates
    Suffixes,      \* server names an owner may choose
    Vmids,         \* ids of guests, 1 .. n: Proxmox offers the lowest free one
    Servers,       \* ids of server records, 1 .. n, never reused
    Desk, Portal,  \* threads serving administrators, and self-service owners
    Kinds,         \* the requests this instance makes
    MaxServers,    \* provisioning_max_servers
    MaxDisk,       \* provisioning_max_disk_gb; CPUs and memory go the same way
    Nobody, NoRequest,
    MaxRequests,   \* bound: requests served
    MaxCrashes     \* bound: crashes of the process

AdminKinds == {"create", "newUser", "resize", "remove", "deleteUser", "update",
               "deleteTemplate"}
Changes == {"demote", "disable", "promote", "enable"}

ASSUME AdminsAssumption == Admins \subseteq Users /\ Admins # {}
ASSUME IdsAssumption == /\ Vmids \subseteq Nat \ {0} /\ Servers \subseteq Nat \ {0}
                        /\ IsFiniteSet(Servers)
ASSUME ThreadsAssumption == /\ Desk \cap Portal = {} /\ NoRequest \notin Desk \cup Portal
                            /\ IsFiniteSet(Portal) /\ Portal # {}
ASSUME KindsAssumption == Kinds \subseteq AdminKinds
ASSUME LimitsAssumption == {MaxServers, MaxDisk, MaxRequests, MaxCrashes} \subseteq Nat
ASSUME NobodyAssumption == Nobody \notin Users

VARIABLES
    db,       \* the committed database
    draft,    \* the database as the writer sees it
    writer,   \* the request that holds the write lock
    guests,   \* what Proxmox runs under each id
    req,      \* the request each thread serves
    blamed,   \* guests whose record the code knows, or could know, it lost (history)
    spent,    \* records whose guest was destroyed already (history)
    robbed,   \* requests whose new guest was destroyed under them
    served, crashes

history == <<blamed, spent, robbed>>
bounds == <<served, crashes>>
vars == <<db, draft, writer, guests, req, history, bounds>>

Threads == Desk \cup Portal
NoVmid  == 0
Footprint == 1     \* the disk of a template

\* prefix and suffix of a name, and what is appended to make it unique.
Plain == 0
Retry == -1
Fresh == -2
Names == [owner : Users \cup {Nobody}, label : Suffixes \cup Templates \cup {Nobody},
          disc : Vmids \cup {Plain, Retry, Fresh}]

Account == [state : {"unborn", "live", "deleted"}, admin : BOOLEAN, active : BOOLEAN]
Row == [state : {"unused", "live", "deleted"}, owner : Users \cup {Nobody},
        name : Names, vmid : Vmids \cup {NoVmid}, disk : Nat, adminModified : BOOLEAN]
Guest == [host : Names, disk : Nat]
NoGuest == [disk |-> 0]

NoName == [owner |-> Nobody, label |-> Nobody, disc |-> Plain]
UnusedRow == [state |-> "unused", owner |-> Nobody, name |-> NoName, vmid |-> NoVmid,
              disk |-> 0, adminModified |-> FALSE]
Idle == [kind |-> "none", step |-> "idle", admin |-> FALSE, user |-> Nobody,
         to |-> Nobody, change |-> "none", name |-> NoName, template |-> NoName.label,
         left |-> {}, vmid |-> NoVmid, disk |-> 0, mine |-> {}, todo |-> {},
         row |-> UnusedRow]
Steps == {"idle", "quota", "nextid", "clone", "wait", "record", "finish", "onboard",
          "apply", "write", "destroy", "forget", "commit"}
Request == [kind : Kinds \cup {"none"}, step : Steps, admin : BOOLEAN,
            user : Users \cup {Nobody}, to : Users \cup {Nobody},
            change : Changes \cup {"none"},
            name : Names, template : Templates \cup {Nobody}, left : SUBSET Templates,
            vmid : Vmids \cup {NoVmid}, disk : Nat, mine : SUBSET Servers,
            todo : SUBSET Servers, row : Row]
Database == [users : [Users -> Account], rows : [Servers -> Row],
             templates : SUBSET Templates]

TypeOK ==
    /\ db \in Database /\ draft \in Database
    /\ writer \in Threads \cup {NoRequest}
    /\ guests \in [Vmids -> Guest \cup {NoGuest}]
    /\ req \in [Threads -> Request]
    /\ blamed \subseteq Vmids /\ spent \subseteq Servers /\ robbed \subseteq Threads
    /\ served \in 0 .. MaxRequests /\ crashes \in 0 .. MaxCrashes

\* Administrators and owners exist already, others are created later.
Init ==
    /\ db \in [users : {[u \in Users |->
                    [state |-> IF u \in Born THEN "live" ELSE "unborn",
                     admin |-> u \in Admins, active |-> u \in Born]] : Born \in SUBSET Users},
               rows : {[s \in Servers |-> UnusedRow]}, templates : {Templates}]
    /\ \A u \in Admins : db.users[u].active
    /\ draft = db
    /\ writer = NoRequest
    /\ guests = [v \in Vmids |-> NoGuest]
    /\ req = [h \in Threads |-> Idle]
    /\ blamed = {} /\ spent = {} /\ robbed = {}
    /\ served = 0 /\ crashes = 0

-----------------------------------------------------------------------------
(* What requests read.                                                      *)

Live(d, u) == d.users[u].state = "live"
ActiveAdmins(d) == {u \in Users : Live(d, u) /\ d.users[u].admin /\ d.users[u].active}
Rows(d) == {s \in Servers : d.rows[s].state = "live"}
Owned(d, u) == {s \in Rows(d) : d.rows[s].owner = u}

\* A record is "created", and counts, when the guest was cloned, whatever failed later.
Created(row) == row.vmid # NoVmid
Counted(d, u) == {s \in Owned(d, u) : Created(d.rows[s])}

Usage(d, u) == MapThenSumSet(LAMBDA s : d.rows[s].disk, Counted(d, u))
NameTaken(d, n) == \E s \in Rows(d) : d.rows[s].name = n

WithinTheLimit(d, u) == Cardinality(Counted(d, u)) <= MaxServers  \* seeded bug
WithinLimit(d, u)    == Cardinality(Counted(d, u)) < MaxServers

\* The host name is the name asked for; the record's name may carry a discriminator.
Host(row) == [row.name EXCEPT !.disc = Plain]

LeavesAnyAdmin(d, u) == \E a \in Users \ {u} : Live(d, a) /\ d.users[a].admin  \* seeded bug

\* _guard_last_admin, and the same test in update_user.
LeavesAnAdmin(d, u) == u \in ActiveAdmins(d) => Cardinality(ActiveAdmins(d)) > 1

-----------------------------------------------------------------------------
(* Transactions and requests.                                               *)

CanWrite(h) == writer \in {NoRequest, h}
Hold(h, d) == draft' = d /\ writer' = h /\ UNCHANGED db
Save(d)    == draft' = d /\ db' = d /\ writer' = NoRequest
Commit(h)  == Save(draft)
Rollback(h) == IF writer = h THEN Save(db) ELSE UNCHANGED <<db, draft, writer>>

Goes(h, r)    == req' = [req EXCEPT ![h] = r]
Step(h, step) == Goes(h, [req[h] EXCEPT !.step = step])
End(h)        == Goes(h, Idle)
Fail(h)       == End(h) /\ Rollback(h)
Reads         == UNCHANGED <<db, draft, writer>>

\* The lowest of some ids, if there are any.
Lowest(S) == {i \in S : \A j \in S : i <= j}
Unused == {s \in Servers : draft.rows[s].state = "unused"}

\* Bound: every request in progress finds an id for each record it has yet to write.
Clones(r) == \/ r.step \in {"quota", "clone", "wait", "record"}
             \/ r.step = "nextid" /\ r.kind = "create"
ToWrite(r) == Cardinality(r.left) + (IF Clones(r) THEN 1 ELSE 0)
RoomFor(n) == n + MapThenSumSet(LAMBDA h : ToWrite(req[h]), Threads)
                <= Cardinality(Unused)

Starts(h, kind) ==
    /\ req[h].step = "idle" /\ kind \in Kinds
    /\ served < MaxRequests /\ served' = served + 1
    /\ UNCHANGED <<guests, history, crashes>>

\* Whom a thread serves: require_admin, or an owner acting for itself.
Serves(h, u) == \/ h \in Desk /\ ActiveAdmins(db) # {}
                \/ h \in Portal /\ u \in Users \ ActiveAdmins(db) /\ db.users[u].active

-----------------------------------------------------------------------------
(* Creating a server: checks, clone, record.                                *)

BeginCreate(h, u, t, x) ==
    /\ Starts(h, "create") /\ Serves(h, u) /\ RoomFor(1)
    /\ Live(db, u) /\ t \in db.templates
    /\ LET name == [owner |-> u, label |-> x, disc |-> Plain]
       IN  /\ ~NameTaken(db, name)
           /\ h \in Portal => WithinLimit(db, u)
           /\ Goes(h, [Idle EXCEPT !.kind = "create", !.admin = h \in Desk, !.user = u,
                           !.step = IF h \in Desk THEN "nextid" ELSE "quota",
                           !.name = name, !.template = t])
    /\ Reads

\* An owner's creation is refused unless the template's size is known and fits.
CheckQuota(h) ==
    /\ req[h].step = "quota"
    /\ \/ /\ Usage(db, req[h].user) + Footprint <= MaxDisk
          /\ Step(h, "nextid")
       \/ End(h)
    /\ Reads /\ UNCHANGED <<guests, history, bounds>>

Free == {v \in Vmids : guests[v] = NoGuest}
AfterLast == {1 + Max({NoVmid} \cup (Vmids \ Free))}  \* seeded bug
NextId    == Lowest(Free)
TakeId(h) ==
    /\ req[h].step = "nextid"
    /\ \E t \in IF req[h].kind = "newUser" THEN req[h].left ELSE {req[h].template} :
          LET r == [req[h] EXCEPT !.left = @ \ {t}, !.template = t,
                        !.name = IF req[h].kind = "newUser"
                                 THEN [owner |-> req[h].user, label |-> t, disc |-> Plain]
                                 ELSE @]
          IN  \/ \E v \in NextId : Goes(h, [r EXCEPT !.vmid = v, !.step = "clone"])
              \/ Goes(h, [r EXCEPT !.vmid = NoVmid, !.step = "record"])
    /\ Reads /\ UNCHANGED <<guests, history, bounds>>

\* A template that is gone when its turn comes is skipped.
SkipTemplate(h) ==
    /\ req[h].step = "nextid" /\ req[h].kind = "newUser"
    /\ \E t \in req[h].left \ db.templates :
          Goes(h, IF req[h].left = {t} THEN Idle ELSE [req[h] EXCEPT !.left = @ \ {t}])
    /\ Reads /\ UNCHANGED <<guests, history, bounds>>

\* Proxmox refuses the clone when the id was taken since, or for reasons of its own;
\* otherwise the guest is there while its disks are copied.
Clone(h) ==
    /\ req[h].step = "clone"
    /\ LET v == req[h].vmid
       IN  \/ /\ guests[v] = NoGuest
              /\ guests' = [guests EXCEPT ![v] = [host |-> req[h].name, disk |-> Footprint]]
              /\ blamed' = blamed \ {v} /\ robbed' = robbed \ {h}
              /\ Step(h, "wait")
           \/ /\ Goes(h, [req[h] EXCEPT !.vmid = NoVmid, !.step = "record"])
              /\ UNCHANGED <<guests, blamed, robbed>>
    /\ Reads /\ UNCHANGED <<spent, bounds>>

\* A failed clone task takes its guest with it, unless another request has already.
WithoutClone(h) == IF h \in robbed THEN guests ELSE [guests EXCEPT ![req[h].vmid] = NoGuest]
InHand(h) == IF h \in robbed THEN {} ELSE {req[h].vmid} \ {NoVmid}

WaitKeepsId(h) ==                                      \* seeded bug
    /\ req[h].step = "wait"
    /\ \/ /\ \E size \in {0, Footprint} :
                Goes(h, [req[h] EXCEPT !.disk = size, !.step = "record"])
          /\ UNCHANGED guests
       \/ /\ Step(h, "record")
          /\ guests' = WithoutClone(h)
    /\ Reads /\ UNCHANGED <<history, bounds>>

\* The task ends, fails and leaves no guest, or is given up: the guest stays, its id
\* is forgotten.  The size recorded is 0 when it cannot be read.
Wait(h) ==
    /\ req[h].step = "wait"
    /\ \/ /\ \E size \in {0, Footprint} :
                Goes(h, [req[h] EXCEPT !.disk = size, !.step = "record"])
          /\ UNCHANGED <<guests, blamed>>
       \/ /\ Goes(h, [req[h] EXCEPT !.vmid = NoVmid, !.step = "record"])
          /\ \/ guests' = WithoutClone(h) /\ UNCHANGED blamed
             \/ blamed' = blamed \cup InHand(h) /\ UNCHANGED guests
    /\ Reads /\ UNCHANGED <<spent, robbed, bounds>>

\* What a request does after one server: nothing, or the next template.
Proceeds(h) ==
    IF req[h].kind = "newUser" /\ req[h].left # {}
    THEN Goes(h, [req[h] EXCEPT !.vmid = NoVmid, !.disk = 0, !.step = "nextid"])
    ELSE End(h)
Loses(h) ==
    /\ blamed' = blamed \cup InHand(h) /\ UNCHANGED <<spent, robbed>>
    /\ Proceeds(h)
    /\ Rollback(h)

\* UNIQUE(user_id, name): the name, else with the vmid, else with anything unique.
OwnNames(d, u) == {d.rows[s].name : s \in Owned(d, u)}
NameFor(r) ==
    LET disc == IF r.vmid = NoVmid THEN Retry ELSE r.vmid
        WithDisc == [r.name EXCEPT !.disc = disc]
    IN  IF r.name \notin OwnNames(draft, r.user) THEN r.name
        ELSE IF WithDisc \notin OwnNames(draft, r.user) THEN WithDisc
        ELSE [r.name EXCEPT !.disc = Fresh]

\* Its owner and its template must still exist (foreign keys), or the insert fails
\* under all three names.  The mesh and the pool follow under the write lock.
Record(h) ==
    LET r == req[h]
        row == [state |-> "live", owner |-> r.user, name |-> NameFor(r), vmid |-> r.vmid,
                disk |-> IF r.vmid = NoVmid THEN 0 ELSE r.disk,
                adminModified |-> r.admin]
    IN  /\ r.step = "record" /\ CanWrite(h)
        /\ IF Live(draft, r.user) /\ r.template \in draft.templates
           THEN \E s \in Lowest(Unused) :
                   /\ Hold(h, [draft EXCEPT !.rows[s] = row])
                   /\ Step(h, "finish")
                   /\ spent' = IF h \in robbed THEN spent \cup {s} ELSE spent \ {s}
                   /\ UNCHANGED <<blamed, robbed>>
           ELSE Loses(h)
        /\ UNCHANGED <<guests, bounds>>

FinishAtTheEnd(h) ==                                   \* seeded bug
    /\ req[h].step = "finish"
    /\ IF req[h].left = {} THEN Commit(h) ELSE Reads
    /\ Proceeds(h)
    /\ UNCHANGED <<guests, history, bounds>>

\* The request commits; create_user commits after every server.
Finish(h) ==
    /\ req[h].step = "finish"
    /\ Commit(h) /\ Proceeds(h)
    /\ UNCHANGED <<guests, history, bounds>>

-----------------------------------------------------------------------------
(* Accounts.                                                                *)

\* create_user writes the account, onboards it on the jump server and commits before
\* it clones.
BeginNewUser(h, u, admin, ts) ==
    /\ Starts(h, "newUser") /\ h \in Desk /\ Serves(h, u)
    /\ draft.users[u].state = "unborn" /\ CanWrite(h) /\ RoomFor(Cardinality(ts))
    /\ Hold(h, [draft EXCEPT !.users[u] = [state |-> "live", admin |-> admin, active |-> TRUE]])
    /\ Goes(h, [Idle EXCEPT !.kind = "newUser", !.admin = TRUE, !.user = u, !.left = ts,
                            !.step = "onboard"])

Onboard(h) ==
    /\ req[h].step = "onboard"
    /\ Commit(h) /\ Proceeds(h)
    /\ UNCHANGED <<guests, history, bounds>>

BeginUpdate(h, u, change) ==
    /\ Starts(h, "update") /\ h \in Desk /\ Serves(h, u) /\ Live(db, u)
    /\ change \in {"demote", "disable"} => LeavesAnAdmin(db, u)
    /\ Goes(h, [Idle EXCEPT !.kind = "update", !.user = u, !.change = change,
                            !.step = "write"])
    /\ Reads

Changed(account, change) ==
    [account EXCEPT !.admin  = IF change \in {"demote", "promote"} THEN change = "promote" ELSE @,
                    !.active = IF change \in {"disable", "enable"} THEN change = "enable" ELSE @]
WriteUpdate(h) ==
    LET r == req[h]
    IN  /\ r.step = "write" /\ r.kind = "update" /\ CanWrite(h)
        /\ IF Live(draft, r.user)
           THEN Save([draft EXCEPT !.users[r.user] = Changed(@, r.change)])
           ELSE Reads
        /\ End(h)
        /\ UNCHANGED <<guests, history, bounds>>

\* Servers are transferred to an active account, or destroyed one by one after a look
\* at Proxmox; without servers nothing is asked.
BeginDeleteUser(h, u, to) ==
    /\ Starts(h, "deleteUser") /\ h \in Desk
    /\ Live(db, u) /\ LeavesAnAdmin(db, u)
    /\ ActiveAdmins(db) \ {u} # {}
    /\ LET mine == Owned(db, u)
       IN  /\ mine = {} => to = Nobody
           /\ to # Nobody => to # u /\ Live(db, to) /\ db.users[to].active
           /\ Goes(h, [Idle EXCEPT !.kind = "deleteUser", !.user = u, !.to = to,
                          !.mine = mine, !.todo = IF to = Nobody THEN mine ELSE {},
                          !.step = IF to = Nobody /\ mine # {} THEN "destroy" ELSE "write"])
    /\ Reads

\* force_remove_server and the sweep, told in full by DeferredDeletion.
BeginRemove(h, s) ==
    /\ Starts(h, "remove") /\ h \in Desk /\ Serves(h, Nobody) /\ s \in Rows(db)
    /\ Goes(h, [Idle EXCEPT !.kind = "remove", !.user = db.rows[s].owner, !.mine = {s},
                            !.todo = {s}, !.step = "destroy"])
    /\ Reads

\* Whatever runs under the recorded id is stopped and destroyed.  A failure aborts
\* the request, even when the guest was destroyed after all.
Destroy(h) ==
    \E s \in Lowest(req[h].todo) :
        LET v == db.rows[s].vmid
            Gone == IF v = NoVmid THEN guests ELSE [guests EXCEPT ![v] = NoGuest]
        IN  /\ req[h].step = "destroy"
            /\ \/ guests' = Gone /\ Step(h, "forget") /\ Reads
               \/ v # NoVmid /\ Fail(h) /\ guests' \in {guests, Gone}
            /\ blamed' = {w \in blamed : guests'[w] # NoGuest}
            /\ IF guests' = guests THEN UNCHANGED <<spent, robbed>>
               ELSE /\ spent' = spent \cup {i \in Servers : v \in {db.rows[i].vmid, draft.rows[i].vmid}}
                    /\ robbed' = robbed \cup {k \in Threads : req[k].vmid = v}
            /\ UNCHANGED bounds

DeletedRow(row) == [UnusedRow EXCEPT !.state = "deleted", !.name = row.name, !.vmid = row.vmid]
Deleted == [state |-> "deleted", admin |-> FALSE, active |-> FALSE]

\* The record goes if its owner is still the one the request read.
Forget(h) ==
    LET r == req[h]
    IN  /\ r.step = "forget" /\ CanWrite(h)
        /\ \E s \in Lowest(r.todo) :
              /\ Hold(h, IF s \in Owned(draft, r.user)
                         THEN [draft EXCEPT !.rows[s] = DeletedRow(@)] ELSE draft)
              /\ Goes(h, [r EXCEPT !.todo = @ \ {s},
                              !.step = IF r.todo # {s} THEN "destroy"
                                       ELSE IF r.kind = "deleteUser" THEN "write" ELSE "commit"])
        /\ UNCHANGED <<guests, history, bounds>>

\* The transfer moves every server the account has by now and fails if the recipient
\* is gone; what is left goes with the account (ON DELETE CASCADE).
WriteDelete(h) ==
    LET r == req[h]
        owned == Owned(draft, r.user)
    IN  /\ r.step = "write" /\ r.kind = "deleteUser" /\ CanWrite(h)
        /\ IF r.to # Nobody /\ owned # {} /\ ~Live(draft, r.to)
           THEN Fail(h)
           ELSE /\ Hold(h, [draft EXCEPT
                       !.users[r.user] = Deleted,
                       !.rows = [s \in Servers |->
                           IF s \notin owned THEN @[s]
                           ELSE IF r.to # Nobody THEN [@[s] EXCEPT !.owner = r.to]
                           ELSE DeletedRow(@[s])]])
                /\ Step(h, "commit")
        /\ UNCHANGED <<guests, history, bounds>>

\* The jump-server account is removed before the commit.
CommitDelete(h) ==
    /\ req[h].step = "commit"
    /\ Commit(h) /\ End(h)
    /\ LET unlisted == Rows(db) \ (Rows(draft) \cup req[h].mine \cup spent)
       IN  blamed' = blamed \cup ({db.rows[s].vmid : s \in unlisted} \ {NoVmid})
    /\ UNCHANGED <<guests, spent, robbed, bounds>>

DeleteTemplate(h, t) ==
    /\ Starts(h, "deleteTemplate") /\ h \in Desk /\ Serves(h, Nobody)
    /\ t \in draft.templates /\ CanWrite(h)
    /\ Save([draft EXCEPT !.templates = @ \ {t}])
    /\ UNCHANGED req

-----------------------------------------------------------------------------
(* Resizing.                                                                *)

BeginResize(h, s, size) ==
    /\ Starts(h, "resize") /\ s \in Rows(db)
    /\ LET row == db.rows[s]
       IN  /\ Serves(h, row.owner)
           /\ Created(row) /\ size > row.disk
           /\ h \in Portal => Usage(db, row.owner) + (size - row.disk) <= MaxDisk
           /\ Goes(h, [Idle EXCEPT !.kind = "resize", !.admin = h \in Desk,
                          !.user = row.owner, !.mine = {s}, !.row = row, !.disk = size,
                          !.step = "apply"])
    /\ Reads

\* The disk grows by the difference to the size read; an error may come after the
\* fact, and then nothing is recorded.
Grown(r) == [guests EXCEPT ![r.row.vmid].disk = @ + (r.disk - r.row.disk)]
ApplyUnchecked(h) ==                                   \* seeded bug
    /\ req[h].step = "apply"
    /\ guests[req[h].row.vmid] # NoGuest
    /\ guests' \in {guests, Grown(req[h])}
    /\ Step(h, "write")
    /\ Reads /\ UNCHANGED <<history, bounds>>
Apply(h) ==
    LET r == req[h]
    IN  /\ r.step = "apply"
        /\ \/ /\ guests[r.row.vmid] # NoGuest
              /\ guests' = Grown(r)
              /\ Step(h, "write") \/ End(h)
           \/ UNCHANGED guests /\ End(h)
        /\ Reads /\ UNCHANGED <<history, bounds>>

WriteResize(h) ==
    LET r == req[h]
    IN  /\ r.step = "write" /\ r.kind = "resize" /\ CanWrite(h)
        /\ \E s \in r.mine :
              IF s \in Owned(draft, r.user)
              THEN Save([draft EXCEPT !.rows[s].disk = r.disk,
                                      !.rows[s].adminModified = @ \/ r.admin])
              ELSE Reads
        /\ End(h)
        /\ UNCHANGED <<guests, history, bounds>>

-----------------------------------------------------------------------------
(* Failures.                                                                *)

\* A write waits five seconds for the lock; the one in its way holds it for minutes.
BusyTimeout(h) ==
    /\ ~CanWrite(h)
    /\ \/ req[h].step = "record" /\ Loses(h)
       \/ req[h].step \in {"write", "forget"} /\ Fail(h) /\ UNCHANGED history
    /\ UNCHANGED <<guests, bounds>>

\* Requests vanish, and with them what they had not committed.
Cloning == {h \in Threads : req[h].step \in {"wait", "record", "finish"}}
Crash ==
    /\ crashes < MaxCrashes
    /\ crashes' = crashes + 1
    /\ req' = [h \in Threads |-> Idle]
    /\ Save(db)
    /\ blamed' = blamed \cup UNION {InHand(h) : h \in Cloning} /\ robbed' = {}
    /\ UNCHANGED <<guests, spent, served>>

Next ==
    \/ \E h \in Threads :
          \/ \E u \in Users : \/ \E t \in Templates, x \in Suffixes : BeginCreate(h, u, t, x)
                              \/ \E a \in BOOLEAN, ts \in SUBSET Templates :
                                    BeginNewUser(h, u, a, ts)
                              \/ \E c \in Changes :
                                    BeginUpdate(h, u, c)
                              \/ \E to \in Users \cup {Nobody} : BeginDeleteUser(h, u, to)
          \/ \E s \in Servers : \/ BeginRemove(h, s)
                                \/ \E size \in 1 .. MaxDisk : BeginResize(h, s, size)
          \/ \E t \in Templates : DeleteTemplate(h, t)
          \/ CheckQuota(h) \/ TakeId(h) \/ SkipTemplate(h) \/ Clone(h) \/ Wait(h)
          \/ Record(h) \/ Finish(h) \/ Onboard(h)
          \/ WriteUpdate(h) \/ Destroy(h) \/ Forget(h) \/ WriteDelete(h) \/ CommitDelete(h)
          \/ Apply(h) \/ WriteResize(h) \/ BusyTimeout(h)
    \/ Crash

Spec == Init /\ [][Next]_vars

-----------------------------------------------------------------------------
(* Properties.                                                              *)

\* A guest that was cloned for an owner is named by a committed record of that host
\* name, or in the hands of the request that cloned it; otherwise a clone was given up,
\* an insert was refused, an account was deleted over servers it had not when listed,
\* or the process died: name collisions, a failing template, pool or destroy, and the
\* rollback of an aborted deletion leave no guest without a record.
NoGuestUnaccounted ==
    \A v \in Vmids :
        \/ guests[v] = NoGuest
        \/ v \in blamed
        \/ \E h \in Cloning : v \in InHand(h)
        \/ \E s \in Rows(db) \ spent : db.rows[s].vmid = v

\* Owners exceed the number of servers an account may create for itself by no more
\* than the creations that were checked at the same time: the check and the record
\* are minutes apart, and what is under way counts as soon as it has passed the check.
SelfMade(u) == {s \in Counted(db, u) : /\ ~db.rows[s].adminModified
                                       /\ db.rows[s].name.owner = u}
UnderWay(u) == {h \in Portal : req[h].kind = "create" /\ req[h].user = u}
OvershootIsBounded ==
    \A u \in Users : Cardinality(SelfMade(u)) + Cardinality(UnderWay(u))
                        <= MaxServers - 1 + Cardinality(Portal)

\* However requests of owners, deletions and failures interleave with the changes one
\* administrator makes at a time, an active administrator is left.
AnAdminRemains == ActiveAdmins(db) # {}

\* A record whose guest no request has destroyed is the record of the guest under its id,
\* and never claims more disk than that has: overlapping and half-failed resizes only
\* understate it, so the quota is never charged for disk that is not there.
DiskNeverOverstated ==
    \A s \in Rows(db) \ spent :
        LET row == db.rows[s]
        IN  row.vmid # NoVmid =>
               /\ guests[row.vmid] # NoGuest /\ guests[row.vmid].host = Host(row)
               /\ row.disk <= guests[row.vmid].disk

\* Proxmox hands a freed id out again.  A destroy takes a guest other than the one its
\* record was made for only when the guest of that record had been destroyed before:
\* by a request that raced it, or by an account deletion that was rolled back.
DestroysItsOwnGuest ==
    [][\A h \in Threads :
          req[h].step = "destroy" /\ req'[h] # req[h] /\ guests' # guests =>
              \A s \in Lowest(req[h].todo) :
                 s \in spent \/ guests[db.rows[s].vmid].host = Host(db.rows[s])]_vars
=============================================================================
