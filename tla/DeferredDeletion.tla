--------------------------- MODULE DeferredDeletion ---------------------------
(***************************************************************************)
(* Deferred deletion of user servers: the request, cancel and force-remove *)
(* handlers and the lazy sweep of backend/app/routers/provisioning.py over *)
(* the user_servers table, the single SQLite write lock and the Proxmox    *)
(* guests.  Requests run concurrently in a thread pool.  A statement that  *)
(* reads before the request's first write sees the latest commit; the      *)
(* first write takes the write lock, which the request keeps until it      *)
(* commits or rolls back, even across network calls.                       *)
(***************************************************************************)
EXTENDS Integers, FiniteSets

CONSTANTS
    Servers,      \* ids of user_servers rows
    Users,        \* accounts that exist at the start
    Admins,       \* those with role "admin"
    SelfService,  \* those with the self_service flag
    Listers,      \* server-list requests, and the sweep at startup
    Handlers,     \* request / cancel / force-remove requests
    Nobody,       \* no holder of a lock, no server, no account
    Elsewhere,    \* a request outside this module that holds the write lock
    NoRow,        \* the row does not exist
    Grace,        \* the grace window, in ticks
    MaxPerCall,   \* _SWEEP_MAX_PER_CALL
    MaxFaults     \* bound: crashes, rollbacks and foreign write transactions

NotRequested == -2    \* deletion_requested_at = ''
Unreadable   == -1    \* a deletion_requested_at that _parse_ts rejects

\* requested is the age of the request in ticks, saturating at Grace.
Row == [owner : Users,
        requested : {NotRequested, Unreadable} \cup (0 .. Grace),
        failed : BOOLEAN]                          \* deletion_error is set
Table == [Servers -> Row \cup {NoRow}]

ASSUME AdminsAssumption == Admins \subseteq Users /\ SelfService \subseteq Users
ASSUME BoundsAssumption == /\ Grace \in Nat \ {0}
                           /\ MaxPerCall \in Nat \ {0}
                           /\ MaxFaults \in Nat
ASSUME NoRowAssumption  == NoRow \notin Row
ASSUME NobodyAssumption == /\ Nobody \notin Listers \cup Servers \cup Users
                           /\ Elsewhere \notin Listers \cup {Nobody}

VARIABLES
    table,      \* user_servers as committed
    draft,      \* user_servers as the write transaction sees it
    writer,     \* who holds the write lock
    guest,      \* the Proxmox guest of each server
    provider,   \* _provider_configured(settings)
    accounts,   \* rows of users
    sweepLock,  \* _sweep_lock
    lister,     \* the server-list requests in progress
    handler,    \* the other requests in progress
    audited,    \* force-removals audited as "guest NOT confirmed destroyed"
    faults

vars == <<table, draft, writer, guest, provider, accounts, sweepLock, lister,
          handler, audited, faults>>

IdleLister  == [pc |-> "idle", snap |-> [s \in Servers |-> NoRow], todo |-> {},
                cur |-> Nobody, ok |-> FALSE, actioned |-> 0]
IdleHandler == [pc |-> "idle", srv |-> Nobody, owner |-> Nobody, ok |-> FALSE]

\* "none": vmid is NULL.  "swept": destroyed by a sweep.  "gone": absent otherwise.
Guests == {"none", "present", "swept", "gone"}

ListerType  == [pc : {"idle", "sweep", "settle", "tail"}, snap : Table,
                todo : SUBSET Servers, cur : Servers \cup {Nobody},
                ok : BOOLEAN, actioned : 0 .. MaxPerCall]
HandlerType == [pc : {"idle", "request", "cancel", "force", "forced"},
                srv : Servers \cup {Nobody}, owner : Users \cup {Nobody},
                ok : BOOLEAN]

TypeOK ==
    /\ table \in Table
    /\ draft \in Table
    /\ writer \in Listers \cup {Nobody, Elsewhere}
    /\ guest \in [Servers -> Guests]
    /\ provider \in BOOLEAN
    /\ accounts \subseteq Users
    /\ sweepLock \in Listers \cup {Nobody}
    /\ lister \in [Listers -> ListerType]
    /\ handler \in [Handlers -> HandlerType]
    /\ audited \subseteq Servers
    /\ faults \in 0 .. MaxFaults

\* Rows another module created; the timestamp of some was edited by hand.
Init ==
    /\ table \in [Servers -> [owner : Users,
                              requested : {NotRequested, Unreadable},
                              failed : {FALSE}]]
    /\ draft = table
    /\ writer = Nobody
    /\ guest \in [Servers -> {"none", "present"}]
    /\ provider = TRUE
    /\ accounts = Users
    /\ sweepLock = Nobody
    /\ lister = [l \in Listers |-> IdleLister]
    /\ handler = [h \in Handlers |-> IdleHandler]
    /\ audited = {}
    /\ faults = 0

-----------------------------------------------------------------------------
(* The database as a request sees it.                                      *)

Exists(row)    == row # NoRow
Scheduled(row) == Exists(row) /\ row.requested # NotRequested

DeletionDueEarly(age) == age >= Grace - 1            \* seeded bug

DeletionDue(age) == age >= Grace

\* What the sweep acts on: due rows and rows whose timestamp it cannot read;
\* rows already marked failed are skipped.
Actionable(row) == /\ Exists(row) /\ ~row.failed
                   /\ row.requested = Unreadable \/ DeletionDue(row.requested)

Due(row) == Exists(row) /\ ~row.failed /\ DeletionDue(row.requested)

View(p)       == IF writer = p THEN draft ELSE table
CanWrite(p)   == writer \in {Nobody, p}

\* The row a sweep listed is still there under the owner it listed:
\* every statement says WHERE id = ? AND user_id = ?.
Matches(l, s) == Exists(View(l)[s]) /\ View(l)[s].owner = lister[l].snap[s].owner

\* One short transaction: write and commit with no network call between.
WriteNow(t) == writer = Nobody /\ table' = t /\ draft' = t

-----------------------------------------------------------------------------
(* expire_pending_server_deletions, run by a server-list request.          *)

ListingUnlocked(l) ==                                 \* seeded bug
    /\ lister[l].pc = "idle"
    /\ sweepLock' = l
    /\ LET due == {s \in Servers : Actionable(table[s])}
       IN  lister' = [lister EXCEPT ![l] =
               [pc |-> "sweep",
                snap |-> [s \in Servers |-> IF s \in due THEN table[s] ELSE NoRow],
                todo |-> due, cur |-> Nobody, ok |-> FALSE, actioned |-> 0]]
    /\ UNCHANGED <<table, draft, writer, guest, provider, accounts, handler,
                   audited, faults>>

\* A caller that finds the sweep lock taken returns at once and sweeps
\* nothing, which changes no state here.
Listing(l) ==
    /\ lister[l].pc = "idle"
    /\ sweepLock = Nobody
    /\ sweepLock' = l
    /\ LET due == {s \in Servers : Actionable(table[s])}
       IN  lister' = [lister EXCEPT ![l] =
               [pc |-> "sweep",
                snap |-> [s \in Servers |-> IF s \in due THEN table[s] ELSE NoRow],
                todo |-> due, cur |-> Nobody, ok |-> FALSE, actioned |-> 0]]
    /\ UNCHANGED <<table, draft, writer, guest, provider, accounts, handler,
                   audited, faults>>

\* The loop of _run_deletion_sweep reaches row s.  The rows come oldest
\* request first; ages saturate here, so any order is allowed.
Reaches(l, s) == /\ lister[l].pc = "sweep"
                 /\ lister[l].actioned < MaxPerCall
                 /\ s \in lister[l].todo

\* The loop is done with row s; a row whose statement raised is not counted.
Concludes(l, s, counted) ==
    lister' = [lister EXCEPT ![l] =
        [pc |-> "sweep", snap |-> @.snap, todo |-> @.todo \ {s}, cur |-> Nobody,
         ok |-> FALSE, actioned |-> IF counted THEN @.actioned + 1 ELSE @.actioned]]

MarkFailedSilently(l, s) ==                           \* seeded bug
    Concludes(l, s, TRUE) /\ UNCHANGED <<draft, writer>>

\* update_user_server(deletion_error=...): no statement when the row no
\* longer matches; "database is locked" when another request keeps the lock
\* for longer than busy_timeout.
MarkFailed(l, s) ==
    \/ /\ ~Matches(l, s)
       /\ Concludes(l, s, TRUE)
       /\ UNCHANGED <<draft, writer>>
    \/ /\ Matches(l, s)
       /\ CanWrite(l)
       /\ draft' = [draft EXCEPT ![s].failed = TRUE]
       /\ writer' = l
       /\ Concludes(l, s, TRUE)
    \/ /\ Matches(l, s)
       /\ ~CanWrite(l)
       /\ Concludes(l, s, FALSE)
       /\ UNCHANGED <<draft, writer>>

\* delete_user_server: the DELETE takes the lock even when it matches no row.
RemoveRow(l, s) ==
    \/ /\ CanWrite(l)
       /\ draft' = IF Matches(l, s) THEN [draft EXCEPT ![s] = NoRow] ELSE draft
       /\ writer' = l
       /\ Concludes(l, s, TRUE)
    \/ /\ ~CanWrite(l)
       /\ Concludes(l, s, FALSE)
       /\ UNCHANGED <<draft, writer>>

FlagUnreadable(l, s) ==
    /\ Reaches(l, s)
    /\ lister[l].snap[s].requested = Unreadable
    /\ MarkFailed(l, s)
    /\ UNCHANGED <<table, guest, provider, accounts, sweepLock, handler,
                   audited, faults>>

RefuseByRemoving(l, s) ==                             \* seeded bug
    /\ Reaches(l, s)
    /\ lister[l].snap[s].requested # Unreadable
    /\ ~provider
    /\ RemoveRow(l, s)
    /\ UNCHANGED <<table, guest, provider, accounts, sweepLock, handler,
                   audited, faults>>

\* _destroy_and_settle without a provider: the reason becomes the error.
Refuse(l, s) ==
    /\ Reaches(l, s)
    /\ lister[l].snap[s].requested # Unreadable
    /\ ~provider
    /\ MarkFailed(l, s)
    /\ UNCHANGED <<table, guest, provider, accounts, sweepLock, handler,
                   audited, faults>>

\* servers.destroy_server: a record without a vmid has nothing to destroy;
\* an absent guest is a success unless the inventory cannot be read.
Destroy(l, s) ==
    /\ Reaches(l, s)
    /\ lister[l].snap[s].requested # Unreadable
    /\ provider
    /\ \/ /\ lister' = [lister EXCEPT ![l].pc = "settle", ![l].cur = s, ![l].ok = TRUE]
          /\ guest' = [guest EXCEPT ![s] = IF @ = "present" THEN "swept" ELSE @]
       \/ /\ guest[s] # "none"
          /\ lister' = [lister EXCEPT ![l].pc = "settle", ![l].cur = s, ![l].ok = FALSE]
          /\ UNCHANGED guest
    /\ UNCHANGED <<table, draft, writer, provider, accounts, sweepLock, handler,
                   audited, faults>>

SettleRegardless(l) ==                                \* seeded bug
    /\ lister[l].pc = "settle"
    /\ RemoveRow(l, lister[l].cur)
    /\ UNCHANGED <<table, guest, provider, accounts, sweepLock, handler,
                   audited, faults>>

Settle(l) ==
    /\ lister[l].pc = "settle"
    /\ IF lister[l].ok THEN RemoveRow(l, lister[l].cur)
                       ELSE MarkFailed(l, lister[l].cur)
    /\ UNCHANGED <<table, guest, provider, accounts, sweepLock, handler,
                   audited, faults>>

SweepEndsIdleKeepsLock(l) ==                          \* seeded bug
    /\ lister[l].pc = "sweep"
    /\ lister[l].todo = {} \/ lister[l].actioned = MaxPerCall
    /\ sweepLock' = IF lister[l].actioned = 0 THEN sweepLock ELSE Nobody
    /\ lister' = [lister EXCEPT ![l].pc = "tail"]
    /\ UNCHANGED <<table, draft, writer, guest, provider, accounts, handler,
                   audited, faults>>

\* The lock is released before the request's transaction ends: the rest of
\* the list handler (pools, presence, mesh) runs with the write lock held.
SweepEnds(l) ==
    /\ lister[l].pc = "sweep"
    /\ lister[l].todo = {} \/ lister[l].actioned = MaxPerCall
    /\ sweepLock' = Nobody
    /\ lister' = [lister EXCEPT ![l].pc = "tail"]
    /\ UNCHANGED <<table, draft, writer, guest, provider, accounts, handler,
                   audited, faults>>

Commit(l) ==
    /\ lister[l].pc = "tail"
    /\ lister' = [lister EXCEPT ![l] = IdleLister]
    /\ IF writer = l
       THEN table' = draft /\ writer' = Nobody
       ELSE UNCHANGED <<table, writer>>
    /\ UNCHANGED <<draft, guest, provider, accounts, sweepLock, handler,
                   audited, faults>>

RollbackForgotten(l) ==                               \* seeded bug
    /\ lister[l].pc = "tail"
    /\ writer = l
    /\ faults < MaxFaults
    /\ faults' = faults + 1
    /\ writer' = Nobody
    /\ lister' = [lister EXCEPT ![l] = IdleLister]
    /\ UNCHANGED <<table, draft, guest, provider, accounts, sweepLock, handler,
                   audited>>

\* get_db rolls back when the handler, or the commit, raises.
Rollback(l) ==
    /\ lister[l].pc = "tail"
    /\ writer = l
    /\ faults < MaxFaults
    /\ faults' = faults + 1
    /\ draft' = table
    /\ writer' = Nobody
    /\ lister' = [lister EXCEPT ![l] = IdleLister]
    /\ UNCHANGED <<table, guest, provider, accounts, sweepLock, handler, audited>>

-----------------------------------------------------------------------------
(* The handlers of one server.  Each reads and checks the row, and writes  *)
(* it in a later statement.                                                *)

\* _require_self_or_admin, then the self-service check.
MayManage(a, row) == a \in Admins \/ (a = row.owner /\ a \in SelfService)

Requestable(row) == Exists(row) /\ ~row.failed /\ row.requested = NotRequested
Cancellable(row) == Exists(row) /\ ~row.failed /\ row.requested # NotRequested

Begins(h, s, step) ==
    /\ handler[h].pc = "idle"
    /\ handler' = [handler EXCEPT ![h] = [pc |-> step, srv |-> s,
                                          owner |-> table[s].owner, ok |-> FALSE]]
    /\ UNCHANGED <<table, draft, writer, guest, provider, accounts, sweepLock,
                   lister, audited, faults>>

BeginRequest(h, a, s) == /\ Requestable(table[s])
                         /\ MayManage(a, table[s])
                         /\ Begins(h, s, "request")

BeginCancel(h, a, s) == /\ Cancellable(table[s])
                        /\ MayManage(a, table[s])
                        /\ Begins(h, s, "cancel")

BeginForceRemove(h, a, s) == /\ Exists(table[s])
                             /\ a \in Admins
                             /\ Begins(h, s, "force")

Ends(h) == handler' = [handler EXCEPT ![h] = IdleHandler]

StillOwned(h) == LET row == table[handler[h].srv]
                 IN  Exists(row) /\ row.owner = handler[h].owner

\* update_user_server(deletion_requested_at=...); a row that went away in
\* between trips "assert updated is not None" and changes nothing.
WriteSchedule(h, step, value) ==
    /\ handler[h].pc = step
    /\ WriteNow(IF StillOwned(h)
                THEN [table EXCEPT ![handler[h].srv].requested = value]
                ELSE table)
    /\ Ends(h)
    /\ UNCHANGED <<writer, guest, provider, accounts, sweepLock, lister,
                   audited, faults>>

WriteRequest(h) == WriteSchedule(h, "request", 0)
WriteCancel(h)  == WriteSchedule(h, "cancel", NotRequested)

ForceDestroyAssumed(h) ==                             \* seeded bug
    /\ handler[h].pc = "force"
    /\ handler' = [handler EXCEPT ![h].pc = "forced", ![h].ok = TRUE]
    /\ UNCHANGED <<table, draft, writer, guest, provider, accounts, sweepLock,
                   lister, audited, faults>>

\* The best-effort destroy; "skipped" without a provider or a vmid.
ForceDestroy(h) ==
    /\ handler[h].pc = "force"
    /\ LET s == handler[h].srv
       IN  \/ /\ provider
              /\ guest[s] # "none"
              /\ handler' = [handler EXCEPT ![h].pc = "forced", ![h].ok = TRUE]
              /\ guest' = [guest EXCEPT ![s] = IF @ = "present" THEN "gone" ELSE @]
           \/ /\ handler' = [handler EXCEPT ![h].pc = "forced", ![h].ok = FALSE]
              /\ UNCHANGED guest
    /\ UNCHANGED <<table, draft, writer, provider, accounts, sweepLock, lister,
                   audited, faults>>

\* The record goes whatever the outcome; the audit row says whether the
\* guest was confirmed destroyed.
ForceDelete(h) ==
    /\ handler[h].pc = "forced"
    /\ WriteNow(IF StillOwned(h) THEN [table EXCEPT ![handler[h].srv] = NoRow] ELSE table)
    /\ audited' = IF handler[h].ok THEN audited ELSE audited \cup {handler[h].srv}
    /\ Ends(h)
    /\ UNCHANGED <<writer, guest, provider, accounts, sweepLock, lister, faults>>

\* The write waited for busy_timeout: 500, nothing changed.
HandlerTimesOut(h) ==
    /\ handler[h].pc \in {"request", "cancel", "forced"}
    /\ writer # Nobody
    /\ Ends(h)
    /\ UNCHANGED <<table, draft, writer, guest, provider, accounts, sweepLock,
                   lister, audited, faults>>

-----------------------------------------------------------------------------
(* What happens around them.                                               *)

TransferUnscheduledServers(u, v) ==                   \* seeded bug
    /\ u \in accounts
    /\ v \in accounts \ {u}
    /\ Admins \cap (accounts \ {u}) # {}
    /\ WriteNow([s \in Servers |->
                   IF Exists(table[s]) /\ table[s].owner = u /\ ~Scheduled(table[s])
                   THEN [table[s] EXCEPT !.owner = v]
                   ELSE table[s]])
    /\ accounts' = accounts \ {u}
    /\ UNCHANGED <<writer, guest, provider, sweepLock, lister, handler, audited, faults>>

\* delete_user(server_disposition=transfer): another administrator deletes u
\* and reassigns its servers, whatever their deletion state, to v.
TransferServers(u, v) ==
    /\ u \in accounts
    /\ v \in accounts \ {u}
    /\ Admins \cap (accounts \ {u}) # {}
    /\ WriteNow([s \in Servers |-> IF Exists(table[s]) /\ table[s].owner = u
                                   THEN [table[s] EXCEPT !.owner = v]
                                   ELSE table[s]])
    /\ accounts' = accounts \ {u}
    /\ UNCHANGED <<writer, guest, provider, sweepLock, lister, handler, audited, faults>>

\* update_provisioning_settings gives or takes away the provider.
ToggleProvider ==
    /\ writer = Nobody
    /\ provider' = ~provider
    /\ UNCHANGED <<table, draft, writer, guest, accounts, sweepLock, lister,
                   handler, audited, faults>>

\* A request outside this module keeps the write lock across network calls.
OthersWrite ==
    /\ writer = Nobody
    /\ faults < MaxFaults
    /\ writer' = Elsewhere
    /\ faults' = faults + 1
    /\ UNCHANGED <<table, draft, guest, provider, accounts, sweepLock, lister,
                   handler, audited>>

OthersCommit ==
    /\ writer = Elsewhere
    /\ writer' = Nobody
    /\ UNCHANGED <<table, draft, guest, provider, accounts, sweepLock, lister,
                   handler, audited, faults>>

\* Someone deletes the guest in Proxmox, or a destroy that timed out ends.
LoseGuest(s) ==
    /\ guest[s] = "present"
    /\ guest' = [guest EXCEPT ![s] = "gone"]
    /\ UNCHANGED <<table, draft, writer, provider, accounts, sweepLock, lister,
                   handler, audited, faults>>

AgedForEver(t) == [s \in Servers |->                   \* seeded bug
    IF Exists(t[s]) /\ t[s].requested \in 0 .. Grace
    THEN [t[s] EXCEPT !.requested = @ + 1] ELSE t[s]]

Aged(t) == [s \in Servers |->
    IF Exists(t[s]) /\ t[s].requested \in 0 .. (Grace - 1)
    THEN [t[s] EXCEPT !.requested = @ + 1] ELSE t[s]]

\* A tick is hours, and a request handler makes no network call between its
\* two statements: it never spans the tick of another handler's request.
Tick ==
    /\ \A h \in Handlers : handler[h].pc # "request"
    /\ Aged(table) # table \/ Aged(draft) # draft
    /\ table' = Aged(table)
    /\ draft' = Aged(draft)
    /\ UNCHANGED <<writer, guest, provider, accounts, sweepLock, lister,
                   handler, audited, faults>>

\* The process dies; committed rows and guests survive.
Crash ==
    /\ faults < MaxFaults
    /\ faults' = faults + 1
    /\ draft' = table
    /\ writer' = Nobody
    /\ sweepLock' = Nobody
    /\ lister' = [l \in Listers |-> IdleLister]
    /\ handler' = [h \in Handlers |-> IdleHandler]
    /\ UNCHANGED <<table, guest, provider, accounts, audited>>

-----------------------------------------------------------------------------
SweepStep(l) ==
    \/ \E s \in Servers : FlagUnreadable(l, s) \/ Refuse(l, s) \/ Destroy(l, s)
    \/ Settle(l)
    \/ SweepEnds(l)
    \/ Commit(l)

HandlerStep(h) ==
    \/ \E a \in accounts, s \in Servers :
          BeginRequest(h, a, s) \/ BeginCancel(h, a, s) \/ BeginForceRemove(h, a, s)
    \/ WriteRequest(h)
    \/ WriteCancel(h)
    \/ ForceDestroy(h)
    \/ ForceDelete(h)
    \/ HandlerTimesOut(h)

Surroundings ==
    \/ \E u, v \in Users : TransferServers(u, v)
    \/ ToggleProvider
    \/ OthersWrite
    \/ OthersCommit
    \/ \E s \in Servers : LoseGuest(s)
    \/ Tick
    \/ Crash

Next ==
    \/ \E l \in Listers : Listing(l) \/ SweepStep(l) \/ Rollback(l)
    \/ \E h \in Handlers : HandlerStep(h)
    \/ Surroundings

Spec == Init /\ [][Next]_vars

\* A thread that runs keeps running, a foreign transaction ends, and someone
\* lists servers again: there is no background scheduler, the sweep relies on it.
Fairness ==
    /\ \A l \in Listers : WF_vars(SweepStep(l))
    /\ WF_vars(OthersCommit)
    /\ WF_vars(\E l \in Listers : Listing(l))

FairSpec == Spec /\ Fairness

-----------------------------------------------------------------------------
(* Properties.                                                             *)

\* A guest never runs without a record, unless an administrator removed the
\* record by force and the audit trail says the guest was not confirmed
\* destroyed: not through a sweep that deletes what it could not destroy, a
\* stale DELETE, a lost transaction or a crash between destroy and commit.
NoUntrackedGuest ==
    \A s \in Servers : ~Exists(table[s]) /\ guest[s] = "present" => s \in audited

\* _sweep_lock is single-flight: two overlapping sweeps would both stop and
\* destroy the same guest.
OneSweepAtATime ==
    \A l, k \in Listers :
        lister[l].pc \in {"sweep", "settle"} /\ lister[k].pc \in {"sweep", "settle"}
            => l = k

\* Deleting an account never leaves a record behind under it, even when the
\* record is being settled by a sweep that listed it under that account.
OwnersExist ==
    \A s \in Servers : Exists(table[s]) => table[s].owner \in accounts

\* What a sweep or a request rolls back is only its own: without a write
\* transaction the database is what was committed last.
NothingPending == writer \notin Listers => draft = table

\* The state of a record, and the listed rows of the running sweeps, as the
\* contract names them.
RecordState(row) ==
    IF ~Exists(row) THEN "removed"
    ELSE IF row.failed THEN "failed"
    ELSE IF row.requested = NotRequested THEN "live"
    ELSE IF row.requested = Unreadable THEN "unreadable"
    ELSE IF row.requested = Grace THEN "due" ELSE "pending"

Claims == UNION {{<<s, RecordState(lister[l].snap[s])>> :
                    s \in {x \in Servers : Exists(lister[l].snap[x])}} : l \in Listers}

Contract == INSTANCE DeletionContract
                WITH record <- [s \in Servers |-> RecordState(table[s])],
                     claims <- Claims, reported <- audited

\* Everything the handlers and the sweeps do is what the contract allows: a
\* sweep destroys only what it listed as due, settles only what it listed.
MeetsContract == Contract!Spec

\* A request whose grace window is over does not stay that way: a sweep
\* settles it, the record goes or is marked failed, or someone cancels.
DueIsSettled == \A s \in Servers : Due(table[s]) ~> ~Due(table[s])

\* No sweep keeps _sweep_lock for ever, so that the next one can run.
SweepLockIsReleased ==
    \A l \in Listers : sweepLock = l ~> sweepLock # l

-----------------------------------------------------------------------------
(* What the tests and the messages say, and the code does not do.          *)

\* "Cancelling wins if it beats the sweep" (test_user_servers.py): a sweep
\* destroys a guest only while its deletion is still scheduled.
CancelWins ==
    [][\A s \in Servers :
          guest[s] # "swept" /\ guest'[s] = "swept" => Scheduled(table[s])]_vars

\* "At most _SWEEP_MAX_PER_CALL guests are destroyed per sweep call"
\* (test_user_servers.py): counting the listed guests a call is done with.
AtMostPerCall ==
    \A l \in Listers :
        Cardinality({s \in Servers : /\ Exists(lister[l].snap[s])
                                     /\ s \notin lister[l].todo \/ s = lister[l].cur
                                     /\ guest[s] = "swept"}) <= MaxPerCall

\* "Cancel and re-request, or force-remove" says the error of a record whose
\* timestamp is unreadable: so the cancel handler accepts such a record.
FlaggedIsCancellable ==
    \A s \in Servers :
        Exists(table[s]) /\ table[s].failed /\ table[s].requested = Unreadable
            => Cancellable(table[s])
=============================================================================
