------------------------------- MODULE ProxyPush -------------------------------
(***************************************************************************)
(* The reverse-proxy push: requests of backend/app/routers/applications.py *)
(* that commit a change of an application and then rewrite one nginx.conf  *)
(* on another host, command by command over SSH                            *)
(* (backend/app/reverse_proxy.py).  Each application owns one marked block *)
(* of the file, the protected-alias locations another.  Nothing locks the  *)
(* file: the commands of two requests interleave freely.                   *)
(***************************************************************************)
EXTENDS Naturals, FiniteSets

CONSTANTS
    Apps,          \* ids of applications (AUTOINCREMENT: an id is never reused)
    Shared,        \* the block of ensure_proxy_auth_config
    Workers,       \* requests in progress
    Nobody,        \* no application
    Requests,      \* the requests this instance makes
    PushesAtOnce,  \* how many requests may be between load and record; the
                   \* code sets no limit, 1 is what a lock would give
    Faults,        \* whether a remote command, or the configuration, may fail
    MaxEdits,      \* bound: changes of applications
    MaxMishaps     \* bound: crashes, and writes that wait in vain for a request
                   \* outside this module

Blocks == Apps \cup {Shared}
Absent == 0        \* no marked block; otherwise the version it was rendered from

PrivilegedEdits == {"edit", "retype"}        \* by an admin or self-service user
OwnerEdits == {"ownerEdit", "ownerRetype", "ownerStage", "ownerBundle"}
Changes == PrivilegedEdits \cup OwnerEdits
OnApplication == Changes \cup {"approve", "reject", "retry", "delete"}
Others == {"create", "submit", "purge", "settings"}

ASSUME RequestsAssumption == Requests \subseteq OnApplication \cup Others
ASSUME BoundsAssumption == /\ PushesAtOnce \in Nat \ {0}
                           /\ MaxEdits \in Nat /\ MaxMishaps \in Nat
                           /\ Faults \in BOOLEAN
ASSUME WorkersAssumption == IsFiniteSet(Workers)
ASSUME NamesAssumption == Shared \notin Apps /\ Nobody \notin Blocks

VARIABLES
    apps,      \* rows of applications, as committed
    file,      \* nginx.conf on the proxy host
    running,   \* the configuration nginx has loaded
    job,       \* what each request is doing
    removal,   \* outcome of nginx_remove in the audit log
    edits, mishaps

vars == <<apps, file, running, job, removal, edits, mishaps>>

\* version stands for everything the block is rendered from; reviewed is the last
\* version that an administrator or self-service user made or approved (history).
Row == [state : {"unused", "live", "deleted"}, alias : BOOLEAN,
        approved : BOOLEAN, staged : BOOLEAN, needsPush : BOOLEAN,
        version : Nat, reviewed : Nat]
NewRow(approved) == [state |-> "live", alias |-> TRUE, approved |-> approved,
                     staged |-> FALSE, needsPush |-> FALSE, version |-> 1,
                     reviewed |-> IF approved THEN 1 ELSE 0]
Unused == [NewRow(FALSE) EXCEPT !.state = "unused"]

Files   == [Blocks -> Nat]
Empty   == [b \in Blocks |-> Absent]
Results == {"none", "ok", "failed", "reverted", "skipped"}
Steps   == {"commit", "load", "backup", "read", "write", "reload", "verify",
            "restore", "reloadBack", "record"}
Idle == [pc |-> "idle", kind |-> "none", op |-> "none", block |-> Nobody,
         row |-> Unused, want |-> Absent, conf |-> Empty, backup |-> Empty,
         result |-> "none"]
Job == [pc : Steps \cup {"idle"}, kind : {"none", "push", "remove", "auth"},
        op : OnApplication \cup Others \cup {"none"},
        block : Blocks \cup {Nobody}, row : Row, want : Nat, conf : Files,
        backup : Files, result : Results]

TypeOK ==
    /\ apps \in [Apps -> Row]
    /\ file \in Files
    /\ running \in Files
    /\ job \in [Workers -> Job]
    /\ removal \in [Apps -> Results]
    /\ edits \in 0 .. MaxEdits
    /\ mishaps \in 0 .. MaxMishaps

\* Some applications are published already, others do not exist yet.
Init ==
    /\ apps \in [Apps -> {Unused, NewRow(TRUE)}]
    /\ file \in {f \in [Blocks -> {Absent, 1}] :
                    \A a \in Apps : f[a] = IF apps[a] = Unused THEN Absent ELSE 1}
    /\ running = file
    /\ job = [w \in Workers |-> Idle]
    /\ removal = [a \in Apps |-> "none"]
    /\ edits = 0
    /\ mishaps = 0

Live(a) == apps[a].state = "live"

-----------------------------------------------------------------------------
(* The write lock and the section of the remote commands.                   *)

\* update_reverse_proxy_settings writes the settings row and then runs the remote
\* commands; it commits at the end.
HoldsWriteLock(w) == job[w].kind = "auth"
LockedFor(w) == \E v \in Workers \ {w} : HoldsWriteLock(v)

\* Or a request of another module holds it, as provisioning requests do for minutes.
TimesOut(w) ==
    \/ LockedFor(w) /\ UNCHANGED mishaps
    \/ mishaps < MaxMishaps /\ mishaps' = mishaps + 1

Remote(j) == j.pc \in Steps \ {"commit", "load"}
Room == Cardinality({w \in Workers : Remote(job[w])}) < PushesAtOnce

Goes(w, j) == job' = [job EXCEPT ![w] = j]
Step(w, pc) == Goes(w, [job[w] EXCEPT !.pc = pc])
End(w) == Goes(w, Idle)
Fails(w, result, pc) == Goes(w, [job[w] EXCEPT !.pc = pc, !.result = result])

-----------------------------------------------------------------------------
(* Requests.  update_application and delete_application read the row, decide *)
(* from it, may wait for the write lock, and write.                          *)

Begin(w, a, op) ==
    /\ job[w].pc = "idle"
    /\ op \in Requests \cap OnApplication
    /\ Live(a)
    /\ op = "retry" => apps[a].approved
    /\ op = "reject" => ~apps[a].approved \/ apps[a].staged
    /\ op \in Changes => edits < MaxEdits
    /\ edits' = IF op \in Changes THEN edits + 1 ELSE edits
    /\ Goes(w, [Idle EXCEPT !.pc = IF op = "retry" THEN "load" ELSE "commit",
                            !.kind = IF op = "delete" THEN "remove" ELSE "push",
                            !.op = op, !.block = a, !.row = apps[a]])
    /\ UNCHANGED <<apps, file, running, removal, mishaps>>

\* An ordinary owner's change of the alias, the active state or another staged
\* field of an approved alias application waits in a pending_ column.
Stages(op, old) == op \in {"ownerStage", "ownerBundle"} /\ old.approved /\ old.alias
ApprovesStaged(op, old) == op = "approve" /\ old.staged
ChangesLive(op, old) ==
    \/ op \in Changes \ {"ownerStage"}
    \/ op = "ownerStage" /\ ~Stages(op, old)
    \/ ApprovesStaged(op, old)

StatusAfter(op, old, cur) ==
    \/ op = "approve"
    \/ op \in PrivilegedEdits /\ cur.approved
    \/ op \in OwnerEdits /\ Stages(op, old)

Updated(op, old, cur) ==
    LET version  == IF ChangesLive(op, old) THEN cur.version + 1 ELSE cur.version
        approved == StatusAfter(op, old, cur)
    IN  [cur EXCEPT
            !.version = version,
            !.approved = approved,
            !.alias = IF op \in {"retype", "ownerRetype"} THEN ~old.alias ELSE @,
            !.staged = (@ \/ Stages(op, old)) /\ ~ApprovesStaged(op, old),
            !.needsPush = @ \/ (op \in OwnerEdits /\ old.approved /\ old.alias),
            !.reviewed = IF approved /\ op \notin OwnerEdits THEN version ELSE @]

\* normal_approval, staged_*_approval and auto_config_push
Pushes(op, old, new) ==
    \/ op = "approve" /\ (~old.approved \/ old.staged)
    \/ /\ op \in PrivilegedEdits
       /\ old.approved /\ new.approved
       /\ old.alias \/ new.alias

Update(w) ==
    LET j == job[w]
        new == Updated(j.op, j.row, apps[j.block])
    IN  /\ j.pc = "commit" /\ j.op # "delete"
        /\ ~LockedFor(w)
        /\ Live(j.block)
        /\ apps' = [apps EXCEPT ![j.block] = new]
        /\ IF Pushes(j.op, j.row, new) THEN Step(w, "load") ELSE End(w)
        /\ UNCHANGED <<file, running, removal, edits, mishaps>>

DeleteIfClean(w) ==                                     \* seeded bug
    LET j == job[w]
    IN  /\ j.pc = "commit" /\ j.op = "delete"
        /\ ~LockedFor(w)
        /\ apps' = [apps EXCEPT ![j.block].state = "deleted"]
        /\ IF j.row.alias /\ ~j.row.needsPush THEN Step(w, "load") ELSE End(w)
        /\ UNCHANGED <<file, running, removal, edits, mishaps>>

Delete(w) ==
    LET j == job[w]
    IN  /\ j.pc = "commit" /\ j.op = "delete"
        /\ ~LockedFor(w)
        /\ apps' = [apps EXCEPT ![j.block].state = "deleted"]
        /\ IF j.row.alias THEN Step(w, "load") ELSE End(w)
        /\ UNCHANGED <<file, running, removal, edits, mishaps>>

\* "database is locked" after five seconds, or the row has gone meanwhile.
Refused(w) ==
    /\ job[w].pc = "commit"
    /\ \/ TimesOut(w)
       \/ ~Live(job[w].block) /\ job[w].op # "delete" /\ UNCHANGED mishaps
    /\ End(w)
    /\ UNCHANGED <<apps, file, running, removal, edits>>

\* An auto-approved application is pushed; an ordinary user's waits for approval.
Create(w, a, op) ==
    /\ job[w].pc = "idle"
    /\ op \in Requests \cap {"create", "submit"}
    /\ apps[a].state = "unused"
    /\ ~\E v \in Workers : HoldsWriteLock(v)
    /\ \E alias \in BOOLEAN :
          apps' = [apps EXCEPT ![a] = [NewRow(op = "create") EXCEPT !.alias = alias]]
    /\ IF op = "create"
       THEN Goes(w, [Idle EXCEPT !.pc = "load", !.kind = "push", !.op = op,
                                 !.block = a])
       ELSE UNCHANGED job
    /\ UNCHANGED <<file, running, removal, edits, mishaps>>

\* Deleting an account with "Also delete this user's apps" touches no proxy.
Purge(a) ==
    /\ "purge" \in Requests
    /\ Live(a)
    /\ ~\E v \in Workers : HoldsWriteLock(v)
    /\ apps' = [apps EXCEPT ![a].state = "deleted"]
    /\ UNCHANGED <<file, running, job, removal, edits, mishaps>>

SaveSettings(w) ==
    /\ job[w].pc = "idle"
    /\ "settings" \in Requests
    /\ Room
    /\ ~\E v \in Workers : HoldsWriteLock(v)
    /\ \E version \in 1 .. 2 :
          Goes(w, [Idle EXCEPT !.pc = "read", !.kind = "auth", !.op = "settings",
                               !.block = Shared, !.want = version])
    /\ UNCHANGED <<apps, file, running, removal, edits, mishaps>>

-----------------------------------------------------------------------------
(* The remote commands.  A push copies the file before it reads it, a        *)
(* removal and the shared block read it first.                               *)

\* The push runs on a connection of its own and reads the row afresh.
LoadPush(w) ==
    LET row == apps[job[w].block]
    IN  /\ job[w].pc = "load" /\ job[w].kind = "push"
        /\ Room
        /\ IF row.state # "live" THEN End(w)
           ELSE \E configured \in {TRUE, ~Faults} :
                   Goes(w, [job[w] EXCEPT
                        !.pc = IF row.alias /\ configured THEN "backup" ELSE "record",
                        !.row = row, !.want = row.version,
                        !.result = IF row.alias /\ configured THEN @ ELSE "skipped"])
        /\ UNCHANGED <<apps, file, running, removal, edits, mishaps>>

LoadRemoval(w) ==
    /\ job[w].pc = "load" /\ job[w].kind = "remove"
    /\ Room
    /\ \E configured \in {TRUE, ~Faults} :
          Goes(w, [job[w] EXCEPT
               !.pc = IF configured THEN "read" ELSE "record",
               !.want = Absent,
               !.result = IF configured THEN @ ELSE "skipped"])
    /\ UNCHANGED <<apps, file, running, removal, edits, mishaps>>

UnreachableHasNoStatus(w) ==                            \* seeded bug
    /\ Faults
    /\ job[w].pc \in {"backup", "read"}
    /\ Fails(w, "unreachable", "record")
    /\ UNCHANGED <<apps, file, running, removal, edits, mishaps>>

\* A pre-flight check, the copy or the read fails: nothing has been changed.
Unreachable(w) ==
    /\ Faults
    /\ job[w].pc \in {"backup", "read"}
    /\ Fails(w, "failed", "record")
    /\ UNCHANGED <<apps, file, running, removal, edits, mishaps>>

Backup(w) ==
    /\ job[w].pc = "backup"
    /\ Goes(w, [job[w] EXCEPT !.pc = IF job[w].kind = "push" THEN "read" ELSE "write",
                              !.backup = file])
    /\ UNCHANGED <<apps, file, running, removal, edits, mishaps>>

\* A removal that finds no marker is skipped; a current shared block is left alone.
NothingToDo(j) == j.kind # "push" /\ file[j.block] = j.want

Read(w) ==
    LET j == job[w]
    IN  /\ j.pc = "read"
        /\ IF NothingToDo(j)
           THEN Fails(w, IF j.kind = "auth" THEN "ok" ELSE "skipped", "record")
           ELSE Goes(w, [j EXCEPT !.pc = IF j.kind = "push" THEN "write" ELSE "backup",
                                  !.conf = file])
        /\ UNCHANGED <<apps, file, running, removal, edits, mishaps>>

RewrittenFromNothing(j) == [Empty EXCEPT ![j.block] = j.want]   \* seeded bug

\* remove_marked_block, then inject_before_last_brace
Rewritten(j) == [j.conf EXCEPT ![j.block] = j.want]

\* A command that is reported as failed (time-out, lost connection) may have run.
Write(w) ==
    /\ job[w].pc = "write"
    /\ \/ file' = Rewritten(job[w]) /\ Step(w, "reload")
       \/ Faults /\ file' \in {file, Rewritten(job[w])} /\ Fails(w, "failed", "restore")
    /\ UNCHANGED <<apps, running, removal, edits, mishaps>>

Reload(w) ==
    /\ job[w].pc = "reload"
    /\ \/ running' = file /\ Step(w, "verify")
       \/ Faults /\ running' \in {running, file} /\ Fails(w, "reverted", "restore")
    /\ UNCHANGED <<apps, file, removal, edits, mishaps>>

Verify(w) ==
    /\ job[w].pc = "verify"
    /\ \/ Fails(w, "ok", "record")
       \/ Faults /\ Fails(w, "reverted", "restore")
    /\ UNCHANGED <<apps, file, running, removal, edits, mishaps>>

\* _revert: the status is already set, whatever the copy does.
Restore(w) ==
    /\ job[w].pc = "restore"
    /\ \/ file' = job[w].backup /\ Step(w, "reloadBack")
       \/ Faults /\ file' \in {file, job[w].backup} /\ Step(w, "record")
    /\ UNCHANGED <<apps, running, removal, edits, mishaps>>

ReloadBack(w) ==
    /\ job[w].pc = "reloadBack"
    /\ running' \in IF Faults THEN {running, file} ELSE {file}
    /\ Step(w, "record")
    /\ UNCHANGED <<apps, file, removal, edits, mishaps>>

NeedsPushIfReverted(j) == j.row.alias /\ j.row.approved /\ j.result = "reverted"  \* seeded bug

\* needs_push is computed from the row the push loaded.
StillNeedsPush(j) == j.row.alias /\ j.row.approved /\ j.result # "ok"

Record(w) ==
    LET j == job[w]
    IN  /\ j.pc = "record"
        /\ ~LockedFor(w)
        /\ apps' = IF j.kind = "push" /\ Live(j.block)
                   THEN [apps EXCEPT ![j.block].needsPush = StillNeedsPush(j)]
                   ELSE apps
        /\ removal' = IF j.kind = "remove"
                      THEN [removal EXCEPT ![j.block] = j.result] ELSE removal
        /\ End(w)
        /\ UNCHANGED <<file, running, edits, mishaps>>

\* "database is locked": logged, the result of the push is lost.
RecordLost(w) ==
    /\ job[w].pc = "record"
    /\ TimesOut(w)
    /\ End(w)
    /\ UNCHANGED <<apps, file, running, removal, edits>>

Crash ==
    /\ mishaps < MaxMishaps
    /\ mishaps' = mishaps + 1
    /\ job' = [w \in Workers |-> Idle]
    /\ UNCHANGED <<apps, file, running, removal, edits>>

RunRemote(w) ==
    \/ LoadPush(w) \/ LoadRemoval(w) \/ Unreachable(w)
    \/ Backup(w) \/ Read(w) \/ Write(w) \/ Reload(w) \/ Verify(w)
    \/ Restore(w) \/ ReloadBack(w)

Handle(w) ==
    \/ Update(w) \/ Delete(w) \/ Refused(w)
    \/ RunRemote(w)
    \/ Record(w) \/ RecordLost(w)

Next ==
    \/ \E w \in Workers, a \in Apps :
          \/ \E op \in OnApplication : Begin(w, a, op)
          \/ \E op \in {"create", "submit"} : Create(w, a, op)
    \/ \E w \in Workers : SaveSettings(w) \/ Handle(w)
    \/ \E a \in Apps : Purge(a)
    \/ Crash

Spec == Init /\ [][Next]_vars

-----------------------------------------------------------------------------
(* Properties.                                                              *)

Settled(a) == \A w \in Workers : job[w].block # a
Writing(w) == job[w].pc \in {"write", "restore"}

\* A request rewrites its own block and no other, whatever it does: the copy it
\* restores and the text it read are never older than somebody else's block.
OthersUntouched ==
    [][\A b \in Blocks : file'[b] # file[b] =>
          \E w \in Workers : Writing(w) /\ job[w].block = b /\ job'[w] # job[w]]_vars

\* Once every request on an approved alias application has ended, nginx serves its
\* current version or the application is flagged for a push.
ServedOrFlagged ==
    \A a \in Apps :
        Live(a) /\ apps[a].approved /\ apps[a].alias /\ Settled(a)
          => \/ apps[a].needsPush
             \/ file[a] = apps[a].version /\ running[a] = apps[a].version

\* The block of a deleted application goes with it, or the audit log says that its
\* removal was not possible.
BlockGoesWithApp ==
    \A a \in Apps :
        apps[a].state = "deleted" /\ Settled(a)
          => file[a] = Absent \/ removal[a] \in {"failed", "reverted", "skipped"}

\* While a change of the owner waits for approval, the application keeps being served
\* as it was last approved.
ServedAsApproved ==
    \A a \in Apps :
        Live(a) /\ apps[a].staged => running[a] <= apps[a].reviewed
=============================================================================
