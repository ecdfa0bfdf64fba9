---------------------------- MODULE ProxyPushProofs ----------------------------
(***************************************************************************)
(* Proofs about ProxyPush for every set of applications and of requests:   *)
(* the variables keep their types whatever overlaps, and if one request at *)
(* a time were between load and record, no request would change a block of *)
(* nginx.conf that is not its own, through failed commands, restored       *)
(* backups and crashes.  If nothing is lost either, what administrators    *)
(* publish is served or flagged, and what they delete is gone or reported. *)
(***************************************************************************)
EXTENDS ProxyPush, FiniteSetTheorems, TLAPS

\* The text that a request is about to edit, and the copy it may restore.
HasRead(j)   == j.pc = "write" \/ (j.pc = "backup" /\ j.kind # "push")
HasBackup(j) == \/ j.pc \in {"write", "reload", "verify", "restore"}
                \/ j.pc = "read" /\ j.kind = "push"

\* The text is the file, and the copy differs from it in the request's own block.
UpToDate(j, f) ==
    /\ HasRead(j) => j.conf = f
    /\ HasBackup(j) => \A b \in Blocks \ {j.block} : j.backup[b] = f[b]

OneRemote == \A v, w \in Workers : Remote(job[v]) /\ Remote(job[w]) => v = w
AllUpToDate == \A w \in Workers : UpToDate(job[w], file)
Named == \A w \in Workers : job[w].pc # "idle" =>
            /\ job[w].block \in Blocks
            /\ job[w].kind # "auth" => job[w].block \in Apps

Typed == TypeOK /\ Named
Exclusive == OneRemote /\ AllUpToDate

-----------------------------------------------------------------------------
(* Types.                                                                   *)

LEMMA RowTypes == /\ \A b \in BOOLEAN : NewRow(b) \in Row
                  /\ Unused \in Row
  BY DEF NewRow, Unused, Row

LEMMA IdleType == Idle \in Job /\ Idle.pc = "idle"
  BY RowTypes DEF Idle, Job, Files, Empty, Absent, Results

LEMMA InitTyped == Init => Typed
<1> SUFFICES ASSUME Init PROVE Typed
  OBVIOUS
<1>1. apps \in [Apps -> Row] /\ job \in [Workers -> Job]
  BY RowTypes, IdleType DEF Init
<1>2. file \in Files /\ running \in Files
  BY DEF Init, Files, Absent
<1> QED
  BY <1>1, <1>2, IdleType, BoundsAssumption DEF Init, Typed, TypeOK, Named, Results

\* One request takes a step to record j.
LEMMA GoesTyped ==
    ASSUME Typed, NEW w \in Workers, NEW j \in Job, Goes(w, j),
           j.pc # "idle" => /\ j.block \in Blocks
                            /\ j.kind # "auth" => j.block \in Apps
    PROVE  job' \in [Workers -> Job] /\ Named'
  BY DEF Typed, TypeOK, Named, Goes

LEMMA EndTyped ==
    ASSUME Typed, NEW w \in Workers, End(w)
    PROVE  job' \in [Workers -> Job] /\ Named'
  BY GoesTyped, IdleType DEF End

LEMMA StepTyped ==
    ASSUME Typed, NEW w \in Workers, job[w].pc # "idle",
           NEW pc \in Steps, NEW result \in Results,
           Step(w, pc) \/ Fails(w, result, pc)
    PROVE  job' \in [Workers -> Job] /\ Named'
<1>1. /\ [job[w] EXCEPT !.pc = pc] \in Job
      /\ [job[w] EXCEPT !.pc = pc, !.result = result] \in Job
  BY DEF Typed, TypeOK, Job
<1> QED
  BY <1>1, GoesTyped DEF Step, Fails, Typed, TypeOK, Named, Job

LEMMA UpdatedType ==
    ASSUME NEW op, NEW old \in Row, NEW cur \in Row
    PROVE  Updated(op, old, cur) \in Row
<1> DEFINE version   == IF ChangesLive(op, old) THEN cur.version + 1 ELSE cur.version
           approved  == StatusAfter(op, old, cur)
           alias     == IF op \in {"retype", "ownerRetype"} THEN ~old.alias ELSE cur.alias
           staged    == (cur.staged \/ Stages(op, old)) /\ ~ApprovesStaged(op, old)
           needsPush == cur.needsPush \/ (op \in OwnerEdits /\ old.approved /\ old.alias)
           reviewed  == IF approved /\ op \notin OwnerEdits THEN version ELSE cur.reviewed
<1>1. version \in Nat /\ reviewed \in Nat
  BY DEF Row
<1>2. alias \in BOOLEAN
  BY Zenon DEF Row
<1>3. approved \in BOOLEAN
  BY Zenon DEF StatusAfter
<1>4. staged \in BOOLEAN /\ needsPush \in BOOLEAN
  BY Zenon
<1>5. Updated(op, old, cur) =
        [cur EXCEPT !.version = version, !.approved = approved, !.alias = alias,
                    !.staged = staged, !.needsPush = needsPush, !.reviewed = reviewed]
  BY Zenon DEF Updated
<1> HIDE DEF version, approved, alias, staged, needsPush, reviewed
<1> QED
  BY <1>1, <1>2, <1>3, <1>4, <1>5 DEF Row

LEMMA BeginTyped ==
    ASSUME Typed, NEW w \in Workers, NEW a \in Apps, NEW op \in OnApplication,
           Begin(w, a, op)
    PROVE  Typed'
<1> DEFINE j == [Idle EXCEPT !.pc = IF op = "retry" THEN "load" ELSE "commit",
                             !.kind = IF op = "delete" THEN "remove" ELSE "push",
                             !.op = op, !.block = a, !.row = apps[a]]
<1>1. j \in Job /\ j.block \in Apps /\ Goes(w, j)
  BY IdleType DEF Begin, Job, Steps, Blocks, Typed, TypeOK
<1>2. job' \in [Workers -> Job] /\ Named'
  BY <1>1, GoesTyped DEF Blocks
<1>3. edits' \in 0 .. MaxEdits
  BY BoundsAssumption DEF Begin, Typed, TypeOK
<1> QED
  BY <1>2, <1>3 DEF Begin, Typed, TypeOK

LEMMA CommitTyped ==
    ASSUME Typed, NEW w \in Workers, Update(w) \/ Delete(w) \/ Refused(w)
    PROVE  Typed'
<1>1. job[w].pc = "commit" /\ job[w] \in Job
  BY DEF Update, Delete, Refused, Typed, TypeOK
<1>2. job' \in [Workers -> Job] /\ Named'
  <2>1. Step(w, "load") \/ End(w)
    BY DEF Update, Delete, Refused
  <2> QED
    BY <1>1, <2>1, EndTyped, StepTyped DEF Steps, Results
<1>3. apps' \in [Apps -> Row]
  <2>1. CASE Update(w)
    <3>1. job[w].block \in Apps =>
            Updated(job[w].op, job[w].row, apps[job[w].block]) \in Row
      BY <1>1, UpdatedType DEF Job, Typed, TypeOK
    <3> QED
      BY <2>1, <3>1 DEF Update, Typed, TypeOK
  <2>2. CASE Delete(w)
    BY <2>2 DEF Delete, Typed, TypeOK, Row
  <2>3. CASE Refused(w)
    BY <2>3 DEF Refused, Typed, TypeOK
  <2> QED
    BY <2>1, <2>2, <2>3
<1>4. mishaps' \in 0 .. MaxMishaps
  BY BoundsAssumption DEF Update, Delete, Refused, TimesOut, Typed, TypeOK
<1> QED
  BY <1>2, <1>3, <1>4 DEF Update, Delete, Refused, Typed, TypeOK

LEMMA OutsideTyped ==
    ASSUME Typed, Crash \/ (\E a \in Apps : Purge(a))
    PROVE  Typed'
<1>1. CASE Crash
  BY <1>1, IdleType, BoundsAssumption DEF Crash, Typed, TypeOK, Named
<1>2. CASE \E a \in Apps : Purge(a)
  BY <1>2 DEF Purge, Typed, TypeOK, Row, Named
<1> QED
  BY <1>1, <1>2

LEMMA CreateTyped ==
    ASSUME Typed, NEW w \in Workers, NEW a \in Apps,
           NEW op \in {"create", "submit"}, Create(w, a, op)
    PROVE  Typed'
<1>1. apps' \in [Apps -> Row]
  <2>1. PICK alias \in BOOLEAN :
          apps' = [apps EXCEPT ![a] = [NewRow(op = "create") EXCEPT !.alias = alias]]
    BY DEF Create
  <2>2. NewRow(op = "create") \in Row
    BY RowTypes
  <2>3. [NewRow(op = "create") EXCEPT !.alias = alias] \in Row
    BY <2>2 DEF Row
  <2> QED
    BY <2>1, <2>3 DEF Typed, TypeOK
<1>2. job' \in [Workers -> Job] /\ Named'
  <2> DEFINE j == [Idle EXCEPT !.pc = "load", !.kind = "push", !.op = op, !.block = a]
  <2>1. j \in Job /\ j.block \in Apps
    BY IdleType DEF Job, Steps, Blocks, Others
  <2>2. CASE Goes(w, j)
    BY <2>1, <2>2, GoesTyped DEF Blocks
  <2>3. CASE UNCHANGED job
    BY <2>3 DEF Typed, TypeOK, Named
  <2> QED
    BY <2>2, <2>3 DEF Create
<1> QED
  BY <1>1, <1>2 DEF Create, Typed, TypeOK

LEMMA SaveSettingsTyped ==
    ASSUME Typed, NEW w \in Workers, SaveSettings(w)
    PROVE  Typed'
<1>1. PICK version \in 1 .. 2 :
        Goes(w, [Idle EXCEPT !.pc = "read", !.kind = "auth", !.op = "settings",
                             !.block = Shared, !.want = version])
  BY DEF SaveSettings
<1> DEFINE j == [Idle EXCEPT !.pc = "read", !.kind = "auth", !.op = "settings",
                             !.block = Shared, !.want = version]
<1>2. j \in Job
  <2>1. version \in Nat /\ Shared \in Blocks
    BY DEF Blocks
  <2> QED
    BY <2>1, IdleType DEF Job, Steps, Others
<1>3. job' \in [Workers -> Job] /\ Named'
  <2>1. j.block \in Blocks /\ j.kind = "auth"
    BY IdleType DEF Blocks, Job
  <2> QED
    BY <1>1, <1>2, <2>1, GoesTyped
<1> QED
  BY <1>3 DEF SaveSettings, Typed, TypeOK

LEMMA LoadTyped ==
    ASSUME Typed, NEW w \in Workers, LoadPush(w) \/ LoadRemoval(w)
    PROVE  Typed'
<1>1. job[w] \in Job /\ job[w].pc = "load"
  BY DEF LoadPush, LoadRemoval, Typed, TypeOK
<1>2. job' \in [Workers -> Job] /\ Named'
  <2>1. CASE LoadPush(w)
    <3> DEFINE row == apps[job[w].block]
    <3>1. row \in Row
      BY <1>1, <2>1 DEF LoadPush, Typed, TypeOK, Named
    <3>2. CASE End(w)
      BY <3>2, EndTyped
    <3>3. ASSUME NEW configured \in {TRUE, ~Faults},
                 Goes(w, [job[w] EXCEPT
                      !.pc = IF row.alias /\ configured THEN "backup" ELSE "record",
                      !.row = row, !.want = row.version,
                      !.result = IF row.alias /\ configured THEN @ ELSE "skipped"])
          PROVE  job' \in [Workers -> Job] /\ Named'
      <4> DEFINE j == [job[w] EXCEPT
                      !.pc = IF row.alias /\ configured THEN "backup" ELSE "record",
                      !.row = row, !.want = row.version,
                      !.result = IF row.alias /\ configured THEN @ ELSE "skipped"]
      <4>1. j \in Job /\ j.block = job[w].block /\ j.kind = job[w].kind
        BY <1>1, <3>1 DEF Job, Row, Steps, Results
      <4> QED
        BY <1>1, <3>3, <4>1, GoesTyped DEF Typed, Named
    <3> QED
      BY <2>1, <3>2, <3>3 DEF LoadPush
  <2>2. CASE LoadRemoval(w)
    <3>1. PICK configured \in {TRUE, ~Faults} :
            Goes(w, [job[w] EXCEPT !.pc = IF configured THEN "read" ELSE "record",
                                   !.want = Absent,
                                   !.result = IF configured THEN @ ELSE "skipped"])
      BY <2>2 DEF LoadRemoval
    <3> DEFINE j == [job[w] EXCEPT !.pc = IF configured THEN "read" ELSE "record",
                                   !.want = Absent,
                                   !.result = IF configured THEN @ ELSE "skipped"]
    <3>2. j \in Job /\ j.block = job[w].block /\ j.kind = job[w].kind
      BY <1>1 DEF Job, Steps, Results, Absent
    <3> QED
      BY <1>1, <3>1, <3>2, GoesTyped DEF Typed, Named
  <2> QED
    BY <2>1, <2>2
<1> QED
  BY <1>2 DEF LoadPush, LoadRemoval, Typed, TypeOK

LEMMA CopyTyped ==
    ASSUME Typed, NEW w \in Workers, Backup(w) \/ Read(w) \/ Unreachable(w)
    PROVE  Typed'
<1>1. job[w] \in Job /\ job[w].pc \in Steps
  BY DEF Backup, Read, Unreachable, Typed, TypeOK, Steps
<1>2. job[w].pc # "idle"
  BY DEF Backup, Read, Unreachable
<1>3. job' \in [Workers -> Job] /\ Named'
  <2>1. ASSUME NEW pc \in {"read", "write"}, Goes(w, [job[w] EXCEPT !.pc = pc, !.backup = file])
        PROVE  job' \in [Workers -> Job] /\ Named'
    <3> DEFINE j == [job[w] EXCEPT !.pc = pc, !.backup = file]
    <3>1. j \in Job /\ j.block = job[w].block /\ j.kind = job[w].kind
      BY <1>1 DEF Typed, TypeOK, Job, Steps
    <3> QED
      BY <1>2, <2>1, <3>1, GoesTyped DEF Typed, Named
  <2>2. ASSUME NEW pc \in {"write", "backup"}, Goes(w, [job[w] EXCEPT !.pc = pc, !.conf = file])
        PROVE  job' \in [Workers -> Job] /\ Named'
    <3> DEFINE j == [job[w] EXCEPT !.pc = pc, !.conf = file]
    <3>1. j \in Job /\ j.block = job[w].block /\ j.kind = job[w].kind
      BY <1>1 DEF Typed, TypeOK, Job, Steps
    <3> QED
      BY <1>2, <2>2, <3>1, GoesTyped DEF Typed, Named
  <2>3. ASSUME NEW result \in Results, Fails(w, result, "record")
        PROVE  job' \in [Workers -> Job] /\ Named'
    BY <1>2, <2>3, StepTyped DEF Steps
  <2>4. CASE Backup(w)
    BY <2>1, <2>4 DEF Backup
  <2>5. CASE Read(w)
    BY <2>2, <2>3, <2>5 DEF Read, Results
  <2>6. CASE Unreachable(w)
    BY <2>3, <2>6 DEF Unreachable, Results
  <2> QED
    BY <2>4, <2>5, <2>6
<1> QED
  BY <1>3 DEF Backup, Read, Unreachable, Typed, TypeOK

LEMMA RewriteTyped ==
    ASSUME Typed, NEW w \in Workers,
           Write(w) \/ Reload(w) \/ Verify(w) \/ Restore(w) \/ ReloadBack(w)
    PROVE  Typed'
<1>1. job[w] \in Job /\ job[w].pc # "idle"
  BY DEF Write, Reload, Verify, Restore, ReloadBack, Typed, TypeOK
<1>2. PICK pc \in Steps, result \in Results : Step(w, pc) \/ Fails(w, result, pc)
  BY DEF Write, Reload, Verify, Restore, ReloadBack, Steps, Results
<1>3. job' \in [Workers -> Job] /\ Named'
  BY <1>1, <1>2, StepTyped
<1>4. file' \in Files
  <2>1. Rewritten(job[w]) \in Files /\ job[w].backup \in Files
    BY <1>1 DEF Rewritten, Job, Files
  <2> QED
    BY <2>1 DEF Write, Reload, Verify, Restore, ReloadBack, Typed, TypeOK
<1>5. running' \in Files
  BY DEF Write, Reload, Verify, Restore, ReloadBack, Typed, TypeOK
<1> QED
  BY <1>3, <1>4, <1>5 DEF Write, Reload, Verify, Restore, ReloadBack, Typed, TypeOK

LEMMA RecordTyped ==
    ASSUME Typed, NEW w \in Workers, Record(w) \/ RecordLost(w)
    PROVE  Typed'
<1>1. job' \in [Workers -> Job] /\ Named'
  BY EndTyped DEF Record, RecordLost
<1>2. job[w] \in Job
  BY DEF Typed, TypeOK
<1>3. apps' \in [Apps -> Row]
  <2>1. StillNeedsPush(job[w]) \in BOOLEAN
    BY Zenon DEF StillNeedsPush
  <2> QED
    BY <2>1 DEF Record, RecordLost, Typed, TypeOK, Row
<1>4. removal' \in [Apps -> Results]
  BY <1>2 DEF Record, RecordLost, Typed, TypeOK, Job
<1>5. mishaps' \in 0 .. MaxMishaps
  BY BoundsAssumption DEF Record, RecordLost, TimesOut, Typed, TypeOK
<1> QED
  BY <1>1, <1>3, <1>4, <1>5 DEF Record, RecordLost, Typed, TypeOK

LEMMA NextTyped == Typed /\ [Next]_vars => Typed'
<1> SUFFICES ASSUME Typed, [Next]_vars PROVE Typed'
  OBVIOUS
<1>1. CASE UNCHANGED vars
  BY <1>1 DEF vars, Typed, TypeOK, Named
<1>2. ASSUME NEW w \in Workers, Handle(w) PROVE Typed'
  BY <1>2, CommitTyped, LoadTyped, CopyTyped, RewriteTyped, RecordTyped
     DEF Handle, RunRemote
<1> QED
  BY <1>1, <1>2, BeginTyped, CreateTyped, SaveSettingsTyped, OutsideTyped DEF Next

\* Every variable keeps its type, whatever requests overlap: a request names a block
\* it may write, versions are numbers, statuses are those of PushResult.
THEOREM TypeCorrect == Spec => []TypeOK
<1>1. Typed => TypeOK
  BY DEF Typed
<1> QED
  BY <1>1, InitTyped, NextTyped, PTL DEF Spec

-----------------------------------------------------------------------------
(* One request at a time between load and record.                           *)

LEMMA RoomIsEmpty ==
    ASSUME PushesAtOnce = 1, Room
    PROVE  \A w \in Workers : ~Remote(job[w])
<1> DEFINE busy == {w \in Workers : Remote(job[w])}
<1>1. IsFiniteSet(busy)
  BY WorkersAssumption, FS_Subset
<1>2. Cardinality(busy) \in Nat /\ Cardinality(busy) < 1
  BY <1>1, FS_CardinalityType DEF Room
<1>3. busy = {}
  BY <1>1, <1>2, FS_EmptySet
<1> QED
  BY <1>3

LEMMA InitExclusive == Init => Exclusive
  BY IdleType DEF Init, Exclusive, OneRemote, AllUpToDate, Remote, Steps,
                  UpToDate, HasRead, HasBackup

\* A request that takes a step to record j disturbs no other, provided it is the
\* only one that is, or may become, remote.
LEMMA GoesExclusive ==
    ASSUME Typed, Exclusive, NEW w \in Workers, NEW j, Goes(w, j),
           UpToDate(j, file'), file' = file \/ Remote(job[w]),
           Remote(j) => Remote(job[w]) \/ \A v \in Workers : ~Remote(job[v])
    PROVE  Exclusive'
<1>1. job'[w] = j /\ \A v \in Workers \ {w} : job'[v] = job[v]
  BY DEF Goes, Typed, TypeOK
<1>2. OneRemote'
  BY <1>1 DEF Exclusive, OneRemote
<1>3. ASSUME NEW v \in Workers \ {w} PROVE UpToDate(job[v], file')
  <2>1. CASE file' = file
    BY <2>1 DEF Exclusive, AllUpToDate
  <2>2. CASE Remote(job[w])
    <3>1. ~Remote(job[v])
      BY <2>2 DEF Exclusive, OneRemote
    <3> QED
      BY <3>1 DEF UpToDate, HasRead, HasBackup, Remote, Steps
  <2> QED
    BY <2>1, <2>2
<1>4. AllUpToDate'
  BY <1>1, <1>3 DEF AllUpToDate
<1> QED
  BY <1>2, <1>4 DEF Exclusive

\* A request that ends, waits for the write lock or is about to load holds nothing.
LEMMA IdleExclusive ==
    ASSUME Typed, Exclusive, NEW w \in Workers, NEW j, Goes(w, j),
           j.pc \in {"idle", "commit", "load"}, file' = file
    PROVE  Exclusive'
<1>1. ~Remote(j) /\ UpToDate(j, file')
  BY DEF Remote, Steps, UpToDate, HasRead, HasBackup
<1> QED
  BY <1>1, GoesExclusive

LEMMA WaitingExclusive ==
    ASSUME Typed, Exclusive, NEW w \in Workers,
           Update(w) \/ Delete(w) \/ Refused(w) \/ Record(w) \/ RecordLost(w)
    PROVE  Exclusive'
<1>1. file' = file /\ job[w] \in Job
  BY DEF Update, Delete, Refused, Record, RecordLost, Typed, TypeOK
<1>2. CASE Step(w, "load")
  <2>1. [job[w] EXCEPT !.pc = "load"].pc = "load"
    BY <1>1 DEF Job
  <2> QED
    BY <1>1, <1>2, <2>1, IdleExclusive DEF Step
<1>3. CASE End(w)
  BY <1>1, <1>3, IdleType, IdleExclusive DEF End
<1> QED
  BY <1>2, <1>3 DEF Update, Delete, Refused, Record, RecordLost

LEMMA BeginExclusive ==
    ASSUME Typed, Exclusive, NEW w \in Workers, NEW a \in Apps, NEW op,
           Begin(w, a, op) \/ Create(w, a, op)
    PROVE  Exclusive'
<1>1. file' = file
  BY DEF Begin, Create
<1>2. CASE UNCHANGED job
  BY <1>1, <1>2 DEF Exclusive, OneRemote, AllUpToDate
<1>3. ASSUME NEW j, Goes(w, j), j.pc \in {"commit", "load"} PROVE Exclusive'
  BY <1>1, <1>3, IdleExclusive
<1>4. CASE Begin(w, a, op)
  <2> DEFINE j == [Idle EXCEPT !.pc = IF op = "retry" THEN "load" ELSE "commit",
                               !.kind = IF op = "delete" THEN "remove" ELSE "push",
                               !.op = op, !.block = a, !.row = apps[a]]
  <2>1. j.pc \in {"commit", "load"} /\ Goes(w, j)
    BY <1>4, IdleType DEF Begin, Job
  <2> QED
    BY <1>3, <2>1
<1>5. CASE Create(w, a, op)
  <2> DEFINE j == [Idle EXCEPT !.pc = "load", !.kind = "push", !.op = op, !.block = a]
  <2>1. j.pc = "load"
    BY IdleType DEF Job
  <2> QED
    BY <1>2, <1>3, <1>5, <2>1 DEF Create
<1> QED
  BY <1>4, <1>5

LEMMA OutsideExclusive ==
    ASSUME Exclusive, Crash \/ (\E a \in Apps : Purge(a))
    PROVE  Exclusive'
<1>1. CASE Crash
  BY <1>1, IdleType DEF Crash, Exclusive, OneRemote, AllUpToDate, Remote, Steps,
                        UpToDate, HasRead, HasBackup
<1>2. CASE \E a \in Apps : Purge(a)
  BY <1>2 DEF Purge, Exclusive, OneRemote, AllUpToDate
<1> QED
  BY <1>1, <1>2

\* A request enters the section only when it is empty, and holds nothing yet.
LEMMA EnterExclusive ==
    ASSUME PushesAtOnce = 1, Typed, Exclusive, NEW w \in Workers,
           SaveSettings(w) \/ LoadPush(w) \/ LoadRemoval(w)
    PROVE  Exclusive'
<1>1. file' = file /\ job[w] \in Job
  BY DEF SaveSettings, LoadPush, LoadRemoval, Typed, TypeOK
<1>2. CASE End(w)
  BY <1>1, <1>2, IdleType, IdleExclusive DEF End
<1>3. ASSUME Room, NEW j, Goes(w, j), UpToDate(j, file)
      PROVE  Exclusive'
  BY <1>1, <1>3, RoomIsEmpty, GoesExclusive
<1>4. CASE SaveSettings(w)
  <2>1. PICK version \in 1 .. 2 :
          Goes(w, [Idle EXCEPT !.pc = "read", !.kind = "auth", !.op = "settings",
                               !.block = Shared, !.want = version])
    BY <1>4 DEF SaveSettings
  <2> DEFINE j == [Idle EXCEPT !.pc = "read", !.kind = "auth", !.op = "settings",
                               !.block = Shared, !.want = version]
  <2>2. j.pc = "read" /\ j.kind = "auth"
    BY IdleType DEF Job
  <2>3. UpToDate(j, file)
    BY <2>2 DEF UpToDate, HasRead, HasBackup
  <2> QED
    BY <1>3, <1>4, <2>1, <2>3 DEF SaveSettings
<1>5. CASE LoadPush(w)
  <2> DEFINE row == apps[job[w].block]
  <2>1. ASSUME NEW configured \in {TRUE, ~Faults},
               Goes(w, [job[w] EXCEPT
                    !.pc = IF row.alias /\ configured THEN "backup" ELSE "record",
                    !.row = row, !.want = row.version,
                    !.result = IF row.alias /\ configured THEN @ ELSE "skipped"])
        PROVE  Exclusive'
    <3> DEFINE j == [job[w] EXCEPT
                    !.pc = IF row.alias /\ configured THEN "backup" ELSE "record",
                    !.row = row, !.want = row.version,
                    !.result = IF row.alias /\ configured THEN @ ELSE "skipped"]
    <3>1. j.pc \in {"backup", "record"} /\ j.kind = "push"
      BY <1>1, <1>5 DEF LoadPush, Job
    <3>2. UpToDate(j, file)
      BY <3>1 DEF UpToDate, HasRead, HasBackup
    <3> QED
      BY <1>3, <1>5, <2>1, <3>2 DEF LoadPush
  <2> QED
    BY <1>2, <1>5, <2>1 DEF LoadPush
<1>6. CASE LoadRemoval(w)
  <2>1. PICK configured \in {TRUE, ~Faults} :
          Goes(w, [job[w] EXCEPT !.pc = IF configured THEN "read" ELSE "record",
                                 !.want = Absent,
                                 !.result = IF configured THEN @ ELSE "skipped"])
    BY <1>6 DEF LoadRemoval
  <2> DEFINE j == [job[w] EXCEPT !.pc = IF configured THEN "read" ELSE "record",
                                 !.want = Absent,
                                 !.result = IF configured THEN @ ELSE "skipped"]
  <2>2. j.pc \in {"read", "record"} /\ j.kind = "remove"
    BY <1>1, <1>6 DEF LoadRemoval, Job
  <2>3. UpToDate(j, file)
    BY <2>2 DEF UpToDate, HasRead, HasBackup
  <2> QED
    BY <1>3, <1>6, <2>1, <2>3 DEF LoadRemoval
<1> QED
  BY <1>4, <1>5, <1>6

\* A request in the section copies and reads the file while no other changes it.
LEMMA CopyExclusive ==
    ASSUME Typed, Exclusive, NEW w \in Workers,
           Unreachable(w) \/ Backup(w) \/ Read(w) \/ Reload(w) \/ Verify(w) \/ ReloadBack(w)
    PROVE  Exclusive'
<1>1. file' = file /\ Remote(job[w]) /\ job[w] \in Job /\ UpToDate(job[w], file)
  BY DEF Unreachable, Backup, Read, Reload, Verify, ReloadBack, Remote, Steps,
         Typed, TypeOK, Exclusive, AllUpToDate
<1>2. ASSUME NEW j, Goes(w, j), UpToDate(j, file) PROVE Exclusive'
  BY <1>1, <1>2, GoesExclusive
<1>3. ASSUME NEW result, Fails(w, result, "record") PROVE Exclusive'
  <2> DEFINE j == [job[w] EXCEPT !.pc = "record", !.result = result]
  <2>1. j.pc = "record"
    BY <1>1 DEF Job
  <2>2. UpToDate(j, file)
    BY <2>1 DEF UpToDate, HasRead, HasBackup
  <2> QED
    BY <1>2, <1>3, <2>2 DEF Fails
<1>4. CASE Backup(w)
  <2> DEFINE j == [job[w] EXCEPT !.pc = IF job[w].kind = "push" THEN "read" ELSE "write",
                                 !.backup = file]
  <2>1. UpToDate(j, file)
    BY <1>1, <1>4 DEF Backup, UpToDate, HasRead, HasBackup, Job
  <2> QED
    BY <1>2, <1>4, <2>1 DEF Backup
<1>5. CASE Read(w)
  <2> DEFINE j == [job[w] EXCEPT !.pc = IF job[w].kind = "push" THEN "write" ELSE "backup",
                                 !.conf = file]
  <2>1. UpToDate(j, file)
    BY <1>1, <1>5 DEF Read, UpToDate, HasRead, HasBackup, Job
  <2> QED
    BY <1>2, <1>3, <1>5, <2>1 DEF Read
<1>6. ASSUME NEW pc \in {"verify", "restore", "record"}, Step(w, pc),
             job[w].pc \in {"reload", "verify", "reloadBack"},
             pc = "record" \/ job[w].pc # "reloadBack"
      PROVE  Exclusive'
  <2> DEFINE j == [job[w] EXCEPT !.pc = pc]
  <2>1. UpToDate(j, file)
    BY <1>1, <1>6 DEF UpToDate, HasRead, HasBackup, Job
  <2> QED
    BY <1>2, <1>6, <2>1 DEF Step
<1>7. ASSUME NEW result, Fails(w, result, "restore"), job[w].pc \in {"reload", "verify"}
      PROVE  Exclusive'
  <2> DEFINE j == [job[w] EXCEPT !.pc = "restore", !.result = result]
  <2>1. UpToDate(j, file)
    BY <1>1, <1>7 DEF UpToDate, HasRead, HasBackup, Job
  <2> QED
    BY <1>2, <1>7, <2>1 DEF Fails
<1>8. CASE Reload(w)
  BY <1>6, <1>7, <1>8 DEF Reload
<1>9. CASE Verify(w)
  BY <1>3, <1>7, <1>9 DEF Verify
<1> QED
  BY <1>3, <1>4, <1>5, <1>6, <1>8, <1>9 DEF Unreachable, ReloadBack

\* A request that rewrites or restores the file changes its own block only: the text
\* it read is the file, and its copy agrees with the file everywhere else.
LEMMA WriteOwnBlock ==
    ASSUME Typed, Exclusive, NEW w \in Workers, Write(w) \/ Restore(w),
           NEW b \in Blocks, b # job[w].block
    PROVE  file'[b] = file[b]
<1>1. job[w] \in Job /\ UpToDate(job[w], file)
  BY DEF Typed, TypeOK, Exclusive, AllUpToDate
<1>2. CASE Write(w)
  <2>1. job[w].conf = file
    BY <1>1, <1>2 DEF Write, UpToDate, HasRead
  <2> QED
    BY <1>2, <2>1 DEF Write, Rewritten, Typed, TypeOK, Files
<1>3. CASE Restore(w)
  BY <1>1, <1>3 DEF Restore, UpToDate, HasBackup
<1> QED
  BY <1>2, <1>3

LEMMA WriteExclusive ==
    ASSUME Typed, Exclusive, NEW w \in Workers, Write(w) \/ Restore(w)
    PROVE  Exclusive'
<1>1. Remote(job[w]) /\ job[w] \in Job /\ UpToDate(job[w], file)
  BY DEF Write, Restore, Remote, Steps, Typed, TypeOK, Exclusive, AllUpToDate
<1>2. ASSUME NEW j, Goes(w, j), UpToDate(j, file') PROVE Exclusive'
  BY <1>1, <1>2, GoesExclusive
<1>3. \A b \in Blocks \ {job[w].block} : file'[b] = file[b]
  BY WriteOwnBlock
<1>4. CASE Write(w)
  <2>1. \A b \in Blocks \ {job[w].block} : job[w].backup[b] = file'[b]
    BY <1>1, <1>3, <1>4 DEF Write, UpToDate, HasBackup
  <2>2. CASE Step(w, "reload")
    <3> DEFINE j == [job[w] EXCEPT !.pc = "reload"]
    <3>1. j.pc = "reload" /\ j.block = job[w].block /\ j.backup = job[w].backup
      BY <1>1 DEF Job
    <3>2. UpToDate(j, file')
      BY <2>1, <3>1 DEF UpToDate, HasRead
    <3> QED
      BY <1>2, <2>2, <3>2 DEF Step
  <2>3. CASE Fails(w, "failed", "restore")
    <3> DEFINE j == [job[w] EXCEPT !.pc = "restore", !.result = "failed"]
    <3>1. j.pc = "restore" /\ j.block = job[w].block /\ j.backup = job[w].backup
      BY <1>1 DEF Job
    <3>2. UpToDate(j, file')
      BY <2>1, <3>1 DEF UpToDate, HasRead
    <3> QED
      BY <1>2, <2>3, <3>2 DEF Fails
  <2> QED
    BY <1>4, <2>2, <2>3 DEF Write
<1>5. CASE Restore(w)
  <2>1. ASSUME NEW pc \in {"reloadBack", "record"}, Step(w, pc) PROVE Exclusive'
    <3> DEFINE j == [job[w] EXCEPT !.pc = pc]
    <3>1. UpToDate(j, file')
      BY <1>1 DEF UpToDate, HasRead, HasBackup, Job
    <3> QED
      BY <1>2, <2>1, <3>1 DEF Step
  <2> QED
    BY <1>5, <2>1 DEF Restore
<1> QED
  BY <1>4, <1>5

LEMMA NextExclusive ==
    ASSUME PushesAtOnce = 1
    PROVE  Typed /\ Exclusive /\ [Next]_vars => Exclusive'
<1> SUFFICES ASSUME Typed, Exclusive, [Next]_vars PROVE Exclusive'
  OBVIOUS
<1>1. CASE UNCHANGED vars
  BY <1>1 DEF vars, Exclusive, OneRemote, AllUpToDate
<1>2. ASSUME NEW w \in Workers, Handle(w) PROVE Exclusive'
  BY <1>2, WaitingExclusive, EnterExclusive, CopyExclusive, WriteExclusive
     DEF Handle, RunRemote
<1> QED
  BY <1>1, <1>2, BeginExclusive, EnterExclusive, OutsideExclusive DEF Next

LEMMA FileChanges ==
    ASSUME Next, file' # file
    PROVE  \E w \in Workers : Write(w) \/ Restore(w)
  BY DEF Next, Handle, RunRemote, Begin, Create, SaveSettings, Purge, Crash,
         Update, Delete, Refused, Record, RecordLost, LoadPush, LoadRemoval,
         Unreachable, Backup, Read, Reload, Verify, ReloadBack

LEMMA WriterMoves ==
    ASSUME Typed, NEW w \in Workers, Write(w) \/ Restore(w)
    PROVE  Writing(w) /\ job'[w] # job[w]
<1>1. job[w] \in Job /\ Writing(w)
  BY DEF Write, Restore, Writing, Typed, TypeOK
<1>2. job'[w].pc # job[w].pc
  BY DEF Write, Restore, Step, Fails, Goes, Typed, TypeOK, Job
<1> QED
  BY <1>1, <1>2

\* If one request at a time were between load and record, no request would change a
\* block of nginx.conf that is not its own: not by writing back a text it read
\* earlier, nor by restoring its backup after a failed reload, nor after a crash.
THEOREM OthersStayUntouched ==
    ASSUME PushesAtOnce = 1
    PROVE  Spec => OthersUntouched
<1> DEFINE A == \A b \in Blocks : file'[b] # file[b] =>
                  \E w \in Workers : Writing(w) /\ job[w].block = b /\ job'[w] # job[w]
<1>1. Typed /\ Exclusive /\ [Next]_vars => [A]_vars
  <2> SUFFICES ASSUME Typed, Exclusive, Next, NEW b \in Blocks, file'[b] # file[b]
               PROVE  \E w \in Workers : /\ Writing(w) /\ job[w].block = b
                                         /\ job'[w] # job[w]
    OBVIOUS
  <2>1. PICK w \in Workers : Write(w) \/ Restore(w)
    BY FileChanges
  <2>2. job[w].block = b
    BY <2>1, WriteOwnBlock
  <2> QED
    BY <2>1, <2>2, WriterMoves
<1>2. Typed /\ Exclusive /\ [Next]_vars => (Typed /\ Exclusive)'
  BY NextTyped, NextExclusive
<1>3. Init => Typed /\ Exclusive
  BY InitTyped, InitExclusive
<1>4. Spec => [][A]_vars
  BY <1>1, <1>2, <1>3, PTL DEF Spec
<1> QED
  BY <1>4 DEF OthersUntouched
-----------------------------------------------------------------------------
(* What becomes of a block, undisturbed: served or flagged, and gone with    *)
(* its application.                                                          *)

\* No crash, no write that waits in vain for a request outside the module, and one
\* request at a time between load and record.
Undisturbed == PushesAtOnce = 1 /\ MaxMishaps = 0

\* What administrators and self-service users do: nothing waits for review.  Under the
\* second, the alias type of an application does not change either, and no account goes
\* together with its applications.
PrivilegedOnly == Requests \subseteq {"create", "edit", "retype", "approve", "retry",
                                      "delete", "purge", "settings"}
AliasesStay == Requests \subseteq {"create", "edit", "approve", "retry", "delete", "settings"}

\* How far a request has come with its block, in the file and in what nginx runs.
OnTrack(j, f, r) ==
    /\ j.pc \in {"commit", "load", "backup", "read", "write", "reload", "verify"} =>
           j.result = "none"
    /\ j.pc \in {"restore", "reloadBack"} => j.result \in {"failed", "reverted"}
    /\ j.pc = "reload" => f[j.block] = j.want
    /\ j.pc = "verify" => f[j.block] = j.want /\ r[j.block] = j.want
    /\ j.pc = "record" =>
           /\ j.result \in {"ok", "failed", "reverted", "skipped"}
           /\ j.result = "ok" => f[j.block] = j.want
           /\ j.result = "ok" /\ j.kind = "push" => r[j.block] = j.want
AllOnTrack == \A w \in Workers : OnTrack(job[w], file, running)

\* A request and the row of its application.
InStep(j) ==
    /\ j.kind # "auth" =>
           /\ j.op \in Requests /\ apps[j.block].state # "unused"
           /\ j.kind = IF j.op = "delete" THEN "remove" ELSE "push"
    /\ j.kind = "auth" => j.pc # "load" /\ j.pc # "commit" /\ j.block = Shared
    /\ j.pc = "commit" =>
           j.op \in OnApplication \ {"retry"} /\ j.row.approved /\ ~j.row.staged
    /\ Remote(j) /\ j.kind = "push" => j.row.approved /\ j.want = j.row.version
    /\ j.pc # "commit" /\ j.kind = "remove" =>
           apps[j.block].state = "deleted" /\ (Remote(j) => j.want = Absent)
AllInStep ==
    /\ \A w \in Workers : IF job[w].pc = "idle" THEN job[w].kind = "none" ELSE InStep(job[w])
    /\ \A a \in Apps : /\ apps[a].state # "unused" => apps[a].approved
                       /\ ~apps[a].staged

\* A request is still to load the row, one has loaded it as it is, or no request is at
\* the block and what is served, or flagged, is the row.
Awaits(a, kind) == \E w \in Workers :
    job[w].pc = "load" /\ job[w].kind = kind /\ job[w].block = a
AtBlock(a) == \E w \in Workers : Remote(job[w]) /\ job[w].block = a
Carries(j, a) ==
    /\ Remote(j) /\ j.kind = "push" /\ j.block = a
    /\ j.row.alias /\ j.row.version = apps[a].version
Served(a) == file[a] = apps[a].version /\ running[a] = apps[a].version
Covered(a) == Live(a) /\ apps[a].alias =>
    \/ Awaits(a, "push")
    \/ \E w \in Workers : Carries(job[w], a)
    \/ ~AtBlock(a) /\ (apps[a].needsPush \/ Served(a))
AllCovered == \A a \in Apps : Covered(a)

\* The same for the removal of a deleted application, and of a plain one nothing is ever
\* in the file.
Removes(a) == \E w \in Workers :
    Remote(job[w]) /\ job[w].kind = "remove" /\ job[w].block = a
Vanishes(a) == apps[a].state = "deleted" /\ apps[a].alias =>
    \/ Awaits(a, "remove") \/ Removes(a)
    \/ ~AtBlock(a) /\ (file[a] = Absent \/ removal[a] \in {"failed", "reverted", "skipped"})
NoBlock(a) == apps[a].state = "unused" \/ ~apps[a].alias =>
    /\ file[a] = Absent
    /\ \A w \in Workers : job[w].block = a /\ Remote(job[w]) => job[w].pc = "record"
AllVanish ==
    /\ \A a \in Apps : Vanishes(a) /\ NoBlock(a)
    /\ \A w \in Workers :
          /\ job[w].pc = "commit" => job[w].row.alias = apps[job[w].block].alias
          /\ job[w].pc = "load" /\ job[w].kind = "remove" => apps[job[w].block].alias

\* What a request does not change: the other requests.
Rest(w) == \A v \in Workers \ {w} : job'[v] = job[v]

LEMMA GoesFacts ==
    ASSUME Typed, NEW w \in Workers, NEW j, Goes(w, j)
    PROVE  job'[w] = j /\ Rest(w)
BY DEF Typed, TypeOK, Goes, Rest

LEMMA EndFacts ==
    ASSUME Typed, NEW w \in Workers, End(w)
    PROVE  job'[w] = Idle /\ Rest(w)
BY GoesFacts DEF End

LEMMA StepFacts ==
    ASSUME Typed, NEW w \in Workers, NEW pc, Step(w, pc)
    PROVE  /\ job'[w].pc = pc /\ Rest(w)
           /\ job'[w].kind = job[w].kind /\ job'[w].op = job[w].op
           /\ job'[w].block = job[w].block /\ job'[w].row = job[w].row
           /\ job'[w].want = job[w].want /\ job'[w].result = job[w].result
<1>1. job'[w] = [job[w] EXCEPT !.pc = pc] /\ Rest(w)
  BY GoesFacts DEF Step
<1>2. job[w] \in Job
  BY DEF Typed, TypeOK
<1> QED BY <1>1, <1>2 DEF Job

LEMMA FailsFacts ==
    ASSUME Typed, NEW w \in Workers, NEW pc, NEW result, Fails(w, result, pc)
    PROVE  /\ job'[w].pc = pc /\ Rest(w)
           /\ job'[w].kind = job[w].kind /\ job'[w].op = job[w].op
           /\ job'[w].block = job[w].block /\ job'[w].row = job[w].row
           /\ job'[w].want = job[w].want /\ job'[w].result = result
<1>1. job'[w] = [job[w] EXCEPT !.pc = pc, !.result = result] /\ Rest(w)
  BY GoesFacts DEF Fails
<1>2. job[w] \in Job
  BY DEF Typed, TypeOK
<1> QED BY <1>1, <1>2 DEF Job

LEMMA BeginFacts ==
    ASSUME Typed, NEW w \in Workers, NEW a \in Apps, NEW op \in OnApplication, Begin(w, a, op)
    PROVE  /\ job[w].pc = "idle" /\ op \in Requests /\ Live(a)
           /\ job'[w].pc = IF op = "retry" THEN "load" ELSE "commit"
           /\ job'[w].kind = IF op = "delete" THEN "remove" ELSE "push"
           /\ job'[w].op = op /\ job'[w].block = a /\ job'[w].row = apps[a]
           /\ job'[w].result = "none" /\ Rest(w)
           /\ UNCHANGED <<apps, file, running, removal>>
<1> DEFINE j == [Idle EXCEPT !.pc = IF op = "retry" THEN "load" ELSE "commit",
                             !.kind = IF op = "delete" THEN "remove" ELSE "push",
                             !.op = op, !.block = a, !.row = apps[a]]
<1>1. job'[w] = j /\ Rest(w)
  BY GoesFacts DEF Begin
<1>2. /\ j.pc = IF op = "retry" THEN "load" ELSE "commit"
      /\ j.kind = IF op = "delete" THEN "remove" ELSE "push"
      /\ j.op = op /\ j.block = a /\ j.row = apps[a] /\ j.result = "none"
  BY DEF Idle
<1> HIDE DEF j
<1> QED BY <1>1, <1>2 DEF Begin

LEMMA CreateFacts ==
    ASSUME Typed, NEW w \in Workers, NEW a \in Apps, NEW op \in {"create"}, Create(w, a, op)
    PROVE  /\ job[w].pc = "idle" /\ op \in Requests /\ apps[a].state = "unused"
           /\ job'[w].pc = "load" /\ job'[w].kind = "push" /\ job'[w].op = op
           /\ job'[w].block = a /\ job'[w].result = "none" /\ Rest(w)
           /\ apps'[a].state = "live" /\ apps'[a].approved /\ ~apps'[a].staged
           /\ \A b \in Apps \ {a} : apps'[b] = apps[b]
           /\ UNCHANGED <<file, running, removal>>
<1> DEFINE j == [Idle EXCEPT !.pc = "load", !.kind = "push", !.op = op, !.block = a]
<1>1. job'[w] = j /\ Rest(w)
  BY GoesFacts DEF Create
<1>2. /\ j.pc = "load" /\ j.kind = "push" /\ j.op = op /\ j.block = a /\ j.result = "none"
  BY DEF Idle
<1>3. PICK alias \in BOOLEAN :
        apps' = [apps EXCEPT ![a] = [NewRow(op = "create") EXCEPT !.alias = alias]]
  BY DEF Create
<1>4. /\ apps'[a].state = "live" /\ apps'[a].approved /\ ~apps'[a].staged
      /\ \A b \in Apps \ {a} : apps'[b] = apps[b]
  BY <1>3 DEF NewRow, Typed, TypeOK
<1> HIDE DEF j
<1> QED BY <1>1, <1>2, <1>4 DEF Create

LEMMA SaveFacts ==
    ASSUME Typed, NEW w \in Workers, SaveSettings(w)
    PROVE  /\ job[w].pc = "idle" /\ Room
           /\ job'[w].pc = "read" /\ job'[w].kind = "auth" /\ job'[w].block = Shared
           /\ job'[w].result = "none" /\ Rest(w)
           /\ UNCHANGED <<apps, file, running, removal>>
<1>1. PICK version \in 1 .. 2 :
        Goes(w, [Idle EXCEPT !.pc = "read", !.kind = "auth", !.op = "settings",
                             !.block = Shared, !.want = version])
  BY DEF SaveSettings
<1> DEFINE j == [Idle EXCEPT !.pc = "read", !.kind = "auth", !.op = "settings",
                             !.block = Shared, !.want = version]
<1>2. job'[w] = j /\ Rest(w)
  BY <1>1, GoesFacts
<1>3. j.pc = "read" /\ j.kind = "auth" /\ j.block = Shared /\ j.result = "none"
  BY DEF Idle
<1> HIDE DEF j
<1> QED BY <1>2, <1>3 DEF SaveSettings

\* A push either finds no live row or carries it into the section.
LEMMA LoadPushFacts ==
    ASSUME Typed, NEW w \in Workers, LoadPush(w)
    PROVE  /\ job[w].pc = "load" /\ job[w].kind = "push" /\ Rest(w)
           /\ UNCHANGED <<apps, file, running, removal>>
           /\ \/ apps[job[w].block].state # "live" /\ job'[w] = Idle
              \/ /\ apps[job[w].block].state = "live"
                 /\ job'[w].pc \in {"backup", "record"}
                 /\ job'[w].pc = "backup" =>
                        job'[w].result = job[w].result /\ apps[job[w].block].alias
                 /\ job'[w].pc = "record" => job'[w].result = "skipped"
                 /\ job'[w].kind = "push" /\ job'[w].op = job[w].op
                 /\ job'[w].block = job[w].block /\ job'[w].row = apps[job[w].block]
                 /\ job'[w].want = apps[job[w].block].version
<1> DEFINE row == apps[job[w].block]
<1>1. CASE End(w) /\ row.state # "live"
  BY <1>1, EndFacts DEF LoadPush
<1>2. ASSUME row.state = "live", NEW configured \in {TRUE, ~Faults},
             Goes(w, [job[w] EXCEPT
                  !.pc = IF row.alias /\ configured THEN "backup" ELSE "record",
                  !.row = row, !.want = row.version,
                  !.result = IF row.alias /\ configured THEN @ ELSE "skipped"])
      PROVE  /\ job'[w].pc \in {"backup", "record"} /\ Rest(w)
             /\ job'[w].pc = "backup" => job'[w].result = job[w].result /\ row.alias
             /\ job'[w].pc = "record" => job'[w].result = "skipped"
             /\ job'[w].kind = "push" /\ job'[w].op = job[w].op
             /\ job'[w].block = job[w].block /\ job'[w].row = row
             /\ job'[w].want = row.version
  <2> DEFINE j == [job[w] EXCEPT
                  !.pc = IF row.alias /\ configured THEN "backup" ELSE "record",
                  !.row = row, !.want = row.version,
                  !.result = IF row.alias /\ configured THEN @ ELSE "skipped"]
  <2>1. job'[w] = j /\ Rest(w)
    BY <1>2, GoesFacts
  <2>2. job[w] \in Job /\ job[w].kind = "push"
    BY DEF LoadPush, Typed, TypeOK
  <2>3. /\ j.pc \in {"backup", "record"}
        /\ j.pc = "backup" => j.result = job[w].result /\ row.alias
        /\ j.pc = "record" => j.result = "skipped"
        /\ j.kind = "push" /\ j.op = job[w].op
        /\ j.block = job[w].block /\ j.row = row /\ j.want = row.version
    BY <2>2 DEF Job
  <2> HIDE DEF j
  <2> QED BY <2>1, <2>3
<1> HIDE DEF row
<1>3. /\ job[w].pc = "load" /\ job[w].kind = "push"
      /\ UNCHANGED <<apps, file, running, removal>>
  BY DEF LoadPush
<1>4. \/ End(w) /\ row.state # "live"
      \/ /\ row.state = "live"
         /\ \E configured \in {TRUE, ~Faults} :
             Goes(w, [job[w] EXCEPT
                  !.pc = IF row.alias /\ configured THEN "backup" ELSE "record",
                  !.row = row, !.want = row.version,
                  !.result = IF row.alias /\ configured THEN @ ELSE "skipped"])
  BY Zenon DEF LoadPush, row
<1> USE DEF row
<1> QED BY <1>1, <1>2, <1>3, <1>4

LEMMA LoadRemovalFacts ==
    ASSUME Typed, NEW w \in Workers, LoadRemoval(w)
    PROVE  /\ job[w].pc = "load" /\ job[w].kind = "remove" /\ Rest(w)
           /\ UNCHANGED <<apps, file, running, removal>>
           /\ job'[w].pc \in {"read", "record"}
           /\ job'[w].pc = "read" => job'[w].result = job[w].result
           /\ job'[w].pc = "record" => job'[w].result = "skipped"
           /\ job'[w].kind = "remove" /\ job'[w].op = job[w].op
           /\ job'[w].block = job[w].block /\ job'[w].want = Absent
<1>1. PICK configured \in {TRUE, ~Faults} :
        Goes(w, [job[w] EXCEPT !.pc = IF configured THEN "read" ELSE "record",
                               !.want = Absent,
                               !.result = IF configured THEN @ ELSE "skipped"])
  BY Zenon DEF LoadRemoval
<1> DEFINE j == [job[w] EXCEPT !.pc = IF configured THEN "read" ELSE "record",
                               !.want = Absent,
                               !.result = IF configured THEN @ ELSE "skipped"]
<1>2. job'[w] = j /\ Rest(w)
  BY <1>1, GoesFacts
<1>3. job[w] \in Job /\ job[w].kind = "remove"
  BY DEF LoadRemoval, Typed, TypeOK
<1>4. /\ j.pc \in {"read", "record"}
      /\ j.pc = "read" => j.result = job[w].result
      /\ j.pc = "record" => j.result = "skipped"
      /\ j.kind = "remove" /\ j.op = job[w].op /\ j.block = job[w].block /\ j.want = Absent
  BY <1>3 DEF Job
<1> HIDE DEF j
<1> QED BY <1>2, <1>4 DEF LoadRemoval
\* What an administrator's change makes of the row, and whether it is pushed.
LEMMA UpdatedFacts ==
    ASSUME NEW op \in {"edit", "retype", "approve"}, NEW old \in Row, NEW cur \in Row,
           old.approved, ~old.staged, cur.approved, ~cur.staged
    PROVE  LET new == Updated(op, old, cur)
           IN  /\ new.state = cur.state /\ new.approved /\ ~new.staged
               /\ op # "retype" => new.alias = cur.alias
               /\ op = "approve" => /\ new.version = cur.version
                                    /\ new.needsPush = cur.needsPush
               /\ op # "approve" /\ new.alias => Pushes(op, old, new)
<1> DEFINE version   == IF ChangesLive(op, old) THEN cur.version + 1 ELSE cur.version
           approved  == StatusAfter(op, old, cur)
           alias     == IF op \in {"retype", "ownerRetype"} THEN ~old.alias ELSE cur.alias
           staged    == (cur.staged \/ Stages(op, old)) /\ ~ApprovesStaged(op, old)
           needsPush == cur.needsPush \/ (op \in OwnerEdits /\ old.approved /\ old.alias)
           reviewed  == IF approved /\ op \notin OwnerEdits THEN version ELSE cur.reviewed
           new == Updated(op, old, cur)
<1>1. new = [cur EXCEPT !.version = version, !.approved = approved, !.alias = alias,
                        !.staged = staged, !.needsPush = needsPush, !.reviewed = reviewed]
  BY Zenon DEF Updated
<1>2. approved
  BY DEF StatusAfter, PrivilegedEdits
<1>3. ~staged
  BY DEF Stages
<1>4. op # "retype" => alias = cur.alias
  BY Zenon
<1>5. needsPush = cur.needsPush
  <2>1. op \notin OwnerEdits /\ cur.needsPush \in BOOLEAN
    BY DEF OwnerEdits, Row
  <2> QED BY <2>1, Zenon
<1>6. op = "approve" => version = cur.version
  BY DEF ChangesLive, Changes, PrivilegedEdits, OwnerEdits, ApprovesStaged
<1> HIDE DEF version, approved, alias, staged, needsPush, reviewed
<1>7. /\ new.state = cur.state /\ new.approved = approved /\ new.staged = staged
      /\ new.alias = alias /\ new.version = version /\ new.needsPush = needsPush
  BY <1>1 DEF Row
<1> HIDE DEF new
<1>8. op # "approve" /\ new.alias => Pushes(op, old, new)
  <2>1. op # "approve" => op \in PrivilegedEdits
    BY DEF PrivilegedEdits
  <2> QED BY <1>2, <1>7, <2>1 DEF Pushes
<1> QED BY <1>2, <1>3, <1>4, <1>5, <1>6, <1>7, <1>8 DEF new

LEMMA UpdateFacts ==
    ASSUME Typed, AllInStep, PrivilegedOnly, NEW w \in Workers, Update(w)
    PROVE  LET a == job[w].block
           IN  /\ job[w].pc = "commit" /\ a \in Apps /\ Live(a) /\ Rest(w)
               /\ job[w].kind = "push" /\ job[w].op \in {"edit", "retype", "approve"}
               /\ \/ job'[w] = Idle
                  \/ /\ job'[w].pc = "load" /\ job'[w].kind = "push"
                     /\ job'[w].op = job[w].op /\ job'[w].block = a
                     /\ job'[w].result = job[w].result
               /\ apps'[a].state = "live" /\ apps'[a].approved /\ ~apps'[a].staged
               /\ job[w].op # "retype" => apps'[a].alias = apps[a].alias
               /\ job[w].op = "approve" => /\ apps'[a].version = apps[a].version
                                           /\ apps'[a].needsPush = apps[a].needsPush
               /\ job[w].op # "approve" /\ apps'[a].alias => job'[w].pc = "load"
               /\ \A b \in Apps \ {a} : apps'[b] = apps[b]
               /\ UNCHANGED <<file, running, removal>>
<1> DEFINE a == job[w].block
           new == Updated(job[w].op, job[w].row, apps[a])
<1>1. job[w].pc = "commit" /\ job[w].op # "delete" /\ Live(a)
  BY DEF Update
<1>2. InStep(job[w]) /\ job[w] \in Job
  BY <1>1 DEF AllInStep, Typed, TypeOK
<1>3. job[w].kind = "push" /\ a \in Apps
  BY <1>1, <1>2 DEF InStep, Typed, Named
<1>4. job[w].op \in {"edit", "retype", "approve"}
  BY <1>1, <1>2, <1>3 DEF InStep, PrivilegedOnly, OnApplication, Changes, PrivilegedEdits,
                          OwnerEdits
<1>5. /\ job[w].row \in Row /\ apps[a] \in Row
      /\ job[w].row.approved /\ ~job[w].row.staged /\ apps[a].approved /\ ~apps[a].staged
  BY <1>1, <1>2, <1>3 DEF InStep, AllInStep, Live, Typed, TypeOK, Job
<1>6. /\ new.state = "live" /\ new.approved /\ ~new.staged
      /\ job[w].op # "retype" => new.alias = apps[a].alias
      /\ job[w].op = "approve" => /\ new.version = apps[a].version
                                  /\ new.needsPush = apps[a].needsPush
      /\ job[w].op # "approve" /\ new.alias => Pushes(job[w].op, job[w].row, new)
  <2>1. apps[a].state = "live"
    BY <1>1 DEF Live
  <2>2. /\ new.state = apps[a].state /\ new.approved /\ ~new.staged
        /\ job[w].op # "retype" => new.alias = apps[a].alias
        /\ job[w].op = "approve" => /\ new.version = apps[a].version
                                    /\ new.needsPush = apps[a].needsPush
        /\ job[w].op # "approve" /\ new.alias => Pushes(job[w].op, job[w].row, new)
    BY <1>4, <1>5, UpdatedFacts
  <2> HIDE DEF new
  <2> QED BY <2>1, <2>2
<1>7. /\ apps' = [apps EXCEPT ![a] = new]
      /\ IF Pushes(job[w].op, job[w].row, new) THEN Step(w, "load") ELSE End(w)
      /\ UNCHANGED <<file, running, removal>>
  BY Zenon DEF Update
<1> HIDE DEF new
<1>8. apps'[a] = new /\ \A b \in Apps \ {a} : apps'[b] = apps[b]
  BY <1>3, <1>7 DEF Typed, TypeOK
<1>9. CASE Step(w, "load")
  BY <1>1, <1>3, <1>4, <1>6, <1>7, <1>8, <1>9, StepFacts
<1>10. CASE End(w) /\ ~Pushes(job[w].op, job[w].row, new)
  BY <1>1, <1>3, <1>4, <1>6, <1>7, <1>8, <1>10, EndFacts
<1> QED BY <1>7, <1>9, <1>10

LEMMA DeleteFacts ==
    ASSUME Typed, AllInStep, NEW w \in Workers, Delete(w)
    PROVE  LET a == job[w].block
           IN  /\ job[w].pc = "commit" /\ a \in Apps /\ Rest(w)
               /\ job[w].kind = "remove" /\ job[w].op = "delete" /\ apps[a].state # "unused"
               /\ \/ ~job[w].row.alias /\ job'[w] = Idle
                  \/ /\ job[w].row.alias /\ job'[w].pc = "load" /\ job'[w].kind = "remove"
                     /\ job'[w].op = job[w].op /\ job'[w].block = a
                     /\ job'[w].result = job[w].result
               /\ apps'[a].state = "deleted" /\ apps'[a].alias = apps[a].alias
               /\ apps'[a].approved = apps[a].approved /\ apps'[a].staged = apps[a].staged
               /\ \A b \in Apps \ {a} : apps'[b] = apps[b]
               /\ UNCHANGED <<file, running, removal>>
<1> DEFINE a == job[w].block
<1>1. job[w].pc = "commit" /\ job[w].op = "delete"
  BY DEF Delete
<1>2. InStep(job[w])
  BY <1>1 DEF AllInStep
<1>3. job[w].kind = "remove" /\ a \in Apps /\ apps[a].state # "unused"
  BY <1>1, <1>2 DEF InStep, Typed, Named
<1>4. /\ apps' = [apps EXCEPT ![a].state = "deleted"]
      /\ IF job[w].row.alias THEN Step(w, "load") ELSE End(w)
      /\ UNCHANGED <<file, running, removal>>
  BY Zenon DEF Delete
<1>5. /\ apps'[a].state = "deleted" /\ apps'[a].alias = apps[a].alias
      /\ apps'[a].approved = apps[a].approved /\ apps'[a].staged = apps[a].staged
      /\ \A b \in Apps \ {a} : apps'[b] = apps[b]
  BY <1>3, <1>4 DEF Typed, TypeOK, Row
<1>6. CASE job[w].row.alias /\ Step(w, "load")
  BY <1>1, <1>3, <1>4, <1>5, <1>6, StepFacts
<1>7. CASE ~job[w].row.alias /\ End(w)
  BY <1>1, <1>3, <1>4, <1>5, <1>7, EndFacts
<1> QED BY <1>4, <1>6, <1>7

\* The actions of a request in the section, up to the record.
Command(w) == Unreachable(w) \/ Backup(w) \/ Read(w) \/ Write(w) \/ Reload(w)
              \/ Verify(w) \/ Restore(w) \/ ReloadBack(w)

LEMMA CommandFacts ==
    ASSUME Typed, NEW w \in Workers, Command(w)
    PROVE  /\ Remote(job[w]) /\ Remote(job'[w]) /\ Rest(w)
           /\ job[w].pc # "record"
           /\ job'[w].kind = job[w].kind /\ job'[w].op = job[w].op
           /\ job'[w].block = job[w].block /\ job'[w].row = job[w].row
           /\ job'[w].want = job[w].want
           /\ UNCHANGED <<apps, removal>>
<1>1. /\ Remote(job[w]) /\ job[w].pc # "record" /\ UNCHANGED <<apps, removal>>
  BY DEF Command, Unreachable, Backup, Read, Write, Reload, Verify, Restore, ReloadBack,
         Remote, Steps
<1>2. job[w] \in Job
  BY DEF Typed, TypeOK
<1>3. ASSUME NEW pc \in Steps \ {"commit", "load"}, NEW result,
             Step(w, pc) \/ Fails(w, result, pc)
      PROVE  /\ Remote(job'[w]) /\ Rest(w)
             /\ job'[w].kind = job[w].kind /\ job'[w].op = job[w].op
             /\ job'[w].block = job[w].block /\ job'[w].row = job[w].row
             /\ job'[w].want = job[w].want
  BY <1>3, StepFacts, FailsFacts DEF Remote
<1>4. ASSUME NEW pc \in Steps \ {"commit", "load"}, NEW f,
             \/ Goes(w, [job[w] EXCEPT !.pc = pc, !.backup = f])
             \/ Goes(w, [job[w] EXCEPT !.pc = pc, !.conf = f])
      PROVE  /\ Remote(job'[w]) /\ Rest(w)
             /\ job'[w].kind = job[w].kind /\ job'[w].op = job[w].op
             /\ job'[w].block = job[w].block /\ job'[w].row = job[w].row
             /\ job'[w].want = job[w].want
  <2>1. \/ job'[w] = [job[w] EXCEPT !.pc = pc, !.backup = f]
        \/ job'[w] = [job[w] EXCEPT !.pc = pc, !.conf = f]
    BY <1>4, GoesFacts
  <2>2. Rest(w)
    BY <1>4, GoesFacts
  <2> QED BY <1>2, <2>1, <2>2 DEF Job, Remote
<1>5. CASE Unreachable(w) \/ Write(w) \/ Reload(w) \/ Verify(w) \/ Restore(w) \/ ReloadBack(w)
  <2>1. \E pc \in {"record", "reload", "restore", "verify", "reloadBack"},
           result \in {"ok", "failed", "reverted"} : Step(w, pc) \/ Fails(w, result, pc)
    BY <1>5 DEF Unreachable, Write, Reload, Verify, Restore, ReloadBack
  <2> QED BY <1>1, <1>3, <2>1 DEF Steps
<1>6. CASE Backup(w)
  BY <1>1, <1>4, <1>6, Zenon DEF Backup, Steps
<1>7. CASE Read(w)
  <2>1. \/ Fails(w, IF job[w].kind = "auth" THEN "ok" ELSE "skipped", "record")
        \/ Goes(w, [job[w] EXCEPT !.pc = IF job[w].kind = "push" THEN "write" ELSE "backup",
                                  !.conf = file])
    BY <1>7, Zenon DEF Read
  <2> QED BY <1>1, <1>3, <1>4, <2>1 DEF Steps
<1> QED BY <1>5, <1>6, <1>7 DEF Command

LEMMA RecordFacts ==
    ASSUME Typed, AllInStep, NEW w \in Workers, Record(w)
    PROVE  LET j == job[w]
           IN  /\ j.pc = "record" /\ job'[w] = Idle /\ Rest(w) /\ Remote(j)
               /\ UNCHANGED <<file, running>>
               /\ \A a \in Apps :
                     /\ apps'[a].state = apps[a].state /\ apps'[a].version = apps[a].version
                     /\ apps'[a].alias = apps[a].alias /\ apps'[a].staged = apps[a].staged
                     /\ apps'[a].approved = apps[a].approved
                     /\ apps'[a].needsPush =
                            IF j.kind = "push" /\ j.block = a /\ Live(a)
                            THEN StillNeedsPush(j) ELSE apps[a].needsPush
                     /\ removal'[a] = IF j.kind = "remove" /\ j.block = a
                                      THEN j.result ELSE removal[a]
<1> DEFINE j == job[w]
<1>1. /\ j.pc = "record" /\ End(w) /\ UNCHANGED <<file, running>>
      /\ apps' = IF j.kind = "push" /\ Live(j.block)
                 THEN [apps EXCEPT ![j.block].needsPush = StillNeedsPush(j)] ELSE apps
      /\ removal' = IF j.kind = "remove" THEN [removal EXCEPT ![j.block] = j.result]
                    ELSE removal
  BY Zenon DEF Record
<1>2. job'[w] = Idle /\ Rest(w) /\ Remote(j)
  BY <1>1, EndFacts DEF Remote, Steps
<1>3. ASSUME NEW a \in Apps
      PROVE  /\ apps'[a].state = apps[a].state /\ apps'[a].version = apps[a].version
             /\ apps'[a].alias = apps[a].alias /\ apps'[a].staged = apps[a].staged
             /\ apps'[a].approved = apps[a].approved
             /\ apps'[a].needsPush = IF j.kind = "push" /\ j.block = a /\ Live(a)
                                     THEN StillNeedsPush(j) ELSE apps[a].needsPush
  BY <1>1 DEF Typed, TypeOK, Row, Live
<1>4. ASSUME NEW a \in Apps
      PROVE  removal'[a] = IF j.kind = "remove" /\ j.block = a THEN j.result ELSE removal[a]
  BY <1>1 DEF Typed, TypeOK
<1> HIDE DEF j
<1> QED BY <1>1, <1>2, <1>3, <1>4 DEF j

LEMMA NoMishap == ASSUME Undisturbed, Typed PROVE ~(mishaps < MaxMishaps)
BY DEF Undisturbed, Typed, TypeOK

\* No result is lost: the write lock is held by nobody else in the section.
LEMMA NothingLost ==
    ASSUME Undisturbed, Typed, Exclusive, AllInStep, NEW w \in Workers
    PROVE  ~RecordLost(w)
<1>1. ~(mishaps < MaxMishaps)
  BY NoMishap
<1>2. ASSUME RecordLost(w) PROVE FALSE
  <2>1. job[w].pc = "record" /\ LockedFor(w)
    BY <1>1, <1>2 DEF RecordLost, TimesOut
  <2>2. PICK v \in Workers \ {w} : job[v].kind = "auth"
    BY <2>1 DEF LockedFor, HoldsWriteLock
  <2>3. job[v].pc # "idle" /\ InStep(job[v])
    BY <2>2 DEF AllInStep
  <2>4. job[v].pc \in Steps \ {"commit", "load"}
    BY <2>2, <2>3 DEF InStep, Typed, TypeOK, Job
  <2> QED BY <2>1, <2>2, <2>4 DEF Exclusive, OneRemote, Remote, Steps
<1> QED BY <1>1, <1>2 DEF Crash
-----------------------------------------------------------------------------
(* How far requests have come.                                               *)

LEMMA IdleTrack == \A f, r : OnTrack(Idle, f, r)
BY IdleType DEF OnTrack

LEMMA InitTrack == Init => AllOnTrack
BY IdleTrack DEF Init, AllOnTrack

\* Whoever is outside the section does not mind what happens in it.
LEMMA TrackStays ==
    ASSUME Exclusive, AllOnTrack, NEW w \in Workers, Rest(w), OnTrack(job'[w], file', running'),
           UNCHANGED <<file, running>> \/ Remote(job[w])
    PROVE  AllOnTrack'
<1> SUFFICES ASSUME NEW v \in Workers \ {w} PROVE OnTrack(job[v], file', running')
  BY DEF AllOnTrack, Rest
<1>1. CASE UNCHANGED <<file, running>>
  BY <1>1 DEF AllOnTrack
<1>2. CASE Remote(job[w])
  <2>1. ~Remote(job[v])
    BY <1>2 DEF Exclusive, OneRemote
  <2> QED BY <2>1 DEF AllOnTrack, OnTrack, Remote, Steps
<1> QED BY <1>1, <1>2

LEMMA CommandTrack ==
    ASSUME Typed, Exclusive, AllOnTrack, NEW w \in Workers, Command(w)
    PROVE  AllOnTrack'
<1>1. Remote(job[w]) /\ Rest(w) /\ job'[w].kind = job[w].kind
      /\ job'[w].block = job[w].block /\ job'[w].want = job[w].want
  BY CommandFacts
<1>2. job[w] \in Job /\ OnTrack(job[w], file, running) /\ job[w].block \in Blocks
  BY <1>1 DEF Typed, TypeOK, Named, AllOnTrack, Remote, Steps
<1>3. SUFFICES OnTrack(job'[w], file', running')
  BY <1>1, TrackStays
<1>4. CASE Unreachable(w)
  <2>1. Fails(w, "failed", "record")
    BY <1>4 DEF Unreachable
  <2> QED BY <2>1, FailsFacts DEF OnTrack
<1>5. CASE Backup(w)
  <2> DEFINE pc == IF job[w].kind = "push" THEN "read" ELSE "write"
  <2>1. job'[w] = [job[w] EXCEPT !.pc = pc, !.backup = file] /\ job[w].pc = "backup"
    BY <1>5, GoesFacts DEF Backup
  <2>2. job'[w].pc \in {"read", "write"} /\ job'[w].result = "none"
    BY <1>2, <2>1 DEF Job, OnTrack
  <2> QED BY <2>2 DEF OnTrack
<1>6. CASE Read(w)
  <2> DEFINE pc == IF job[w].kind = "push" THEN "write" ELSE "backup"
  <2>1. job[w].pc = "read" /\ UNCHANGED file
    BY <1>6 DEF Read
  <2>2. \/ /\ NothingToDo(job[w])
           /\ Fails(w, IF job[w].kind = "auth" THEN "ok" ELSE "skipped", "record")
        \/ Goes(w, [job[w] EXCEPT !.pc = pc, !.conf = file])
    BY <1>6, Zenon DEF Read
  <2>3. CASE NothingToDo(job[w]) /\ Fails(w, IF job[w].kind = "auth" THEN "ok" ELSE "skipped", "record")
    <3>1. job'[w].pc = "record" /\ job'[w].result \in {"ok", "skipped"}
      BY <2>3, FailsFacts
    <3>2. file[job[w].block] = job[w].want /\ job[w].kind # "push"
      BY <2>3 DEF NothingToDo
    <3> QED BY <1>1, <2>1, <3>1, <3>2 DEF OnTrack
  <2>4. CASE Goes(w, [job[w] EXCEPT !.pc = pc, !.conf = file])
    <3>1. job'[w] = [job[w] EXCEPT !.pc = pc, !.conf = file]
      BY <2>4, GoesFacts
    <3>2. job'[w].pc \in {"write", "backup"} /\ job'[w].result = "none"
      BY <1>2, <2>1, <3>1 DEF Job, OnTrack
    <3> QED BY <3>2 DEF OnTrack
  <2> QED BY <2>2, <2>3, <2>4
<1>7. CASE Write(w)
  <2>1. CASE Fails(w, "failed", "restore")
    BY <2>1, FailsFacts DEF OnTrack
  <2>2. CASE file' = Rewritten(job[w]) /\ Step(w, "reload")
    <3>1. job'[w].pc = "reload" /\ job'[w].result = job[w].result
      BY <2>2, StepFacts
    <3>2. job[w].result = "none"
      BY <1>2, <1>7 DEF Write, OnTrack
    <3>3. file'[job[w].block] = job[w].want
      BY <1>2, <2>2 DEF Rewritten, Job, Files
    <3> QED BY <1>1, <3>1, <3>2, <3>3 DEF OnTrack
  <2> QED BY <1>7, <2>1, <2>2 DEF Write
<1>8. CASE Reload(w)
  <2>1. CASE Fails(w, "reverted", "restore")
    BY <2>1, FailsFacts DEF OnTrack
  <2>2. CASE running' = file /\ Step(w, "verify")
    <3>1. job'[w].pc = "verify" /\ job'[w].result = job[w].result
      BY <2>2, StepFacts
    <3>2. job[w].result = "none" /\ file[job[w].block] = job[w].want /\ file' = file
      BY <1>2, <1>8 DEF Reload, OnTrack
    <3> QED BY <1>1, <2>2, <3>1, <3>2 DEF OnTrack
  <2> QED BY <1>8, <2>1, <2>2 DEF Reload
<1>9. CASE Verify(w)
  <2>1. CASE Fails(w, "reverted", "restore")
    BY <2>1, FailsFacts DEF OnTrack
  <2>2. CASE Fails(w, "ok", "record")
    <3>1. job'[w].pc = "record" /\ job'[w].result = "ok"
      BY <2>2, FailsFacts
    <3>2. /\ file'[job[w].block] = job[w].want /\ running'[job[w].block] = job[w].want
      BY <1>2, <1>9 DEF Verify, OnTrack
    <3> QED BY <1>1, <3>1, <3>2 DEF OnTrack
  <2> QED BY <1>9, <2>1, <2>2 DEF Verify
<1>10. CASE Restore(w) \/ ReloadBack(w)
  <2>1. \E pc \in {"reloadBack", "record"} : Step(w, pc)
    BY <1>10 DEF Restore, ReloadBack
  <2>2. job'[w].pc \in {"reloadBack", "record"} /\ job'[w].result = job[w].result
    BY <2>1, StepFacts
  <2>3. job[w].result \in {"failed", "reverted"}
    BY <1>2, <1>10 DEF Restore, ReloadBack, OnTrack
  <2> QED BY <2>2, <2>3 DEF OnTrack
<1> QED BY <1>4, <1>5, <1>6, <1>7, <1>8, <1>9, <1>10 DEF Command

\* The requests of administrators and self-service users, and the settings.
LEMMA OpsKnown == ASSUME PrivilegedOnly
    PROVE  Requests \cap {"submit", "reject", "ownerEdit", "ownerRetype", "ownerStage",
                          "ownerBundle"} = {}
BY DEF PrivilegedOnly

LEMMA NextTrack ==
    ASSUME PrivilegedOnly, Undisturbed, Typed, Exclusive, AllOnTrack, AllInStep, [Next]_vars
    PROVE  AllOnTrack'
<1>1. CASE UNCHANGED vars
  BY <1>1 DEF vars, AllOnTrack
<1>2. ASSUME NEW w \in Workers, NEW a \in Apps, NEW op \in OnApplication, Begin(w, a, op)
      PROVE  AllOnTrack'
  <2>1. job'[w].pc \in {"load", "commit"} /\ job'[w].result = "none" /\ Rest(w)
        /\ UNCHANGED <<file, running>>
    BY <1>2, BeginFacts
  <2> QED BY <2>1, TrackStays DEF OnTrack
<1>3. ASSUME NEW w \in Workers, NEW a \in Apps, NEW op \in {"create", "submit"},
             Create(w, a, op)
      PROVE  AllOnTrack'
  <2>1. op = "create"
    BY <1>3, OpsKnown DEF Create
  <2>2. job'[w].pc = "load" /\ job'[w].result = "none" /\ Rest(w)
        /\ UNCHANGED <<file, running>>
    BY <1>3, <2>1, CreateFacts
  <2> QED BY <2>2, TrackStays DEF OnTrack
<1>4. ASSUME NEW w \in Workers, SaveSettings(w) PROVE AllOnTrack'
  <2>1. job'[w].pc = "read" /\ job'[w].result = "none" /\ Rest(w)
        /\ UNCHANGED <<file, running>>
    BY <1>4, SaveFacts
  <2> QED BY <2>1, TrackStays DEF OnTrack
<1>5. ASSUME NEW w \in Workers, Update(w) \/ Delete(w) PROVE AllOnTrack'
  <2>1. /\ job[w].pc = "commit" /\ Rest(w) /\ UNCHANGED <<file, running>>
        /\ job'[w] = Idle \/ (job'[w].pc = "load" /\ job'[w].result = job[w].result)
    BY <1>5, UpdateFacts, DeleteFacts
  <2>2. OnTrack(job'[w], file', running')
    BY <2>1, IdleTrack DEF AllOnTrack, OnTrack
  <2> QED BY <2>1, <2>2, TrackStays
<1>6. ASSUME NEW w \in Workers, Refused(w) \/ Record(w) PROVE AllOnTrack'
  <2>1. job'[w] = Idle /\ Rest(w) /\ UNCHANGED <<file, running>>
    BY <1>6, EndFacts DEF Refused, Record
  <2> QED BY <2>1, IdleTrack, TrackStays
<1>7. ASSUME NEW w \in Workers, LoadPush(w) PROVE AllOnTrack'
  <2>1. job[w].result = "none"
    BY <1>7 DEF LoadPush, AllOnTrack, OnTrack
  <2>2. /\ Rest(w) /\ UNCHANGED <<file, running>>
        /\ job'[w] = Idle \/ (job'[w].pc = "backup" /\ job'[w].result = "none")
           \/ (job'[w].pc = "record" /\ job'[w].result = "skipped")
    BY <1>7, <2>1, LoadPushFacts
  <2>3. OnTrack(job'[w], file', running')
    BY <2>2, IdleTrack DEF OnTrack
  <2> QED BY <2>2, <2>3, TrackStays
<1>8. ASSUME NEW w \in Workers, LoadRemoval(w) PROVE AllOnTrack'
  <2>1. job[w].result = "none"
    BY <1>8 DEF LoadRemoval, AllOnTrack, OnTrack
  <2>2. /\ Rest(w) /\ UNCHANGED <<file, running>>
        /\ \/ job'[w].pc = "read" /\ job'[w].result = "none"
           \/ job'[w].pc = "record" /\ job'[w].result = "skipped"
    BY <1>8, <2>1, LoadRemovalFacts
  <2>3. OnTrack(job'[w], file', running')
    BY <2>2 DEF OnTrack
  <2> QED BY <2>2, <2>3, TrackStays
<1>9. ASSUME NEW a \in Apps, Purge(a) PROVE AllOnTrack'
  BY <1>9 DEF Purge, AllOnTrack
<1>10. ASSUME NEW w \in Workers, Handle(w) PROVE AllOnTrack'
  BY <1>5, <1>6, <1>7, <1>8, <1>10, CommandTrack, NothingLost DEF Handle, RunRemote, Command
<1> QED BY <1>1, <1>2, <1>3, <1>4, <1>9, <1>10, NoMishap DEF Next, Crash
-----------------------------------------------------------------------------
(* Requests and the rows of their applications.                              *)

\* Applications only come into being and go.
RowsAge == \A a \in Apps : /\ apps[a].state # "unused" => apps'[a].state # "unused"
                           /\ apps[a].state = "deleted" => apps'[a].state = "deleted"
\* What administrators see: nothing unapproved, nothing staged.
RowsReviewed == \A a \in Apps : /\ apps[a].state # "unused" => apps[a].approved
                                /\ ~apps[a].staged
StepsFit(w) == IF job[w].pc = "idle" THEN job[w].kind = "none" ELSE InStep(job[w])

LEMMA StepsFitStay ==
    ASSUME Typed, AllInStep, NEW w \in Workers, Rest(w), RowsAge
    PROVE  \A v \in Workers \ {w} : StepsFit(v)'
<1> SUFFICES ASSUME NEW v \in Workers \ {w} PROVE StepsFit(v)'
  OBVIOUS
<1>1. StepsFit(v) /\ job'[v] = job[v]
  BY DEF AllInStep, StepsFit, Rest
<1>2. job[v].pc # "idle" /\ job[v].kind # "auth" => job[v].block \in Apps
  BY DEF Typed, Named
<1>3. CASE job[v].pc = "idle"
  BY <1>1, <1>3 DEF StepsFit
<1>4. CASE job[v].pc # "idle" /\ job[v].kind = "auth"
  BY <1>1, <1>4 DEF StepsFit, InStep
<1>5. CASE job[v].pc # "idle" /\ job[v].kind # "auth"
  BY <1>1, <1>2, <1>5 DEF StepsFit, InStep, RowsAge
<1> QED BY <1>3, <1>4, <1>5

LEMMA InStepStays ==
    ASSUME Typed, AllInStep, NEW w \in Workers, Rest(w), RowsAge, RowsReviewed', StepsFit(w)'
    PROVE  AllInStep'
BY StepsFitStay DEF AllInStep, RowsReviewed, StepsFit

LEMMA RowsUnchanged ==
    ASSUME AllInStep, UNCHANGED apps PROVE RowsAge /\ RowsReviewed'
BY DEF AllInStep, RowsAge, RowsReviewed

LEMMA IdleFits == ASSUME NEW w \in Workers, job'[w] = Idle PROVE StepsFit(w)'
BY DEF Idle, StepsFit

LEMMA InitInStep == Init => AllInStep
BY DEF Init, AllInStep, Idle, NewRow, Unused

LEMMA BeginInStep ==
    ASSUME PrivilegedOnly, Typed, AllInStep, NEW w \in Workers, NEW a \in Apps,
           NEW op \in OnApplication, Begin(w, a, op)
    PROVE  AllInStep'
<1>1. /\ op \in Requests /\ Live(a) /\ Rest(w) /\ UNCHANGED apps
      /\ job'[w].pc = IF op = "retry" THEN "load" ELSE "commit"
      /\ job'[w].kind = IF op = "delete" THEN "remove" ELSE "push"
      /\ job'[w].op = op /\ job'[w].block = a /\ job'[w].row = apps[a]
  BY BeginFacts
<1>2. apps[a].state # "unused" /\ apps[a].approved /\ ~apps[a].staged
  BY <1>1 DEF Live, AllInStep
<1>3. StepsFit(w)'
  BY <1>1, <1>2 DEF StepsFit, InStep, Remote, Steps
<1> QED BY <1>1, <1>3, InStepStays, RowsUnchanged

LEMMA CreateInStep ==
    ASSUME PrivilegedOnly, Typed, AllInStep, NEW w \in Workers, NEW a \in Apps,
           Create(w, a, "create")
    PROVE  AllInStep'
<1>1. /\ "create" \in Requests /\ apps[a].state = "unused" /\ Rest(w)
      /\ job'[w].pc = "load" /\ job'[w].kind = "push" /\ job'[w].op = "create"
      /\ job'[w].block = a
      /\ apps'[a].state = "live" /\ apps'[a].approved /\ ~apps'[a].staged
      /\ \A b \in Apps \ {a} : apps'[b] = apps[b]
  BY CreateFacts
<1>2. RowsAge /\ RowsReviewed'
  BY <1>1 DEF RowsAge, RowsReviewed, AllInStep
<1>3. StepsFit(w)'
  BY <1>1 DEF StepsFit, InStep, Remote, Steps
<1> QED BY <1>1, <1>2, <1>3, InStepStays

LEMMA UpdateInStep ==
    ASSUME PrivilegedOnly, Typed, AllInStep, NEW w \in Workers, Update(w)
    PROVE  AllInStep'
<1> DEFINE a == job[w].block
<1>1. /\ job[w].pc = "commit" /\ a \in Apps /\ Live(a) /\ Rest(w) /\ job[w].kind = "push"
      /\ \/ job'[w] = Idle
         \/ /\ job'[w].pc = "load" /\ job'[w].kind = "push"
            /\ job'[w].op = job[w].op /\ job'[w].block = a
      /\ apps'[a].state = "live" /\ apps'[a].approved /\ ~apps'[a].staged
      /\ \A b \in Apps \ {a} : apps'[b] = apps[b]
  BY UpdateFacts
<1>2. InStep(job[w])
  BY <1>1 DEF AllInStep
<1> HIDE DEF a
<1>3. RowsAge /\ RowsReviewed'
  BY <1>1 DEF RowsAge, RowsReviewed, AllInStep, Live
<1>4. StepsFit(w)'
  <2>1. CASE job'[w] = Idle
    BY <2>1, IdleFits
  <2>2. CASE /\ job'[w].pc = "load" /\ job'[w].kind = "push"
             /\ job'[w].op = job[w].op /\ job'[w].block = a
    BY <1>1, <1>2, <2>2 DEF StepsFit, InStep, Remote, Steps
  <2> QED BY <1>1, <2>1, <2>2
<1> QED BY <1>1, <1>3, <1>4, InStepStays

LEMMA DeleteInStep ==
    ASSUME Typed, AllInStep, NEW w \in Workers, Delete(w)
    PROVE  AllInStep'
<1> DEFINE a == job[w].block
<1>1. /\ job[w].pc = "commit" /\ a \in Apps /\ Rest(w)
      /\ job[w].kind = "remove" /\ apps[a].state # "unused"
      /\ \/ job'[w] = Idle
         \/ /\ job'[w].pc = "load" /\ job'[w].kind = "remove"
            /\ job'[w].op = job[w].op /\ job'[w].block = a
      /\ apps'[a].state = "deleted"
      /\ apps'[a].approved = apps[a].approved /\ apps'[a].staged = apps[a].staged
      /\ \A b \in Apps \ {a} : apps'[b] = apps[b]
  BY DeleteFacts
<1>2. InStep(job[w])
  BY <1>1 DEF AllInStep
<1> HIDE DEF a
<1>3. RowsAge /\ RowsReviewed'
  BY <1>1 DEF RowsAge, RowsReviewed, AllInStep
<1>4. StepsFit(w)'
  <2>1. CASE job'[w] = Idle
    BY <2>1, IdleFits
  <2>2. CASE /\ job'[w].pc = "load" /\ job'[w].kind = "remove"
             /\ job'[w].op = job[w].op /\ job'[w].block = a
    BY <1>1, <1>2, <2>2 DEF StepsFit, InStep, Remote, Steps
  <2> QED BY <1>1, <2>1, <2>2
<1> QED BY <1>1, <1>3, <1>4, InStepStays

LEMMA SectionInStep ==
    ASSUME Typed, AllInStep, NEW w \in Workers,
           LoadPush(w) \/ LoadRemoval(w) \/ SaveSettings(w) \/ Command(w)
    PROVE  AllInStep'
<1>1. Rest(w) /\ UNCHANGED apps
  BY LoadPushFacts, LoadRemovalFacts, SaveFacts, CommandFacts
<1>2. SUFFICES StepsFit(w)'
  BY <1>1, InStepStays, RowsUnchanged
<1>3. CASE LoadPush(w)
  <2> DEFINE a == job[w].block
  <2>1. job[w].pc = "load" /\ job[w].kind = "push"
    BY <1>3, LoadPushFacts
  <2>2. InStep(job[w]) /\ a \in Apps
    BY <2>1 DEF AllInStep, Typed, Named
  <2>3. \/ job'[w] = Idle
        \/ /\ apps[a].state = "live" /\ job'[w].pc \in {"backup", "record"}
           /\ job'[w].kind = "push" /\ job'[w].op = job[w].op
           /\ job'[w].block = a /\ job'[w].row = apps[a] /\ job'[w].want = apps[a].version
    BY <1>3, LoadPushFacts
  <2>4. apps[a].state = "live" => apps[a].approved
    BY <2>2 DEF AllInStep
  <2> HIDE DEF a
  <2>5. CASE job'[w] = Idle
    BY <2>5, IdleFits
  <2>6. CASE job'[w] # Idle
    BY <1>1, <2>1, <2>2, <2>3, <2>4, <2>6 DEF StepsFit, InStep, a
  <2> QED BY <2>5, <2>6
<1>4. CASE LoadRemoval(w)
  <2>1. /\ job[w].pc = "load" /\ job[w].kind = "remove"
        /\ job'[w].pc \in {"read", "record"}
        /\ job'[w].kind = "remove" /\ job'[w].op = job[w].op
        /\ job'[w].block = job[w].block /\ job'[w].want = Absent
    BY <1>4, LoadRemovalFacts
  <2>2. InStep(job[w])
    BY <2>1 DEF AllInStep
  <2> QED BY <1>1, <2>1, <2>2 DEF StepsFit, InStep
<1>5. CASE SaveSettings(w)
  BY <1>5, SaveFacts DEF StepsFit, InStep
<1>6. CASE Command(w)
  <2>1. /\ Remote(job[w]) /\ Remote(job'[w])
        /\ job'[w].kind = job[w].kind /\ job'[w].op = job[w].op
        /\ job'[w].block = job[w].block /\ job'[w].row = job[w].row
        /\ job'[w].want = job[w].want
    BY <1>6, CommandFacts
  <2>2. InStep(job[w])
    BY <2>1 DEF AllInStep, Remote, Steps
  <2>3. job'[w].pc \notin {"idle", "commit", "load"} /\ job[w].pc \notin {"idle", "commit", "load"}
    BY <2>1 DEF Remote, Steps
  <2> QED BY <1>1, <2>1, <2>2, <2>3 DEF StepsFit, InStep
<1> QED BY <1>3, <1>4, <1>5, <1>6

LEMMA NextInStep ==
    ASSUME PrivilegedOnly, Undisturbed, Typed, Exclusive, AllInStep, [Next]_vars
    PROVE  AllInStep'
<1>1. CASE UNCHANGED vars
  BY <1>1 DEF vars, AllInStep, InStep
<1>2. ASSUME NEW w \in Workers, NEW a \in Apps, NEW op \in {"create", "submit"},
             Create(w, a, op)
      PROVE  AllInStep'
  <2>1. op = "create"
    BY <1>2, OpsKnown DEF Create
  <2> QED BY <1>2, <2>1, CreateInStep
<1>3. ASSUME NEW w \in Workers, Refused(w) \/ Record(w) PROVE AllInStep'
  <2>1. Rest(w) /\ job'[w] = Idle
    BY <1>3, EndFacts DEF Refused, Record
  <2>2. RowsAge /\ RowsReviewed'
    <3>1. CASE Refused(w)
      BY <3>1, RowsUnchanged DEF Refused
    <3>2. CASE Record(w)
      <4>1. \A a \in Apps : /\ apps'[a].state = apps[a].state
                            /\ apps'[a].approved = apps[a].approved
                            /\ apps'[a].staged = apps[a].staged
        BY <3>2, RecordFacts
      <4> QED BY <4>1 DEF RowsAge, RowsReviewed, AllInStep
    <3> QED BY <1>3, <3>1, <3>2
  <2> QED BY <2>1, <2>2, IdleFits, InStepStays
<1>4. ASSUME NEW a \in Apps, Purge(a) PROVE AllInStep'
  <2>1. /\ \A b \in Apps \ {a} : apps'[b] = apps[b]
        /\ apps'[a].state = "deleted" /\ apps'[a].approved = apps[a].approved
        /\ apps'[a].staged = apps[a].staged /\ Live(a) /\ UNCHANGED job
    BY <1>4 DEF Purge, Typed, TypeOK, Row
  <2>2. RowsAge /\ RowsReviewed'
    BY <2>1 DEF RowsAge, RowsReviewed, AllInStep, Live
  <2>3. ASSUME NEW w \in Workers PROVE StepsFit(w)'
    <3>1. StepsFit(w) /\ job'[w] = job[w]
      BY <2>1 DEF AllInStep, StepsFit
    <3>2. job[w].pc # "idle" /\ job[w].kind # "auth" => job[w].block \in Apps
      BY DEF Typed, Named
    <3>3. CASE job[w].pc = "idle"
      BY <3>1, <3>3 DEF StepsFit
    <3>4. CASE job[w].pc # "idle" /\ job[w].kind = "auth"
      BY <3>1, <3>4 DEF StepsFit, InStep
    <3>5. CASE job[w].pc # "idle" /\ job[w].kind # "auth"
      BY <2>2, <3>1, <3>2, <3>5 DEF StepsFit, InStep, RowsAge
    <3> QED BY <3>3, <3>4, <3>5
  <2> QED BY <2>2, <2>3 DEF AllInStep, RowsReviewed, StepsFit
<1>5. ASSUME NEW w \in Workers, Handle(w) PROVE AllInStep'
  BY <1>3, <1>5, UpdateInStep, DeleteInStep, SectionInStep, NothingLost
     DEF Handle, RunRemote, Command
<1> QED BY <1>1, <1>2, <1>4, <1>5, BeginInStep, SectionInStep, NoMishap DEF Next, Crash
-----------------------------------------------------------------------------
(* Every live alias application is covered.                                  *)

\* A request that is not between its commit and its record at the block.
Off(j, a) == j.block # a \/ j.pc \in {"idle", "commit"}

\* What happens elsewhere, and what does not reach the section, changes nothing.
LEMMA ElsewhereCovered ==
    ASSUME NEW a \in Apps, Covered(a),
           apps'[a].state = apps[a].state, apps'[a].alias = apps[a].alias,
           apps'[a].version = apps[a].version, apps'[a].needsPush = apps[a].needsPush,
           file'[a] = file[a], running'[a] \in {running[a], file[a]},
           \A v \in Workers : job'[v] = job[v] \/ (Off(job[v], a) /\ Off(job'[v], a))
    PROVE  Covered(a)'
<1>1. Awaits(a, "push") => Awaits(a, "push")'
  BY DEF Awaits, Off
<1>2. ASSUME NEW v \in Workers, Carries(job[v], a) PROVE Carries(job[v], a)'
  <2>1. job'[v] = job[v]
    BY <1>2 DEF Carries, Off, Remote, Steps
  <2> QED BY <1>2, <2>1 DEF Carries
<1>3. AtBlock(a)' => AtBlock(a)
  BY DEF AtBlock, Off, Remote, Steps
<1>4. Served(a) => Served(a)'
  BY DEF Served
<1> QED BY <1>1, <1>2, <1>3, <1>4 DEF Covered, Live

\* An idle request is at no block.
LEMMA IdleOff == \A a : Off(Idle, a)
BY DEF Idle, Off

\* No application is the shared block.
LEMMA SharedIsNoApp == \A a \in Apps : a # Shared
BY NamesAssumption

LEMMA InitCovered == Init => AllCovered
<1> SUFFICES ASSUME Init, NEW a \in Apps, Live(a) PROVE Served(a) /\ ~AtBlock(a)
  BY DEF AllCovered, Covered
<1>1. apps[a] = NewRow(TRUE) /\ apps[a].version = 1 /\ apps[a] # Unused
  BY DEF Init, Live, NewRow, Unused
<1>2. file[a] = 1 /\ running[a] = 1
  BY <1>1 DEF Init
<1>3. ~AtBlock(a)
  BY DEF Init, AtBlock, Remote, Steps, Idle
<1> QED BY <1>1, <1>2, <1>3 DEF Served

LEMMA CommitCovered ==
    ASSUME PrivilegedOnly, Typed, AllInStep, AllCovered, NEW w \in Workers,
           Update(w) \/ Delete(w) \/ Refused(w)
    PROVE  AllCovered'
<1> SUFFICES ASSUME NEW b \in Apps PROVE Covered(b)'
  BY DEF AllCovered
<1> DEFINE a == job[w].block
<1>1. Covered(b)
  BY DEF AllCovered
<1>2. job[w].pc = "commit" /\ Rest(w) /\ UNCHANGED <<file, running>>
  BY UpdateFacts, DeleteFacts, EndFacts DEF Refused
<1>3. CASE Refused(w)
  <2>1. UNCHANGED apps /\ job'[w] = Idle
    BY <1>3, EndFacts DEF Refused
  <2> QED BY <1>1, <1>2, <2>1, IdleOff, ElsewhereCovered DEF Off, Rest
<1>4. CASE b # a /\ (Update(w) \/ Delete(w))
  <2>1. apps'[b] = apps[b] /\ (job'[w] = Idle \/ job'[w].block = a)
    BY <1>4, UpdateFacts, DeleteFacts
  <2> QED BY <1>1, <1>2, <1>4, <2>1, IdleOff, ElsewhereCovered DEF Off, Rest
<1>5. CASE b = a /\ Delete(w)
  BY <1>5, DeleteFacts DEF Covered, Live
<1>6. CASE b = a /\ Update(w)
  <2>1. /\ job[w].op \in {"edit", "retype", "approve"}
        /\ \/ job'[w] = Idle
           \/ job'[w].pc = "load" /\ job'[w].kind = "push" /\ job'[w].block = a
        /\ apps[a].state = "live" /\ apps'[a].state = "live"
        /\ job[w].op # "retype" => apps'[a].alias = apps[a].alias
        /\ job[w].op = "approve" => /\ apps'[a].version = apps[a].version
                                    /\ apps'[a].needsPush = apps[a].needsPush
        /\ job[w].op # "approve" /\ apps'[a].alias => job'[w].pc = "load"
    BY <1>6, UpdateFacts DEF Live
  <2>2. CASE job'[w].pc = "load"
    <3>1. Awaits(b, "push")'
      BY <1>6, <2>1, <2>2, IdleType DEF Awaits
    <3> QED BY <3>1 DEF Covered
  <2>3. CASE job'[w].pc # "load" /\ ~apps'[a].alias
    BY <1>6, <2>3 DEF Covered
  <2>4. CASE job'[w].pc # "load" /\ job[w].op = "approve"
    BY <1>1, <1>2, <1>6, <2>1, <2>4, IdleOff, ElsewhereCovered DEF Off, Rest
  <2> QED BY <2>1, <2>2, <2>3, <2>4
<1> QED BY <1>3, <1>4, <1>5, <1>6

LEMMA BeginCovered ==
    ASSUME Typed, AllCovered, NEW w \in Workers, NEW a \in Apps,
           (\E op \in OnApplication : Begin(w, a, op)) \/ Create(w, a, "create")
    PROVE  AllCovered'
<1> SUFFICES ASSUME NEW b \in Apps PROVE Covered(b)'
  BY DEF AllCovered
<1>1. Covered(b)
  BY DEF AllCovered
<1>2. CASE Create(w, a, "create")
  <2>1. /\ job[w].pc = "idle" /\ job'[w].pc = "load" /\ job'[w].kind = "push"
        /\ job'[w].block = a /\ Rest(w)
        /\ \A c \in Apps \ {a} : apps'[c] = apps[c]
        /\ UNCHANGED <<file, running>>
    BY <1>2, CreateFacts
  <2>2. CASE b = a
    <3>1. Awaits(b, "push")'
      BY <2>1, <2>2 DEF Awaits
    <3> QED BY <3>1 DEF Covered
  <2>3. CASE b # a
    BY <1>1, <2>1, <2>3, ElsewhereCovered DEF Off, Rest
  <2> QED BY <2>2, <2>3
<1>3. ASSUME NEW op \in OnApplication, Begin(w, a, op) PROVE Covered(b)'
  <2>1. /\ job[w].pc = "idle" /\ Rest(w) /\ UNCHANGED <<apps, file, running>>
        /\ job'[w].pc = IF op = "retry" THEN "load" ELSE "commit"
        /\ job'[w].kind = IF op = "delete" THEN "remove" ELSE "push"
        /\ job'[w].block = a
    BY <1>3, BeginFacts
  <2>2. CASE b = a /\ op = "retry"
    <3>1. Awaits(b, "push")'
      BY <2>1, <2>2 DEF Awaits
    <3> QED BY <3>1 DEF Covered
  <2>3. CASE b # a \/ op # "retry"
    BY <1>1, <2>1, <2>3, ElsewhereCovered DEF Off, Rest
  <2> QED BY <2>2, <2>3
<1> QED BY <1>2, <1>3

\* A live application is at the block of pushes only.
LEMMA LiveIsPushed ==
    ASSUME AllInStep, NEW w \in Workers, NEW a \in Apps, Live(a), job[w].block = a,
           job[w].pc \notin {"idle", "commit"}
    PROVE  job[w].kind = "push" /\ InStep(job[w])
<1>1. InStep(job[w])
  BY DEF AllInStep
<1>2. job[w].kind # "auth"
  BY <1>1, SharedIsNoApp DEF InStep
<1> QED BY <1>1, <1>2 DEF InStep, Live

LEMMA LoadCovered ==
    ASSUME Typed, AllInStep, AllCovered, NEW w \in Workers,
           LoadPush(w) \/ LoadRemoval(w) \/ SaveSettings(w)
    PROVE  AllCovered'
<1> SUFFICES ASSUME NEW b \in Apps PROVE Covered(b)'
  BY DEF AllCovered
<1>1. Covered(b)
  BY DEF AllCovered
<1>2. Rest(w) /\ UNCHANGED <<apps, file, running>>
  BY LoadPushFacts, LoadRemovalFacts, SaveFacts
<1>3. CASE SaveSettings(w)
  <2>1. job[w].pc = "idle" /\ job'[w].block = Shared
    BY <1>3, SaveFacts
  <2> QED BY <1>1, <1>2, <2>1, SharedIsNoApp, ElsewhereCovered DEF Off, Rest
<1>4. CASE (LoadPush(w) \/ LoadRemoval(w)) /\ b # job[w].block
  <2>1. job'[w] = Idle \/ job'[w].block = job[w].block
    BY <1>4, LoadPushFacts, LoadRemovalFacts
  <2> QED BY <1>1, <1>2, <1>4, <2>1, IdleOff, ElsewhereCovered DEF Off, Rest
<1>5. CASE LoadRemoval(w) /\ b = job[w].block
  <2>1. job[w].pc = "load" /\ job[w].kind = "remove"
    BY <1>5, LoadRemovalFacts
  <2>2. ~Live(b)
    BY <1>5, <2>1, LiveIsPushed
  <2> QED BY <1>2, <2>2 DEF Covered, Live
<1>6. CASE LoadPush(w) /\ b = job[w].block
  <2>1. \/ apps[b].state # "live"
        \/ /\ job'[w].pc \in {"backup", "record"}
           /\ job'[w].kind = "push" /\ job'[w].block = b /\ job'[w].row = apps[b]
    BY <1>6, LoadPushFacts
  <2>2. CASE apps[b].state # "live"
    BY <1>2, <2>2 DEF Covered, Live
  <2>3. CASE /\ job'[w].pc \in {"backup", "record"} /\ apps[b].alias
             /\ job'[w].kind = "push" /\ job'[w].block = b /\ job'[w].row = apps[b]
    <3>1. Carries(job[w], b)'
      BY <1>2, <2>3 DEF Carries, Remote, Steps
    <3> QED BY <3>1 DEF Covered
  <2>4. CASE ~apps[b].alias
    BY <1>2, <2>4 DEF Covered
  <2> QED BY <2>1, <2>2, <2>3, <2>4
<1> QED BY <1>3, <1>4, <1>5, <1>6

\* A command touches its own block, and nginx loads what is in the file.
LEMMA CommandFiles ==
    ASSUME Typed, Exclusive, NEW w \in Workers, Command(w),
           NEW b \in Blocks, b # job[w].block
    PROVE  file'[b] = file[b] /\ running'[b] \in {running[b], file[b]}
<1>1. file'[b] = file[b]
  <2>1. CASE Write(w) \/ Restore(w)
    BY <2>1, WriteOwnBlock
  <2>2. CASE ~(Write(w) \/ Restore(w))
    BY <2>2 DEF Command, Unreachable, Backup, Read, Reload, Verify, ReloadBack
  <2> QED BY <2>1, <2>2
<1>2. running' \in {running, file}
  BY DEF Command, Unreachable, Backup, Read, Write, Reload, Verify, Restore, ReloadBack
<1> QED BY <1>1, <1>2

LEMMA CommandCovered ==
    ASSUME Typed, Exclusive, AllInStep, AllCovered, NEW w \in Workers, Command(w)
    PROVE  AllCovered'
<1> SUFFICES ASSUME NEW b \in Apps PROVE Covered(b)'
  BY DEF AllCovered
<1>1. Covered(b)
  BY DEF AllCovered
<1>2. /\ Remote(job[w]) /\ Remote(job'[w]) /\ Rest(w) /\ UNCHANGED apps
      /\ job'[w].kind = job[w].kind /\ job'[w].block = job[w].block
      /\ job'[w].row = job[w].row
  BY CommandFacts
<1>3. CASE b # job[w].block
  <2>1. file'[b] = file[b] /\ running'[b] \in {running[b], file[b]}
    BY <1>3, CommandFiles DEF Blocks
  <2> QED BY <1>1, <1>2, <1>3, <2>1, ElsewhereCovered DEF Off, Rest
<1>4. CASE b = job[w].block
  <2>1. AtBlock(b)
    BY <1>2, <1>4 DEF AtBlock
  <2>2. Awaits(b, "push") => Awaits(b, "push")'
    BY <1>2 DEF Awaits, Rest, Remote
  <2>3. ASSUME NEW v \in Workers, Carries(job[v], b) PROVE Carries(job[v], b)'
    BY <1>2, <2>3 DEF Carries, Rest
  <2> QED BY <1>1, <1>2, <2>1, <2>2, <2>3 DEF Covered, Live
<1> QED BY <1>3, <1>4

LEMMA RecordCovered ==
    ASSUME Typed, Exclusive, AllOnTrack, AllInStep, AllCovered, NEW w \in Workers, Record(w)
    PROVE  AllCovered'
<1> SUFFICES ASSUME NEW b \in Apps PROVE Covered(b)'
  BY DEF AllCovered
<1> DEFINE j == job[w]
<1>1. Covered(b)
  BY DEF AllCovered
<1>2. /\ j.pc = "record" /\ job'[w] = Idle /\ Rest(w) /\ Remote(j)
      /\ UNCHANGED <<file, running>>
      /\ apps'[b].state = apps[b].state /\ apps'[b].version = apps[b].version
      /\ apps'[b].alias = apps[b].alias
      /\ apps'[b].needsPush = IF j.kind = "push" /\ j.block = b /\ Live(b)
                              THEN StillNeedsPush(j) ELSE apps[b].needsPush
  BY RecordFacts
<1>3. CASE b # j.block
  BY <1>1, <1>2, <1>3, IdleOff, ElsewhereCovered DEF Off, Rest
<1>4. CASE b = j.block /\ Live(b) /\ apps[b].alias
  <2>1. j.kind = "push" /\ InStep(j)
    BY <1>2, <1>4, LiveIsPushed
  <2>2. AtBlock(b) /\ ~AtBlock(b)'
    BY <1>2, <1>4, IdleType DEF AtBlock, Rest, Exclusive, OneRemote, Remote, Steps
  <2>3. Awaits(b, "push") => Awaits(b, "push")'
    BY <1>2 DEF Awaits, Rest
  <2>4. ASSUME NEW v \in Workers, Carries(job[v], b)
        PROVE  apps'[b].needsPush \/ Served(b)'
    <3>1. v = w
      BY <1>2, <2>4 DEF Carries, Exclusive, OneRemote
    <3>2. j.row.alias /\ j.row.approved /\ j.want = apps[b].version
      BY <1>2, <2>1, <2>4, <3>1 DEF Carries, InStep
    <3>3. CASE j.result = "ok"
      <4>1. file[b] = j.want /\ running[b] = j.want
        BY <1>2, <1>4, <2>1, <3>3 DEF AllOnTrack, OnTrack
      <4> QED BY <1>2, <3>2, <4>1 DEF Served
    <3>4. CASE j.result # "ok"
      BY <1>2, <1>4, <2>1, <3>2, <3>4 DEF StillNeedsPush
    <3> QED BY <3>3, <3>4
  <2> HIDE DEF j
  <2> QED BY <1>1, <1>4, <2>2, <2>3, <2>4 DEF Covered
<1>5. CASE ~Live(b) \/ ~apps[b].alias
  BY <1>2, <1>5 DEF Covered, Live
<1> QED BY <1>3, <1>4, <1>5

LEMMA NextCovered ==
    ASSUME PrivilegedOnly, Undisturbed, Typed, Exclusive, AllOnTrack, AllInStep, AllCovered,
           [Next]_vars
    PROVE  AllCovered'
<1>1. CASE UNCHANGED vars
  BY <1>1 DEF vars, AllCovered, Covered, Live, Awaits, Carries, AtBlock, Served
<1>2. ASSUME NEW w \in Workers, NEW a \in Apps, NEW op \in {"create", "submit"},
             Create(w, a, op)
      PROVE  AllCovered'
  <2>1. op = "create"
    BY <1>2, OpsKnown DEF Create
  <2> QED BY <1>2, <2>1, BeginCovered
<1>3. ASSUME NEW a \in Apps, Purge(a) PROVE AllCovered'
  <2> SUFFICES ASSUME NEW b \in Apps PROVE Covered(b)'
    BY DEF AllCovered
  <2>1. /\ \A c \in Apps \ {a} : apps'[c] = apps[c]
        /\ apps'[a].state = "deleted" /\ UNCHANGED <<job, file, running>>
    BY <1>3 DEF Purge, Typed, TypeOK, Row
  <2>2. CASE b = a
    BY <2>1, <2>2 DEF Covered, Live
  <2>3. CASE b # a
    BY <2>1, <2>3, ElsewhereCovered DEF AllCovered
  <2> QED BY <2>2, <2>3
<1>4. ASSUME NEW w \in Workers, Handle(w) PROVE AllCovered'
  BY <1>4, CommitCovered, LoadCovered, CommandCovered, RecordCovered, NothingLost
     DEF Handle, RunRemote, Command
<1> QED BY <1>1, <1>2, <1>3, <1>4, BeginCovered, LoadCovered, NoMishap DEF Next, Crash

LEMMA CoveredIsEnough == AllInStep /\ AllCovered => ServedOrFlagged
<1> SUFFICES ASSUME AllCovered, NEW a \in Apps, Live(a), apps[a].alias, Settled(a)
             PROVE  apps[a].needsPush \/ Served(a)
  BY DEF ServedOrFlagged, Served
<1>1. ~Awaits(a, "push") /\ \A w \in Workers : ~Carries(job[w], a)
  BY DEF Settled, Awaits, Carries
<1> QED BY <1>1 DEF AllCovered, Covered

LEMMA TrackHolds ==
    ASSUME PrivilegedOnly, Undisturbed
    PROVE  Spec => [](Typed /\ Exclusive /\ AllOnTrack /\ AllInStep)
<1>1. Init => Typed /\ Exclusive /\ AllOnTrack /\ AllInStep
  BY InitTyped, InitExclusive, InitTrack, InitInStep
<1>2. /\ Typed /\ Exclusive /\ AllOnTrack /\ AllInStep /\ [Next]_vars
      => (Typed /\ Exclusive /\ AllOnTrack /\ AllInStep)'
  BY NextTyped, NextExclusive, NextTrack, NextInStep DEF Undisturbed
<1> QED BY <1>1, <1>2, PTL DEF Spec

\* When no change waits for review, no process dies and one request at a time is
\* between load and record, then whatever administrators do to one application at once,
\* and whichever command of a push fails, every live alias application that no request
\* is at is served in its current version or flagged for a push (needs_push in
\* update_application, _push_alias_on_approval and retry_application_push).
THEOREM NoneForgotten ==
    ASSUME PrivilegedOnly, Undisturbed
    PROVE  Spec => []ServedOrFlagged
<1>1. /\ Typed /\ Exclusive /\ AllOnTrack /\ AllInStep /\ AllCovered /\ [Next]_vars
      => AllCovered'
  BY NextCovered
<1> QED BY <1>1, InitCovered, TrackHolds, CoveredIsEnough, PTL DEF Spec
-----------------------------------------------------------------------------
(* The block of a deleted application goes with it.                          *)

AliasKept(w) ==
    /\ job[w].pc = "commit" => job[w].row.alias = apps[job[w].block].alias
    /\ job[w].pc = "load" /\ job[w].kind = "remove" => apps[job[w].block].alias

LEMMA StayIsPrivileged == AliasesStay => PrivilegedOnly /\ Requests \cap {"retype", "purge"} = {}
BY DEF AliasesStay, PrivilegedOnly

LEMMA ElsewhereVanishes ==
    ASSUME NEW a \in Apps, Vanishes(a),
           apps'[a].state = apps[a].state, apps'[a].alias = apps[a].alias,
           removal'[a] = removal[a], file'[a] = file[a],
           \A v \in Workers : job'[v] = job[v] \/ (Off(job[v], a) /\ Off(job'[v], a))
    PROVE  Vanishes(a)'
<1>1. Awaits(a, "remove") => Awaits(a, "remove")'
  BY DEF Awaits, Off
<1>2. Removes(a) => Removes(a)'
  BY DEF Removes, Off, Remote, Steps
<1>3. AtBlock(a)' => AtBlock(a)
  BY DEF AtBlock, Off, Remote, Steps
<1> QED BY <1>1, <1>2, <1>3 DEF Vanishes

\* Nothing is written of a plain application as long as nobody but a request about to
\* record joins the section at it.
LEMMA NothingWritten ==
    ASSUME NEW a \in Apps, NoBlock(a),
           apps'[a].state = "unused" \/ ~apps'[a].alias => apps[a].state = "unused" \/ ~apps[a].alias,
           file'[a] = file[a],
           \A v \in Workers :
              \/ job'[v] = job[v]
              \/ job'[v].block = a /\ Remote(job'[v]) => job'[v].pc = "record"
    PROVE  NoBlock(a)'
BY DEF NoBlock

\* Aliases do not change once an application exists.
AliasesKept == \A a \in Apps : apps[a].state # "unused" => apps'[a].alias = apps[a].alias

LEMMA AliasKeptStays ==
    ASSUME Typed, AllInStep, AliasesKept, NEW v \in Workers, AliasKept(v), job'[v] = job[v]
    PROVE  AliasKept(v)'
<1>1. CASE job[v].pc = "commit" \/ (job[v].pc = "load" /\ job[v].kind = "remove")
  <2>1. InStep(job[v])
    BY <1>1 DEF AllInStep
  <2>2. job[v].kind # "auth"
    BY <1>1, <2>1 DEF InStep
  <2>3. job[v].block \in Apps /\ apps[job[v].block].state # "unused"
    BY <1>1, <2>1, <2>2 DEF Typed, Named, InStep
  <2> QED BY <2>3 DEF AliasesKept, AliasKept
<1>2. CASE ~(job[v].pc = "commit" \/ (job[v].pc = "load" /\ job[v].kind = "remove"))
  BY <1>2 DEF AliasKept
<1> QED BY <1>1, <1>2

LEMMA VanishParts ==
    ASSUME Typed, AllInStep, AllVanish, NEW w \in Workers, Rest(w), AliasesKept, AliasKept(w)',
           \A a \in Apps : Vanishes(a)' /\ NoBlock(a)'
    PROVE  AllVanish'
<1>1. \A v \in Workers \ {w} : AliasKept(v)'
  BY AliasKeptStays DEF Rest, AllVanish, AliasKept
<1> QED BY <1>1 DEF AllVanish, AliasKept

LEMMA InitVanish == Init => AllVanish
<1> SUFFICES ASSUME Init PROVE AllVanish
  OBVIOUS
<1>1. \A w \in Workers : ~Remote(job[w]) /\ job[w].pc = "idle"
  BY DEF Init, Idle, Remote, Steps
<1>2. ASSUME NEW a \in Apps PROVE Vanishes(a) /\ NoBlock(a)
  <2>1. CASE apps[a] = Unused
    <3>1. apps[a].state = "unused" /\ file[a] = Absent
      BY <2>1 DEF Init, Unused, NewRow
    <3> QED BY <1>1, <3>1 DEF Vanishes, NoBlock
  <2>2. CASE apps[a] = NewRow(TRUE)
    <3>1. apps[a].state = "live" /\ apps[a].alias
      BY <2>2 DEF NewRow
    <3> QED BY <3>1 DEF Vanishes, NoBlock
  <2> QED BY <2>1, <2>2 DEF Init
<1> QED BY <1>1, <1>2 DEF AllVanish

LEMMA BeginVanish ==
    ASSUME Typed, AllInStep, AllVanish, NEW w \in Workers, NEW a \in Apps,
           (\E op \in OnApplication : Begin(w, a, op)) \/ Create(w, a, "create")
    PROVE  AllVanish'
<1>1. CASE Create(w, a, "create")
  <2>1. /\ job[w].pc = "idle" /\ job'[w].pc = "load" /\ job'[w].kind = "push"
        /\ job'[w].block = a /\ Rest(w) /\ apps[a].state = "unused"
        /\ apps'[a].state = "live" /\ \A c \in Apps \ {a} : apps'[c] = apps[c]
        /\ UNCHANGED <<file, removal>>
    BY <1>1, CreateFacts
  <2>2. AliasesKept /\ AliasKept(w)'
    BY <2>1 DEF AliasesKept, AliasKept
  <2>3. ASSUME NEW b \in Apps PROVE Vanishes(b)' /\ NoBlock(b)'
    <3>1. Vanishes(b) /\ NoBlock(b)
      BY DEF AllVanish
    <3>2. Vanishes(b)'
      <4>1. CASE b = a
        BY <2>1, <4>1 DEF Vanishes
      <4>2. CASE b # a
        BY <2>1, <3>1, <4>2, ElsewhereVanishes DEF Off, Rest
      <4> QED BY <4>1, <4>2
    <3>3. ~Remote(job'[w])
      BY <2>1 DEF Remote
    <3>4. NoBlock(b)'
      BY <2>1, <3>1, <3>3, NothingWritten DEF Rest
    <3> QED BY <3>2, <3>4
  <2> QED BY <2>1, <2>2, <2>3, VanishParts
<1>2. ASSUME NEW op \in OnApplication, Begin(w, a, op) PROVE AllVanish'
  <2>1. /\ job[w].pc = "idle" /\ Rest(w) /\ Live(a) /\ UNCHANGED <<apps, file, removal>>
        /\ job'[w].pc = IF op = "retry" THEN "load" ELSE "commit"
        /\ job'[w].kind = IF op = "delete" THEN "remove" ELSE "push"
        /\ job'[w].block = a /\ job'[w].row = apps[a]
    BY <1>2, BeginFacts
  <2>2. AliasesKept /\ AliasKept(w)'
    BY <2>1 DEF AliasesKept, AliasKept
  <2>3. ASSUME NEW b \in Apps PROVE Vanishes(b)' /\ NoBlock(b)'
    <3>1. Vanishes(b) /\ NoBlock(b)
      BY DEF AllVanish
    <3>2. Vanishes(b)'
      <4>1. CASE b = a
        BY <2>1, <4>1 DEF Vanishes, Live
      <4>2. CASE b # a
        BY <2>1, <3>1, <4>2, ElsewhereVanishes DEF Off, Rest
      <4> QED BY <4>1, <4>2
    <3>3. ~Remote(job'[w])
      BY <2>1 DEF Remote
    <3>4. NoBlock(b)'
      BY <2>1, <3>1, <3>3, NothingWritten DEF Rest
    <3> QED BY <3>2, <3>4
  <2> QED BY <2>1, <2>2, <2>3, VanishParts
<1> QED BY <1>1, <1>2

LEMMA CommitVanish ==
    ASSUME AliasesStay, Typed, AllInStep, AllVanish, NEW w \in Workers,
           Update(w) \/ Delete(w) \/ Refused(w)
    PROVE  AllVanish'
<1> DEFINE a == job[w].block
<1>1. PrivilegedOnly
  BY StayIsPrivileged
<1>2. job[w].pc = "commit" /\ Rest(w) /\ UNCHANGED <<file, removal>>
  BY <1>1, UpdateFacts, DeleteFacts, EndFacts DEF Refused
<1>3. job[w].row.alias = apps[a].alias
  BY <1>2 DEF AllVanish
<1>4. CASE Refused(w)
  <2>1. UNCHANGED apps /\ job'[w] = Idle
    BY <1>4, EndFacts DEF Refused
  <2>2. AliasesKept /\ AliasKept(w)'
    BY <2>1 DEF AliasesKept, AliasKept, Idle
  <2>3. ~Remote(job'[w])
    BY <2>1 DEF Remote, Steps, Idle
  <2>4. ASSUME NEW b \in Apps PROVE Vanishes(b)' /\ NoBlock(b)'
    <3>1. Vanishes(b) /\ NoBlock(b)
      BY DEF AllVanish
    <3>2. Vanishes(b)'
      BY <1>2, <2>1, <3>1, IdleOff, ElsewhereVanishes DEF Off, Rest
    <3>3. NoBlock(b)'
      BY <1>2, <2>1, <2>3, <3>1, NothingWritten DEF Rest
    <3> QED BY <3>2, <3>3
  <2> QED BY <1>2, <2>2, <2>4, VanishParts
<1>5. CASE Update(w)
  <2>1. /\ a \in Apps /\ \/ job'[w] = Idle
                         \/ job'[w].pc = "load" /\ job'[w].kind = "push" /\ job'[w].block = a
        /\ apps[a].state = "live" /\ apps'[a].state = "live"
        /\ \A b \in Apps \ {a} : apps'[b] = apps[b]
    BY <1>1, <1>5, UpdateFacts DEF Live
  <2>2. apps'[a].alias = apps[a].alias
    <3>1. job[w].op # "retype"
      <4>1. InStep(job[w]) /\ job[w].kind = "push"
        BY <1>1, <1>2, <1>5, UpdateFacts DEF AllInStep
      <4> QED BY <4>1, StayIsPrivileged DEF InStep
    <3> QED BY <1>1, <1>5, <3>1, UpdateFacts
  <2> HIDE DEF a
  <2>3. AliasesKept /\ AliasKept(w)'
    BY <2>1, <2>2 DEF AliasesKept, AliasKept, Idle
  <2>4. ~Remote(job'[w])
    BY <2>1 DEF Remote, Steps, Idle
  <2>5. ASSUME NEW b \in Apps PROVE Vanishes(b)' /\ NoBlock(b)'
    <3>1. Vanishes(b) /\ NoBlock(b)
      BY DEF AllVanish
    <3>2. Vanishes(b)'
      <4>1. CASE b = a
        BY <2>1, <4>1 DEF Vanishes
      <4>2. CASE b # a
        BY <1>2, <2>1, <3>1, <4>2, IdleOff, ElsewhereVanishes DEF Off, Rest, a
      <4> QED BY <4>1, <4>2
    <3>3. apps'[b].alias = apps[b].alias /\ apps'[b].state = apps[b].state
      BY <2>1, <2>2
    <3>4. NoBlock(b)'
      BY <1>2, <2>4, <3>1, <3>3, NothingWritten DEF Rest
    <3> QED BY <3>2, <3>4
  <2> QED BY <1>2, <2>3, <2>5, VanishParts
<1>6. CASE Delete(w)
  <2>1. /\ a \in Apps /\ apps[a].state # "unused"
        /\ \/ ~job[w].row.alias /\ job'[w] = Idle
           \/ /\ job[w].row.alias /\ job'[w].pc = "load" /\ job'[w].kind = "remove"
              /\ job'[w].block = a
        /\ apps'[a].state = "deleted" /\ apps'[a].alias = apps[a].alias
        /\ \A b \in Apps \ {a} : apps'[b] = apps[b]
    BY <1>6, DeleteFacts
  <2>2. AliasesKept
    BY <2>1 DEF AliasesKept
  <2> HIDE DEF a
  <2>3. AliasKept(w)'
    BY <1>3, <2>1 DEF AliasKept, Idle
  <2>4. ~Remote(job'[w])
    BY <2>1 DEF Remote, Steps, Idle
  <2>5. ASSUME NEW b \in Apps PROVE Vanishes(b)' /\ NoBlock(b)'
    <3>1. Vanishes(b) /\ NoBlock(b)
      BY DEF AllVanish
    <3>2. Vanishes(b)'
      <4>1. CASE b = a /\ job[w].row.alias
        <5>1. Awaits(b, "remove")'
          BY <2>1, <4>1 DEF Awaits
        <5> QED BY <5>1 DEF Vanishes
      <4>2. CASE b = a /\ ~job[w].row.alias
        BY <1>3, <2>1, <4>2 DEF Vanishes
      <4>3. CASE b # a
        BY <1>2, <2>1, <3>1, <4>3, IdleOff, ElsewhereVanishes DEF Off, Rest, a
      <4> QED BY <4>1, <4>2, <4>3
    <3>3. apps'[b].alias = apps[b].alias
      BY <2>1
    <3>4. apps'[b].state = "unused" => apps[b].state = "unused"
      BY <2>1
    <3>5. NoBlock(b)'
      BY <1>2, <2>4, <3>1, <3>3, <3>4, NothingWritten DEF Rest
    <3> QED BY <3>2, <3>5
  <2> QED BY <1>2, <2>2, <2>3, <2>5, VanishParts
<1> QED BY <1>4, <1>5, <1>6

LEMMA LoadVanish ==
    ASSUME Typed, AllInStep, AllVanish, NEW w \in Workers,
           LoadPush(w) \/ LoadRemoval(w) \/ SaveSettings(w)
    PROVE  AllVanish'
<1> DEFINE a == job[w].block
<1>1. Rest(w) /\ UNCHANGED <<apps, file, removal>>
  BY LoadPushFacts, LoadRemovalFacts, SaveFacts
<1>2. AliasesKept
  BY <1>1 DEF AliasesKept
<1>3. CASE SaveSettings(w)
  <2>1. job[w].pc = "idle" /\ job'[w].pc = "read" /\ job'[w].block = Shared
    BY <1>3, SaveFacts
  <2>2. AliasKept(w)'
    BY <2>1 DEF AliasKept
  <2>3. ASSUME NEW b \in Apps PROVE Vanishes(b)' /\ NoBlock(b)'
    BY <1>1, <2>1, SharedIsNoApp, ElsewhereVanishes, NothingWritten DEF Off, Rest, AllVanish
  <2> QED BY <1>1, <1>2, <2>2, <2>3, VanishParts
<1>4. CASE LoadPush(w)
  <2>1. /\ job[w].pc = "load" /\ job[w].kind = "push"
        /\ \/ apps[a].state # "live" /\ job'[w] = Idle
           \/ /\ apps[a].state = "live" /\ job'[w].pc \in {"backup", "record"}
              /\ job'[w].pc = "backup" => apps[a].alias
              /\ job'[w].kind = "push" /\ job'[w].block = a
    BY <1>4, LoadPushFacts
  <2> HIDE DEF a
  <2>2. AliasKept(w)'
    BY <2>1 DEF AliasKept, Idle
  <2>3. ASSUME NEW b \in Apps PROVE Vanishes(b)' /\ NoBlock(b)'
    <3>1. Vanishes(b) /\ NoBlock(b)
      BY DEF AllVanish
    <3>2. Vanishes(b)'
      <4>1. CASE b # a
        BY <1>1, <2>1, <3>1, <4>1, IdleOff, ElsewhereVanishes DEF Off, Rest, a
      <4>2. CASE b = a /\ apps[a].state = "live"
        BY <1>1, <4>2 DEF Vanishes
      <4>3. CASE b = a /\ job'[w] = Idle
        <5>1. Awaits(b, "remove") => Awaits(b, "remove")'
          BY <1>1, <2>1 DEF Awaits, Rest
        <5>2. Removes(b) => Removes(b)'
          BY <1>1, <2>1 DEF Removes, Rest
        <5>3. AtBlock(b)' => AtBlock(b)
          BY <1>1, <4>3 DEF AtBlock, Rest, Idle, Remote, Steps
        <5> QED BY <1>1, <3>1, <5>1, <5>2, <5>3 DEF Vanishes
      <4> QED BY <2>1, <4>1, <4>2, <4>3
    <3>3. NoBlock(b)'
      <4>1. CASE b = a /\ job'[w].pc = "backup"
        BY <1>1, <2>1, <4>1, IdleType DEF NoBlock
      <4>2. CASE ~(b = a /\ job'[w].pc = "backup")
        <5>1. job'[w].block = b /\ Remote(job'[w]) => job'[w].pc = "record"
          BY <2>1, <4>2 DEF Remote, Steps, Idle
        <5> QED BY <1>1, <3>1, <5>1, NothingWritten DEF Rest
      <4> QED BY <4>1, <4>2
    <3> QED BY <3>2, <3>3
  <2> QED BY <1>1, <1>2, <2>2, <2>3, VanishParts
<1>5. CASE LoadRemoval(w)
  <2>1. /\ job[w].pc = "load" /\ job[w].kind = "remove"
        /\ job'[w].pc \in {"read", "record"} /\ job'[w].kind = "remove" /\ job'[w].block = a
    BY <1>5, LoadRemovalFacts
  <2>2. a \in Apps /\ apps[a].alias /\ apps[a].state # "unused"
    <3>1. InStep(job[w]) /\ apps[a].alias
      BY <2>1 DEF AllInStep, AllVanish
    <3> QED BY <2>1, <3>1 DEF InStep, Typed, Named
  <2> HIDE DEF a
  <2>3. AliasKept(w)'
    BY <2>1 DEF AliasKept
  <2>4. ASSUME NEW b \in Apps PROVE Vanishes(b)' /\ NoBlock(b)'
    <3>1. Vanishes(b) /\ NoBlock(b)
      BY DEF AllVanish
    <3>2. CASE b # a
      BY <1>1, <2>1, <3>1, <3>2, ElsewhereVanishes, NothingWritten DEF Off, Rest, a
    <3>3. CASE b = a
      <4>1. Removes(b)'
        BY <2>1, <3>3 DEF Removes, Remote, Steps
      <4> QED BY <1>1, <2>2, <3>3, <4>1 DEF Vanishes, NoBlock
    <3> QED BY <3>2, <3>3
  <2> QED BY <1>1, <1>2, <2>3, <2>4, VanishParts
<1> QED BY <1>3, <1>4, <1>5

LEMMA CommandVanish ==
    ASSUME Typed, Exclusive, AllInStep, AllVanish, NEW w \in Workers, Command(w)
    PROVE  AllVanish'
<1>1. /\ Remote(job[w]) /\ Remote(job'[w]) /\ Rest(w) /\ UNCHANGED <<apps, removal>>
      /\ job'[w].kind = job[w].kind /\ job'[w].block = job[w].block
      /\ job[w].pc # "record"
  BY CommandFacts
<1>2. AliasesKept /\ AliasKept(w)'
  BY <1>1 DEF AliasesKept, AliasKept, Remote
<1>3. ASSUME NEW b \in Apps PROVE Vanishes(b)' /\ NoBlock(b)'
  <2>1. Vanishes(b) /\ NoBlock(b)
    BY DEF AllVanish
  <2>2. CASE b # job[w].block
    <3>1. file'[b] = file[b]
      BY <2>2, CommandFiles DEF Blocks
    <3> QED BY <1>1, <2>1, <2>2, <3>1, ElsewhereVanishes, NothingWritten DEF Off, Rest
  <2>3. CASE b = job[w].block
    <3>1. AtBlock(b)
      BY <1>1, <2>3 DEF AtBlock
    <3>2. Awaits(b, "remove") => Awaits(b, "remove")'
      BY <1>1 DEF Awaits, Rest, Remote
    <3>3. Removes(b) => Removes(b)'
      BY <1>1 DEF Removes, Rest
    <3>4. ~(apps[b].state = "unused" \/ ~apps[b].alias)
      BY <1>1, <2>1, <2>3 DEF NoBlock
    <3> QED BY <1>1, <2>1, <3>1, <3>2, <3>3, <3>4 DEF Vanishes, NoBlock
  <2> QED BY <2>2, <2>3
<1> QED BY <1>1, <1>2, <1>3, VanishParts

LEMMA RecordVanish ==
    ASSUME Typed, Exclusive, AllOnTrack, AllInStep, AllVanish, NEW w \in Workers, Record(w)
    PROVE  AllVanish'
<1> DEFINE j == job[w]
<1>1. /\ j.pc = "record" /\ job'[w] = Idle /\ Rest(w) /\ Remote(j)
      /\ UNCHANGED file
      /\ \A b \in Apps : /\ apps'[b].state = apps[b].state /\ apps'[b].alias = apps[b].alias
                         /\ removal'[b] = IF j.kind = "remove" /\ j.block = b
                                          THEN j.result ELSE removal[b]
  BY RecordFacts
<1>2. AliasesKept /\ AliasKept(w)' /\ ~Remote(job'[w])
  BY <1>1 DEF AliasesKept, AliasKept, Idle, Remote, Steps
<1>3. ASSUME NEW b \in Apps PROVE Vanishes(b)' /\ NoBlock(b)'
  <2>1. Vanishes(b) /\ NoBlock(b)
    BY DEF AllVanish
  <2>2. NoBlock(b)'
    BY <1>1, <1>2, <2>1, NothingWritten DEF Rest
  <2>3. CASE b # j.block
    BY <1>1, <2>1, <2>2, <2>3, IdleOff, ElsewhereVanishes DEF Off, Rest
  <2>4. CASE b = j.block
    <3>1. AtBlock(b) /\ ~AtBlock(b)'
      BY <1>1, <1>2, <2>4 DEF AtBlock, Rest, Exclusive, OneRemote
    <3>2. Awaits(b, "remove") => Awaits(b, "remove")'
      BY <1>1 DEF Awaits, Rest
    <3>3. ASSUME Removes(b)
          PROVE  file'[b] = Absent \/ removal'[b] \in {"failed", "reverted", "skipped"}
      <4>1. j.kind = "remove"
        BY <1>1, <3>3 DEF Removes, Exclusive, OneRemote
      <4>2. InStep(j)
        BY <1>1 DEF AllInStep
      <4>3. j.want = Absent /\ removal'[b] = j.result
        BY <1>1, <2>4, <4>1, <4>2 DEF InStep
      <4>4. /\ j.result \in {"ok", "failed", "reverted", "skipped"}
            /\ j.result = "ok" => file[b] = j.want
        BY <1>1, <2>4 DEF AllOnTrack, OnTrack
      <4> QED BY <1>1, <4>3, <4>4
    <3> HIDE DEF j
    <3> QED BY <1>1, <2>1, <2>2, <3>1, <3>2, <3>3 DEF Vanishes
  <2> QED BY <2>3, <2>4
<1> QED BY <1>1, <1>2, <1>3, VanishParts

LEMMA NextVanish ==
    ASSUME AliasesStay, Undisturbed, Typed, Exclusive, AllOnTrack, AllInStep, AllVanish,
           [Next]_vars
    PROVE  AllVanish'
<1>1. CASE UNCHANGED vars
  BY <1>1 DEF vars, AllVanish, Vanishes, NoBlock, Awaits, Removes, AtBlock
<1>2. ASSUME NEW w \in Workers, NEW a \in Apps, NEW op \in {"create", "submit"},
             Create(w, a, op)
      PROVE  AllVanish'
  <2>1. op = "create"
    BY <1>2, OpsKnown, StayIsPrivileged DEF Create
  <2> QED BY <1>2, <2>1, BeginVanish
<1>3. \A a \in Apps : ~Purge(a)
  BY StayIsPrivileged DEF Purge
<1>4. ASSUME NEW w \in Workers, Handle(w) PROVE AllVanish'
  BY <1>4, CommitVanish, LoadVanish, CommandVanish, RecordVanish, NothingLost
     DEF Handle, RunRemote, Command
<1> QED BY <1>1, <1>2, <1>3, <1>4, BeginVanish, LoadVanish, NoMishap DEF Next, Crash

LEMMA VanishIsEnough == AllVanish => BlockGoesWithApp
<1> SUFFICES ASSUME AllVanish, NEW a \in Apps, apps[a].state = "deleted", Settled(a)
             PROVE  file[a] = Absent \/ removal[a] \in {"failed", "reverted", "skipped"}
  BY DEF BlockGoesWithApp
<1>1. ~Awaits(a, "remove") /\ ~Removes(a)
  BY DEF Settled, Awaits, Removes
<1> QED BY <1>1 DEF AllVanish, Vanishes, NoBlock

\* Under the same conditions, and if nobody changes whether an application has an alias
\* nor deletes an account with its applications, the block of a deleted application
\* leaves nginx.conf with it, or the audit log holds a removal that failed, was reverted
\* or skipped: no push that overlaps the deletion brings it back
\* (delete_application, remove_alias).
THEOREM NoneLeftBehind ==
    ASSUME AliasesStay, Undisturbed
    PROVE  Spec => []BlockGoesWithApp
<1>1. PrivilegedOnly
  BY StayIsPrivileged
<1>2. Spec => [](Typed /\ Exclusive /\ AllOnTrack /\ AllInStep)
  BY <1>1, TrackHolds
<1>3. /\ Typed /\ Exclusive /\ AllOnTrack /\ AllInStep /\ AllVanish /\ [Next]_vars
      => AllVanish'
  BY NextVanish
<1> QED BY <1>2, <1>3, InitVanish, VanishIsEnough, PTL DEF Spec
=============================================================================
