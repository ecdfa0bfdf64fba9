--------------------------- MODULE AppApprovalProofs ---------------------------
(***************************************************************************)
(* Proofs about AppApproval, for any accounts, addresses, payloads, number *)
(* of overlapping edits and bound: type correctness, and that an edit or   *)
(* approval opens a restricted application, or strips the authentication   *)
(* behind its identity header, only if it was written over a row that      *)
(* changed after it was validated; that a staged change is not lost; and   *)
(* that an owner's changes of an approved alias wait.                      *)
(***************************************************************************)
EXTENDS AppApproval, TLAPS

\* What an edit changes or stages: a function on some settings.
AnyValue == UNION {Values[f] : f \in Settings}
Maps == UNION {[D -> AnyValue] : D \in SUBSET Settings}
Requests == [actor : Actors \cup {"none"}, change : Maps, stage : Maps,
             apply : Staging, stale : BOOLEAN]
Typed == TypeOK /\ req \in [Threads -> Requests]

\* A restricted alias that does not ask for authentication.
Lax(r) == r # Absent /\ Restricted(r) /\ ~r.private /\ ~r.auth /\ r.type = "alias"

\* An edit that is not stale has been validated against the row it will be written over.
Validated(h) ==
    LET e == Edited(req[h].change) IN
    /\ Restricted(e) => e.auth
    /\ Unguarded(e) => Unguarded(row)
AllValidated == \A h \in Threads : Exists /\ req[h] # Idle /\ ~req[h].stale => Validated(h)

IInv == Typed /\ AllValidated

-----------------------------------------------------------------------------
(* Types.                                                                   *)

LEMMA ValueTypes ==
    /\ \A f \in Settings : Values[f] \subseteq AnyValue
    /\ DOMAIN Values = Settings
BY DEF AnyValue, Values, Settings, Stageable

\* A function on settings with values of theirs is a change.
LEMMA MapType ==
    ASSUME NEW c, WellFormed(c), c = [f \in DOMAIN c |-> c[f]] PROVE c \in Maps
<1>1. DOMAIN c \in SUBSET Settings /\ \A f \in DOMAIN c : c[f] \in AnyValue
  BY ValueTypes DEF WellFormed
<1>2. c \in [DOMAIN c -> AnyValue]
  BY <1>1
<1> QED BY <1>1, <1>2 DEF Maps

LEMMA NothingType == NothingStaged \in Staging
BY DEF NothingStaged, Staging, Stageable

LEMMA IdleType ==
    /\ Idle \in Requests /\ WellFormed(Idle.change) /\ WellFormed(Idle.stage)
    /\ DOMAIN Idle.stage \subseteq Stageable
<1>1. WellFormed(NoChange) /\ DOMAIN NoChange = {} /\ NoChange = [f \in DOMAIN NoChange |-> NoChange[f]]
  BY DEF WellFormed, NoChange
<1>2. NoChange \in Maps
  BY <1>1, MapType
<1> QED BY <1>1, <1>2, NothingType DEF Idle, Requests

\* The row a change leaves.
LEMMA EditedType ==
    ASSUME row \in Row, NEW c, WellFormed(c) PROVE Edited(c) \in Row
BY DEF WellFormed, Edited, Row, Values, Settings, Stageable

LEMMA AskedType == ASSUME row \in Row, NEW p \in Payloads PROVE Asked(p) \in Row
BY PayloadsAssumption DEF WellFormed, Asked, Row, Values, Settings, Stageable

LEMMA WithAuthType == ASSUME NEW r \in Row PROVE WithAuth(r) \in Row
BY DEF WithAuth, Row, Restricted

LEMMA ApprovedType == ASSUME NEW r \in Row, NEW a \in Staging PROVE Approved(r, a) \in Row
<1>1. ASSUME NEW x \in Row PROVE ApproveActivity(x, a) \in Row
  BY DEF ApproveActivity, Row, Staging
<1>2. ASSUME NEW x \in Row PROVE ApproveAuth(x, a) \in Row
  BY DEF ApproveAuth, Row, Staging, Restricted
<1>3. ASSUME NEW x \in Row PROVE ApproveHeader(x, a) \in Row
  BY DEF ApproveHeader, Row, Staging
<1> QED BY <1>1, <1>2, <1>3 DEF Approved

LEMMA StagedType ==
    ASSUME staged \in Staging, NEW a, NEW s, WellFormed(s), DOMAIN s \subseteq Stageable
    PROVE  StagedAfter(s, a) \in Staging
BY DEF StagedAfter, Staging, WellFormed, Values, Stageable

\* What an edit has decided is well-formed.
LEMMA DecisionType ==
    ASSUME row \in Row, NEW p \in Payloads, NEW actor \in Actors, StatusAllowed(p, actor)
    PROVE  /\ Changes(p, actor) \in Maps /\ WellFormed(Changes(p, actor))
           /\ LET s == [f \in Stages(p, actor) |-> p[f]] IN
              s \in Maps /\ WellFormed(s) /\ DOMAIN s \subseteq Stageable
<1> DEFINE c == Changes(p, actor)
           s == [f \in Stages(p, actor) |-> p[f]]
<1>1. DOMAIN p \subseteq Settings /\ \A f \in DOMAIN p : p[f] \in Values[f]
  BY PayloadsAssumption DEF WellFormed
<1>2. Resulting(p) \in Row
  BY AskedType, WithAuthType DEF Resulting
<1>3. \A f \in Settings : Resulting(p)[f] \in Values[f]
  BY <1>2 DEF Row, Values, Settings, Stageable
<1>4. Status(p, actor) # NoValue => Status(p, actor) \in Statuses
  BY <1>1 DEF Status, Statuses, Values
<1>5. WellFormed(c)
  <2> DEFINE status == Status(p, actor)
             live == (DOMAIN p \ Stages(p, actor))
                     \cup (IF Restricted(Asked(p)) THEN {"auth"} ELSE {})
                     \cup (IF status = NoValue THEN {} ELSE {"status"})
  <2>1. c = [f \in live |-> IF f = "status" THEN status ELSE Resulting(p)[f]]
    BY DEF Changes
  <2>2. live \subseteq Settings
    BY <1>1 DEF Settings, Stageable
  <2>3. Values["status"] = Statuses
    BY DEF Values
  <2>4. "status" \in live => status \in Statuses
    <3>1. CASE "status" \in DOMAIN p
      BY <1>1, <2>3, <3>1 DEF Status, Statuses
    <3>2. CASE "status" \notin DOMAIN p
      BY <1>4, <3>2
    <3> QED BY <3>1, <3>2
  <2> HIDE DEF c, live, status
  <2> QED BY <1>3, <2>1, <2>2, <2>3, <2>4 DEF WellFormed
<1>6. c = [f \in DOMAIN c |-> c[f]]
  BY DEF Changes
<1>7. Stages(p, actor) \subseteq Stageable \cap DOMAIN p
  BY DEF Stages
<1>8. WellFormed(s) /\ DOMAIN s \subseteq Stageable /\ s = [f \in DOMAIN s |-> s[f]]
  BY <1>1, <1>7 DEF WellFormed
<1> HIDE DEF c, s
<1> QED BY <1>5, <1>6, <1>8, MapType DEF c, s

-----------------------------------------------------------------------------
(* What approvals and edits do to a row.                                    *)

LEMMA AbsentIsNoRow == Absent \notin Row
BY DEF Absent, Row, Statuses

\* The proxy lets strangers through to a restricted application exactly if it is an alias
\* that does not ask for authentication; what it grants to accounts, its scope grants.
LEMMA ExposedIsLax == ASSUME NEW r \in Row PROVE Exposed(r) <=> Lax(r)
<1> DEFINE s == InService(r)
<1>1. s \in Row /\ s.active /\ s.status = "approved" /\ s.type = r.type /\ s.url = r.url
      /\ s.private = r.private /\ s.auth = r.auth /\ r.url \in Urls
  BY DEF InService, Row, Statuses
<1> HIDE DEF s
<1>2. \A alias \in Urls : StrangerPasses(s, alias) <=>
         r.type = "alias" /\ r.url = alias /\ ~r.private /\ ~r.auth
  BY <1>1 DEF StrangerPasses, Served
<1>3. \A alias \in Urls, u \in Users :
         UserPasses(s, alias, u) /\ ~CanAccess(s, u) => StrangerPasses(s, alias)
  BY DEF UserPasses
<1> QED BY <1>1, <1>2, <1>3, AbsentIsNoRow DEF Exposed, Lax, s

\* An approval leaves the scope and the type alone, and neither opens a restricted
\* application nor leaves the header without authentication.
LEMMA ApprovalKeeps ==
    ASSUME NEW r \in Row, NEW a \in Staging
    PROVE  /\ Lax(Approved(r, a)) => Lax(r)
           /\ Unguarded(Approved(r, a)) => Unguarded(r)
<1> DEFINE x == ApproveActivity(r, a)
           y == ApproveAuth(x, a)
<1>1. /\ x \in Row /\ x.type = r.type /\ x.private = r.private /\ x.shared = r.shared
      /\ x.auth = r.auth /\ x.header = r.header
  BY DEF ApproveActivity, Row, Staging
<1> HIDE DEF x
<1>2. /\ y \in Row /\ y.type = x.type /\ y.private = x.private /\ y.shared = x.shared
      /\ Restricted(x) /\ x.auth => y.auth
      /\ y.auth = x.auth \/ (Restricted(x) => y.auth)
      /\ y.header => x.header
      /\ (y.header = x.header /\ y.auth = x.auth) \/ (y.header => y.auth)
  BY <1>1 DEF ApproveAuth, Row, Staging, Restricted
<1> HIDE DEF y
<1>3. LET z == ApproveHeader(y, a) IN
      /\ z.type = y.type /\ z.private = y.private /\ z.shared = y.shared /\ z.auth = y.auth
      /\ z.header = y.header \/ (z.header => y.type = "alias" /\ y.auth)
  BY <1>2 DEF ApproveHeader, Row, Staging
<1>4. Approved(r, a) = ApproveHeader(y, a)
  BY DEF Approved, x, y
<1> QED BY <1>1, <1>2, <1>3, <1>4, AbsentIsNoRow DEF Lax, Unguarded, Restricted

\* An edit that does not overwrite blindly is no more dangerous over a row it did not read.
LEMMA HarmlessEdit ==
    ASSUME row \in Row, NEW c, WellFormed(c),
           DOMAIN c \cap {"private", "shared", "type", "header"} = {},
           "auth" \in DOMAIN c => c["auth"]
    PROVE  LET e == Edited(c) IN
           (Lax(e) => Lax(row)) /\ (Unguarded(e) => Unguarded(row))
<1> DEFINE e == Edited(c)
<1>1. /\ e.private = row.private /\ e.shared = row.shared /\ e.type = row.type
      /\ e.header = row.header /\ (e.auth = row.auth \/ e.auth)
  BY DEF Edited, Settings, Stageable
<1> HIDE DEF e
<1>2. (Lax(e) => Lax(row)) /\ (Unguarded(e) => Unguarded(row))
  BY <1>1, AbsentIsNoRow DEF Lax, Unguarded, Restricted
<1> QED BY <1>2 DEF e

\* What update_application decides keeps a restriction behind authentication, and the
\* header as well unless it was not before.
LEMMA DecisionIsValid ==
    ASSUME row \in Row, NEW p \in Payloads, NEW actor \in Actors, HeaderAllowed(Resulting(p)),
           StatusAllowed(p, actor)
    PROVE  LET e == Edited(Changes(p, actor)) IN
           (Restricted(e) => e.auth) /\ (Unguarded(e) => Unguarded(row))
<1> DEFINE A == Asked(p)
           R == Resulting(p)
           S == Stages(p, actor)
           status == Status(p, actor)
           c == Changes(p, actor)
           e == Edited(c)
<1>1. A \in Row /\ R \in Row
  BY AskedType, WithAuthType DEF Resulting
<1>2. /\ R.private = A.private /\ R.shared = A.shared /\ R.type = A.type
      /\ R.header = A.header /\ R.auth = (A.auth \/ Restricted(A))
  BY <1>1 DEF Resulting, WithAuth, Row
<1>3. /\ "auth" \notin DOMAIN p => A.auth = row.auth
      /\ "auth" \in DOMAIN p => A.auth = p["auth"]
      /\ "header" \notin DOMAIN p => A.header = row.header
      /\ "header" \in DOMAIN p => A.header = p["header"]
      /\ "type" \notin DOMAIN p => A.type = row.type
      /\ "private" \notin DOMAIN p => A.private = row.private
      /\ "shared" \notin DOMAIN p => A.shared = row.shared
  BY DEF Asked, Settings, Stageable
<1>4. /\ "auth" \in DOMAIN c <=> ("auth" \in DOMAIN p /\ "auth" \notin S) \/ Restricted(A)
      /\ "header" \in DOMAIN c <=> "header" \in DOMAIN p /\ "header" \notin S
      /\ \A f \in {"type", "private", "shared"} : f \in DOMAIN c <=> f \in DOMAIN p
      /\ \A f \in DOMAIN c \ {"status"} : c[f] = R[f]
  BY DEF Changes, Stages, Stageable
<1>5. \A f \in Settings : e[f] = IF f \in DOMAIN c THEN c[f] ELSE row[f]
  BY DEF Edited
<1>6. {"auth", "header", "type", "private", "shared"} \subseteq Settings \ {"status"}
  BY DEF Settings, Stageable
<1>7. e.type = A.type /\ e.private = A.private /\ e.shared = A.shared
  BY <1>2, <1>3, <1>4, <1>5, <1>6
<1>8. e.header = IF "header" \in S THEN row.header ELSE A.header
  <2>1. "header" \in S => "header" \in DOMAIN p
    BY DEF Stages
  <2> QED BY <1>2, <1>3, <1>4, <1>5, <1>6, <2>1
<1>9. e.auth = IF Restricted(A) THEN TRUE ELSE IF "auth" \in S THEN row.auth ELSE A.auth
  <2>1. "auth" \in S => "auth" \in DOMAIN p
    BY DEF Stages
  <2>2. A.auth \in BOOLEAN
    BY <1>1 DEF Row
  <2> QED BY <1>2, <1>3, <1>4, <1>5, <1>6, <2>1, <2>2
<1>10. Restricted(e) => e.auth
  BY <1>7, <1>9 DEF Restricted
<1>11. \A f \in {"auth", "header"} :
          f \in S <=> /\ actor = "owner" /\ row.status = "approved" /\ A.type = "alias"
                      /\ A[f] # row[f]
  <2>1. \A f \in {"auth", "header"} : f \in S <=>
           /\ actor = "owner" /\ row.status = "approved" /\ f \in DOMAIN p
           /\ p[f] # row[f] /\ A.type = "alias"
    BY DEF Stages, Stageable
  <2> QED BY <1>3, <2>1
<1>12. A.header => A.type = "alias" /\ (A.auth \/ Restricted(A))
  BY <1>2 DEF HeaderAllowed
<1>13. row.auth \in BOOLEAN /\ row.header \in BOOLEAN /\ A.auth \in BOOLEAN /\ A.header \in BOOLEAN
  BY <1>1 DEF Row
<1> HIDE DEF A, R, S, c, e
<1>14. ASSUME e # Absent, e.header, ~(e.type = "alias" /\ e.auth), ~Unguarded(row) PROVE FALSE
  <2>1. row.header => row.type = "alias" /\ row.auth
    BY <1>14, AbsentIsNoRow DEF Unguarded
  <2>2. CASE "header" \in S
    BY <1>7, <1>8, <1>9, <1>11, <1>13, <1>14, <2>1, <2>2
  <2>3. CASE "header" \notin S
    BY <1>7, <1>8, <1>9, <1>11, <1>12, <1>13, <1>14, <2>1, <2>3
  <2> QED BY <2>2, <2>3
<1>15. Unguarded(e) => Unguarded(row)
  BY <1>14 DEF Unguarded
<1> QED BY <1>10, <1>15 DEF e, c

-----------------------------------------------------------------------------
(* The invariant.                                                           *)

\* One transaction changes the row: the other edits are as before or stale.
LEMMA OvertakeType ==
    ASSUME req \in [Threads -> Requests], NEW r, NEW s, NEW others
    PROVE  LET q == Overtake(r, s, others) IN
           /\ q \in [Threads -> Requests]
           /\ \A h \in Threads :
                 /\ q[h].actor = req[h].actor /\ q[h].change = req[h].change
                 /\ q[h].stage = req[h].stage /\ q[h].apply = req[h].apply
                 /\ q[h].stale \/ q[h] = req[h]
                 /\ h \in others /\ req[h] # Idle /\ (r # row \/ s # staged) => q[h].stale
BY DEF Overtake, Requests

LEMMA InitInv == Init => IInv
<1> SUFFICES ASSUME Init PROVE IInv
  OBVIOUS
<1>1. staged \in Staging /\ row = Absent
  BY NothingType DEF Init
<1>2. req \in [Threads -> Requests] /\ \A h \in Threads : req[h] = Idle
  BY IdleType DEF Init
<1>3. \A h \in Threads :
         /\ req[h].actor \in Actors \cup {"none"} /\ req[h].stale \in BOOLEAN
         /\ WellFormed(req[h].change) /\ WellFormed(req[h].stage)
         /\ DOMAIN req[h].stage \subseteq Stageable /\ req[h].apply \in Staging
  BY <1>2, IdleType DEF Requests
<1>4. TypeOK
  BY <1>1, <1>3, BoundAssumption DEF Init, TypeOK
<1>5. AllValidated
  BY <1>2 DEF AllValidated
<1> QED BY <1>2, <1>4, <1>5 DEF IInv, Typed

LEMMA CreateInv ==
    ASSUME IInv, NEW actor \in Actors, NEW r \in Creations, Create(actor, r)
    PROVE  IInv' /\ ~Lax(row') /\ ~Unguarded(row')
<1> DEFINE x == WithAuth(r)
<1>1. x \in Row /\ (Restricted(x) => x.auth) /\ HeaderAllowed(x)
  <2>1. r \in Row
    BY CreationsAssumption
  <2> QED BY <2>1, WithAuthType DEF WithAuth, Restricted, Row, Create
<1>2. row' = [x EXCEPT !.status = IF actor = "owner" THEN "pending" ELSE "approved"]
  BY DEF Create
<1> HIDE DEF x
<1>3. /\ row' \in Row /\ row'.private = x.private /\ row'.shared = x.shared
      /\ row'.auth = x.auth /\ row'.header = x.header /\ row'.type = x.type
  BY <1>1, <1>2 DEF Row, Statuses
<1>4. ~Lax(row') /\ ~Unguarded(row')
  BY <1>1, <1>3 DEF Lax, Unguarded, Restricted, HeaderAllowed
<1>5. Typed'
  BY <1>3, AbsentIsNoRow DEF Create, IInv, Typed, TypeOK
<1>6. AllValidated'
  BY DEF Create, AllValidated
<1> QED BY <1>4, <1>5, <1>6 DEF IInv

\* One thread's edit changes while the row does not.
LEMMA ThreadMoves ==
    ASSUME IInv, NEW h \in Threads, NEW r \in Requests,
           WellFormed(r.change), WellFormed(r.stage), DOMAIN r.stage \subseteq Stageable,
           req' = [req EXCEPT ![h] = r], UNCHANGED <<row, staged, accounts>>,
           served' \in 0 .. MaxRequests,
           Exists /\ r # Idle /\ ~r.stale =>
               LET e == Edited(r.change) IN
               (Restricted(e) => e.auth) /\ (Unguarded(e) => Unguarded(row))
    PROVE  IInv'
<1>1. req' \in [Threads -> Requests] /\ \A i \in Threads : req'[i] = IF i = h THEN r ELSE req[i]
  BY DEF IInv, Typed
<1>2. Typed'
  BY <1>1 DEF IInv, Typed, TypeOK, Requests
<1>3. AllValidated'
  BY <1>1 DEF IInv, AllValidated, Validated, Exists, Edited
<1> QED BY <1>2, <1>3 DEF IInv

LEMMA BeginInv ==
    ASSUME IInv, NEW h \in Threads, NEW actor \in Actors, NEW p \in Payloads, Begin(h, actor, p)
    PROVE  IInv'
<1> DEFINE a == IF actor = "admin" /\ "status" \in DOMAIN p /\ p["status"] = "approved"
                THEN staged ELSE NothingStaged
           s == [f \in Stages(p, actor) |-> p[f]]
           r == [actor |-> actor, change |-> Changes(p, actor), stage |-> s,
                 apply |-> a, stale |-> FALSE]
<1>1. row \in Row /\ staged \in Staging
  BY DEF Begin, Exists, IInv, Typed, TypeOK
<1>2. /\ Changes(p, actor) \in Maps /\ WellFormed(Changes(p, actor))
      /\ s \in Maps /\ WellFormed(s) /\ DOMAIN s \subseteq Stageable
  BY <1>1, DecisionType DEF Begin
<1>3. a \in Staging
  BY <1>1, NothingType
<1>4. LET e == Edited(Changes(p, actor)) IN
      (Restricted(e) => e.auth) /\ (Unguarded(e) => Unguarded(row))
  BY <1>1, DecisionIsValid DEF Begin
<1>5. req' = [req EXCEPT ![h] = r] /\ UNCHANGED <<row, staged, accounts>>
  BY DEF Begin
<1>6. served' \in 0 .. MaxRequests
  BY BoundAssumption DEF Begin, IInv, Typed, TypeOK
<1> HIDE DEF a, s
<1>7. /\ r \in Requests /\ r.change = Changes(p, actor) /\ r.stage = s
  BY <1>2, <1>3 DEF Requests
<1> HIDE DEF r
<1> QED BY <1>2, <1>4, <1>5, <1>6, <1>7, ThreadMoves

LEMMA FailsInv == ASSUME IInv, NEW h \in Threads, Fails(h) PROVE IInv'
<1>1. served' \in 0 .. MaxRequests
  BY DEF Fails, IInv, Typed, TypeOK
<1> QED BY <1>1, IdleType, ThreadMoves DEF Fails

\* Edits other than stale ones read the row as it is now.
LEMMA OvertakeInv ==
    ASSUME IInv, NEW others, Threads = others \/ \E h \in Threads : others = Threads \ {h} /\ req'[h] = Idle,
           req' \in [Threads -> Requests],
           \A h \in Threads \cap others : req'[h] = Overtake(row', staged', others)[h]
    PROVE  /\ AllValidated'
           /\ \A h \in Threads :
                 /\ WellFormed(req'[h].change) /\ WellFormed(req'[h].stage)
                 /\ DOMAIN req'[h].stage \subseteq Stageable
<1>1. ASSUME NEW h \in Threads
      PROVE  \/ req'[h] = Idle
             \/ /\ req'[h].change = req[h].change /\ req'[h].stage = req[h].stage
                /\ req'[h].stale \/ req'[h] = req[h]
                /\ req[h] # Idle /\ row' # row => req'[h].stale
  BY <1>1, OvertakeType DEF IInv, Typed
<1>2. \A h \in Threads :
         /\ WellFormed(req'[h].change) /\ WellFormed(req'[h].stage)
         /\ DOMAIN req'[h].stage \subseteq Stageable
  BY <1>1, IdleType DEF IInv, Typed, TypeOK
<1>3. ASSUME NEW h \in Threads, Exists', req'[h] # Idle, ~req'[h].stale
      PROVE  Validated(h)'
  <2>1. req'[h] = req[h] /\ row' = row
    BY <1>1, <1>3
  <2>2. Validated(h)
    BY <1>3, <2>1 DEF IInv, AllValidated, Exists
  <2> QED BY <2>1, <2>2 DEF Validated, Edited
<1> QED BY <1>2, <1>3 DEF AllValidated

LEMMA WriteInv == ASSUME IInv, NEW h \in Threads, Write(h) PROVE IInv' /\ row' \in Row
<1>1. /\ row \in Row /\ WellFormed(req[h].change) /\ req[h].apply \in Staging
      /\ WellFormed(req[h].stage) /\ DOMAIN req[h].stage \subseteq Stageable
      /\ staged \in Staging
  BY DEF Write, Refused, Exists, IInv, Typed, TypeOK
<1>2. row' \in Row /\ staged' \in Staging
  BY <1>1, EditedType, ApprovedType, StagedType DEF Write
<1> DEFINE q == Overtake(row', staged', Threads \ {h})
<1>3. q \in [Threads -> Requests]
  BY OvertakeType DEF IInv, Typed
<1>4. req' = [q EXCEPT ![h] = Idle]
  BY DEF Write
<1> HIDE DEF q
<1>5. /\ req' \in [Threads -> Requests] /\ req'[h] = Idle
      /\ \A i \in Threads \ {h} : req'[i] = q[i]
  BY <1>3, <1>4, IdleType
<1>6. /\ AllValidated'
      /\ \A i \in Threads :
            /\ WellFormed(req'[i].change) /\ WellFormed(req'[i].stage)
            /\ DOMAIN req'[i].stage \subseteq Stageable
  BY <1>5, OvertakeInv DEF q
<1>7. TypeOK'
  BY <1>2, <1>5, <1>6, AbsentIsNoRow DEF Write, IInv, Typed, TypeOK, Requests
<1> QED BY <1>2, <1>5, <1>6, <1>7 DEF IInv, Typed

LEMMA DeleteInv == ASSUME IInv, Delete PROVE IInv'
<1>1. req' = Overtake(row', staged', Threads) /\ row' = Absent /\ staged' = NothingStaged
  BY DEF Delete
<1>2. req' \in [Threads -> Requests]
  BY <1>1, OvertakeType DEF IInv, Typed
<1>3. /\ AllValidated'
      /\ \A i \in Threads :
            /\ WellFormed(req'[i].change) /\ WellFormed(req'[i].stage)
            /\ DOMAIN req'[i].stage \subseteq Stageable
  BY <1>1, <1>2, OvertakeInv
<1>4. TypeOK'
  BY <1>1, <1>2, <1>3, NothingType DEF Delete, IInv, Typed, TypeOK, Requests
<1> QED BY <1>2, <1>3, <1>4 DEF IInv, Typed

\* A share goes with its account: nothing becomes lax.
LEMMA SetAccountInv ==
    ASSUME IInv, NEW u \in Users, NEW state \in {"active", "inactive", "gone"},
           SetAccount(u, state)
    PROVE  /\ IInv'
           /\ row' = Absent \/ row' \in Row
           /\ (Lax(row') => Lax(row)) /\ (Unguarded(row') => Unguarded(row))
<1>1. \/ row' = row
      \/ row \in Row /\ row' = [row EXCEPT !.shared = @ \ {u}]
  BY DEF SetAccount, Exists, IInv, Typed, TypeOK
<1>2. /\ row' \in Row \cup {Absent} /\ (row' = Absent <=> row = Absent)
      /\ (Lax(row') => Lax(row)) /\ (Unguarded(row') => Unguarded(row))
  <2>1. CASE row' = row
    BY <2>1 DEF IInv, Typed, TypeOK
  <2>2. CASE row \in Row /\ row' = [row EXCEPT !.shared = @ \ {u}]
    <3>1. /\ row' \in Row /\ row'.private = row.private /\ row'.auth = row.auth
          /\ row'.type = row.type /\ row'.header = row.header /\ row'.shared \subseteq row.shared
      BY <2>2 DEF Row
    <3> QED BY <2>2, <3>1, AbsentIsNoRow DEF Lax, Unguarded, Restricted
  <2> QED BY <1>1, <2>1, <2>2
<1>3. req' = Overtake(row', staged', Threads) /\ staged' = staged
  BY DEF SetAccount
<1>4. req' \in [Threads -> Requests]
  BY <1>3, OvertakeType DEF IInv, Typed
<1>5. /\ AllValidated'
      /\ \A i \in Threads :
            /\ WellFormed(req'[i].change) /\ WellFormed(req'[i].stage)
            /\ DOMAIN req'[i].stage \subseteq Stageable
  BY <1>3, <1>4, OvertakeInv
<1>6. TypeOK'
  BY <1>2, <1>3, <1>4, <1>5 DEF SetAccount, IInv, Typed, TypeOK, Requests
<1> QED BY <1>2, <1>4, <1>5, <1>6 DEF IInv, Typed

LEMMA StutterInv == ASSUME IInv, UNCHANGED vars PROVE IInv'
BY DEF vars, IInv, Typed, TypeOK, AllValidated, Validated, Exists, Edited, Unguarded, Restricted,
       WellFormed

LEMMA NextInv == IInv /\ [Next]_vars => IInv'
<1> SUFFICES ASSUME IInv, [Next]_vars PROVE IInv'
  OBVIOUS
<1> QED BY StutterInv, CreateInv, BeginInv, WriteInv, FailsInv, DeleteInv, SetAccountInv DEF Next

LEMMA InvHolds == Spec => []IInv
<1> QED BY InitInv, NextInv, PTL DEF Spec

-----------------------------------------------------------------------------
(* The properties.                                                          *)

\* Only an edit that overwrites blindly makes the row lax or its header unguarded.
LEMMA WriteKeeps ==
    ASSUME IInv, NEW h \in Threads, Write(h), ~OverwritesBlindly(h)
    PROVE  (Lax(row') => Lax(row)) /\ (Unguarded(row') => Unguarded(row))
<1> DEFINE c == req[h].change
           e == Edited(c)
<1>1. /\ row \in Row /\ WellFormed(c) /\ req[h].apply \in Staging /\ req[h].stale \in BOOLEAN
      /\ Exists /\ req[h] # Idle
  BY DEF Write, Refused, Exists, IInv, Typed, TypeOK
<1>2. e \in Row /\ row' = Approved(e, req[h].apply)
  BY <1>1, EditedType DEF Write
<1>3. (Lax(row') => Lax(e)) /\ (Unguarded(row') => Unguarded(e))
  BY <1>1, <1>2, ApprovalKeeps
<1>4. (Lax(e) => Lax(row)) /\ (Unguarded(e) => Unguarded(row))
  <2>1. CASE req[h].stale
    BY <1>1, <2>1, HarmlessEdit DEF OverwritesBlindly
  <2>2. CASE ~req[h].stale
    BY <1>1, <2>2 DEF IInv, AllValidated, Validated, Lax
  <2> QED BY <1>1, <2>1, <2>2
<1> QED BY <1>3, <1>4

LEMMA Steps ==
    ASSUME IInv, [Next]_vars, ~\E h \in Threads : Finishes(h) /\ OverwritesBlindly(h)
    PROVE  (Lax(row') => Lax(row)) /\ (Unguarded(row') => Unguarded(row))
<1> DEFINE Goal == (Lax(row') => Lax(row)) /\ (Unguarded(row') => Unguarded(row))
<1>1. CASE row' = row
  BY <1>1
<1>2. CASE Delete
  BY <1>2 DEF Delete, Lax, Unguarded
<1>3. CASE \E actor \in Actors, r \in Creations : Create(actor, r)
  BY <1>3, CreateInv
<1>4. CASE \E u \in Users, state \in {"active", "inactive", "gone"} : SetAccount(u, state)
  BY <1>4, SetAccountInv
<1>5. ASSUME NEW h \in Threads, Write(h) PROVE Goal
  <2>1. Finishes(h)
    <3>1. Overtake(row', staged', Threads \ {h}) \in [Threads -> Requests]
      BY OvertakeType DEF IInv, Typed
    <3> QED BY <1>5, <3>1 DEF Write, Finishes
  <2> QED BY <1>5, <2>1, WriteKeeps
<1>6. row' = row \/ Delete \/ (\E actor \in Actors, r \in Creations : Create(actor, r))
      \/ (\E u \in Users, state \in {"active", "inactive", "gone"} : SetAccount(u, state))
      \/ \E h \in Threads : Write(h)
  BY DEF Next, vars, Begin, Fails
<1> QED BY <1>1, <1>2, <1>3, <1>4, <1>5, <1>6

\* Every variable keeps its type, and an edit changes or stages only settings, to values
\* they may have.
THEOREM TypeCorrect == Spec => []TypeOK
<1>1. IInv => TypeOK
  BY DEF IInv, Typed
<1> QED BY <1>1, InvHolds, PTL

\* Only an edit written over a row that changed after it was validated opens a private or
\* shared application to others; an approval never does (update_application, proxy_check).
THEOREM StaysClosed == Spec => ClosedToStrangers
<1>1. IInv => row \in Row \cup {Absent}
  BY DEF IInv, Typed, TypeOK
<1>2. ASSUME IInv, IInv', [Next]_vars, ~Exposed(row), Exposed(row')
      PROVE  \E h \in Threads : Finishes(h) /\ OverwritesBlindly(h)
  <2>1. row' \in Row /\ (row \in Row \/ row = Absent)
    BY <1>1, <1>2 DEF Exposed, IInv, Typed, TypeOK
  <2>2. Lax(row')
    BY <1>2, <2>1, ExposedIsLax
  <2>3. ~Lax(row)
    BY <1>2, <2>1, ExposedIsLax DEF Lax
  <2> QED BY <1>2, <2>2, <2>3, Steps
<1>3. IInv /\ IInv' /\ [Next]_vars =>
        [~Exposed(row) /\ Exposed(row') => \E h \in Threads : Finishes(h) /\ OverwritesBlindly(h)]_vars
  BY <1>2
<1> QED BY <1>3, InvHolds, PTL DEF Spec, ClosedToStrangers

\* Nor does an edit or an approval leave the identity header without authentication,
\* unless it was written over such a row (update_application).
THEOREM HeaderStaysGuarded == Spec => HeaderBehindAuth
<1>1. IInv /\ [Next]_vars =>
        [~Unguarded(row) /\ Unguarded(row') => \E h \in Threads : Finishes(h) /\ OverwritesBlindly(h)]_vars
  BY Steps
<1> QED BY <1>1, InvHolds, PTL DEF Spec, HeaderBehindAuth

-----------------------------------------------------------------------------
(* Staged changes, and owners' edits.                                       *)

\* An owner's edit that is not stale, of an approved alias that stays one: it changes
\* nothing that is reviewed, unless its scope forces the authentication.
Waits(h) ==
    LET e == Edited(req[h].change) IN
    /\ row.type = "alias" /\ row.status = "approved"
    /\ e.type = "alias" /\ e.status = "approved"
    => \A f \in Stageable : e[f] = row[f] \/ (f = "auth" /\ Restricted(e))

\* What an edit that is not stale applies is what is staged, and an owner applies nothing.
AllCurrent ==
    \A h \in Threads : Exists /\ req[h] # Idle /\ ~req[h].stale =>
        /\ req[h].apply \in {staged, NothingStaged}
        /\ req[h].actor = "owner" => req[h].apply = NothingStaged /\ Waits(h)

\* What update_application decides for an owner.
LEMMA OwnerWaits ==
    ASSUME row \in Row, NEW p \in Payloads,
           row.type = "alias", row.status = "approved",
           Edited(Changes(p, "owner")).type = "alias",
           Edited(Changes(p, "owner")).status = "approved",
           NEW f \in Stageable
    PROVE  LET e == Edited(Changes(p, "owner")) IN
           e[f] = row[f] \/ (f = "auth" /\ Restricted(e))
<1> DEFINE A == Asked(p)
           R == Resulting(p)
           S == Stages(p, "owner")
           status == Status(p, "owner")
           c == Changes(p, "owner")
           e == Edited(c)
<1>1. A \in Row /\ R \in Row
  BY AskedType, WithAuthType DEF Resulting
<1>2. /\ R.private = A.private /\ R.shared = A.shared /\ R.type = A.type
      /\ \A g \in Stageable \ {"auth"} : R[g] = A[g]
      /\ R.auth = (A.auth \/ Restricted(A))
  BY <1>1 DEF Resulting, WithAuth, Row, Stageable
<1>3. \A g \in Settings : A[g] = IF g \in DOMAIN p THEN p[g] ELSE row[g]
  BY DEF Asked
<1>4. DOMAIN c = (DOMAIN p \ S) \cup (IF Restricted(A) THEN {"auth"} ELSE {})
                 \cup (IF status = NoValue THEN {} ELSE {"status"})
  BY DEF Changes
<1>5. /\ "status" \in DOMAIN c => c["status"] = status
      /\ \A g \in DOMAIN c \ {"status"} : c[g] = R[g]
  BY DEF Changes
<1>6. \A g \in Settings : e[g] = IF g \in DOMAIN c THEN c[g] ELSE row[g]
  BY DEF Edited
<1>7. /\ Stageable \subseteq Settings \ {"status"} /\ "status" \in Settings
      /\ {"type", "private", "shared"} \subseteq Settings \ ({"status"} \cup Stageable)
  BY DEF Settings, Stageable
<1>8. S = IF row.status = "approved"
          THEN {g \in Stageable \cap DOMAIN p :
                   p[g] # row[g] /\ (g = "active" \/ A.type = "alias")}
          ELSE {}
  BY DEF Stages
<1> HIDE DEF A, R, S, c, e, status
<1>9. e.type = A.type /\ e.private = A.private /\ e.shared = A.shared
  <2>1. \A g \in {"type", "private", "shared"} : g \in DOMAIN c <=> g \in DOMAIN p
    BY <1>4, <1>7, <1>8
  <2> QED BY <1>2, <1>3, <1>5, <1>6, <1>7, <2>1
<1>10. A.type = "alias" /\ (Restricted(A) <=> Restricted(e))
  BY <1>9 DEF e, c, Restricted
<1> DEFINE Goal == e[f] = row[f] \/ (f = "auth" /\ Restricted(e))
<1>11. ASSUME f \in S PROVE Goal
  <2>1. f \in Settings \ {"status"}
    BY <1>7
  <2> QED BY <1>4, <1>6, <1>10, <1>11, <2>1
<1>12. ASSUME f \notin S PROVE Goal
  <2>1. A[f] = row[f]
    BY <1>3, <1>7, <1>8, <1>10, <1>12
  <2>2. CASE f = "auth" /\ Restricted(A)
    BY <1>10, <2>2
  <2>3. CASE ~(f = "auth" /\ Restricted(A))
    <3>1. R[f] = A[f]
      BY <1>1, <1>2, <2>3 DEF Row
    <3> QED BY <1>5, <1>6, <1>7, <2>1, <3>1
  <2> QED BY <2>2, <2>3
<1> QED BY <1>11, <1>12 DEF e, c

\* What becomes of an edit in a step: it ends, is overtaken, begins, or neither it nor what
\* it read changes.
LEMMA EditSteps ==
    ASSUME IInv, [Next]_vars, NEW h \in Threads
    PROVE  \/ req'[h] = Idle
           \/ req'[h].stale
           \/ \E actor \in Actors, p \in Payloads : Begin(h, actor, p)
           \/ req'[h] = req[h] /\ row' = row /\ staged' = staged
<1> DEFINE Goal == \/ req'[h] = Idle
                   \/ req'[h].stale
                   \/ \E actor \in Actors, p \in Payloads : Begin(h, actor, p)
                   \/ req'[h] = req[h] /\ row' = row /\ staged' = staged
<1>1. ASSUME NEW others, h \in others, req'[h] = Overtake(row', staged', others)[h] PROVE Goal
  BY <1>1 DEF Overtake
<1>2. CASE UNCHANGED vars
  BY <1>2 DEF vars
<1>3. CASE \E actor \in Actors, r \in Creations : Create(actor, r)
  BY <1>3 DEF Create
<1>4. ASSUME NEW i \in Threads, NEW actor \in Actors, NEW p \in Payloads, Begin(i, actor, p)
      PROVE  Goal
  BY <1>4 DEF Begin, IInv, Typed
<1>5. ASSUME NEW i \in Threads, Write(i) PROVE Goal
  <2> DEFINE q == Overtake(row', staged', Threads \ {i})
  <2>1. q \in [Threads -> Requests] /\ req' = [q EXCEPT ![i] = Idle]
    BY <1>5, OvertakeType DEF Write, IInv, Typed
  <2>2. CASE i = h
    BY <2>1, <2>2
  <2>3. CASE i # h
    <3>1. req'[h] = q[h]
      BY <2>1, <2>3
    <3> QED BY <1>1, <2>3, <3>1
  <2> QED BY <2>2, <2>3
<1>6. ASSUME NEW i \in Threads, Fails(i) PROVE Goal
  BY <1>6 DEF Fails, IInv, Typed
<1>7. CASE Delete \/ \E u \in Users, state \in {"active", "inactive", "gone"} : SetAccount(u, state)
  BY <1>1, <1>7 DEF Delete, SetAccount
<1> QED BY <1>2, <1>3, <1>4, <1>5, <1>6, <1>7 DEF Next

LEMMA NextCurrent == IInv /\ AllCurrent /\ [Next]_vars => AllCurrent'
<1> SUFFICES ASSUME IInv, AllCurrent, [Next]_vars,
                    NEW h \in Threads, Exists', req'[h] # Idle, ~req'[h].stale
             PROVE  /\ req'[h].apply \in {staged', NothingStaged}
                    /\ req'[h].actor = "owner" => req'[h].apply = NothingStaged /\ Waits(h)'
  BY DEF AllCurrent
<1>1. CASE req'[h] = req[h] /\ row' = row /\ staged' = staged
  BY <1>1 DEF AllCurrent, Exists, Waits, Edited
<1>2. ASSUME NEW actor \in Actors, NEW p \in Payloads, Begin(h, actor, p)
      PROVE  /\ req'[h].apply \in {staged', NothingStaged}
             /\ req'[h].actor = "owner" => req'[h].apply = NothingStaged /\ Waits(h)'
  <2>1. /\ req'[h].actor = actor /\ req'[h].change = Changes(p, actor)
        /\ req'[h].apply = IF actor = "admin" /\ "status" \in DOMAIN p /\ p["status"] = "approved"
                           THEN staged ELSE NothingStaged
        /\ row' = row /\ staged' = staged /\ row \in Row
    BY <1>2 DEF Begin, Exists, IInv, Typed, TypeOK
  <2>2. actor = "owner" => Waits(h)'
    <3> SUFFICES ASSUME actor = "owner" PROVE Waits(h)'
      OBVIOUS
    <3> QED BY <2>1, OwnerWaits DEF Waits, Edited
  <2> QED BY <2>1, <2>2
<1> QED BY <1>1, <1>2, EditSteps

LEMMA CurrentHolds == Spec => []AllCurrent
<1>1. Init => AllCurrent
  BY DEF Init, AllCurrent
<1> QED BY <1>1, InvHolds, NextCurrent, PTL DEF Spec

\* An approval puts in force what it applies, as far as scope and header allow.
LEMMA ApprovalApplies ==
    ASSUME NEW r \in Row, NEW a \in Staging, NEW f \in Stageable
    PROVE  LET x == Approved(r, a) IN
           /\ a[f] # NoValue => \/ x[f] = a[f]
                                \/ f = "auth" /\ Restricted(x)
                                \/ f = "header" /\ (x.type # "alias" \/ ~x.auth)
           /\ a = NothingStaged => x = r
<1> DEFINE v == ApproveActivity(r, a)
           y == ApproveAuth(v, a)
           x == ApproveHeader(y, a)
<1>1. /\ v \in Row /\ v.type = r.type /\ v.private = r.private /\ v.shared = r.shared
      /\ a.url # NoValue => v.url = a.url
      /\ a.active # NoValue => v.active = a.active
  BY DEF ApproveActivity, Row, Staging
<1>2. a = NothingStaged => v = r
  BY DEF NothingStaged, Stageable, ApproveActivity, Row
<1>3. a = NothingStaged => y = v /\ x = y
  BY DEF NothingStaged, Stageable, ApproveAuth, ApproveHeader
<1> HIDE DEF v
<1>4. /\ y \in Row /\ y.private = v.private /\ y.shared = v.shared
      /\ y.url = v.url /\ y.active = v.active
      /\ a.auth # NoValue => y.auth = a.auth \/ Restricted(v)
  BY <1>1 DEF ApproveAuth, Row, Staging, Restricted
<1> HIDE DEF y
<1>5. /\ x.private = y.private /\ x.shared = y.shared /\ x.url = y.url /\ x.active = y.active
      /\ x.auth = y.auth /\ x.type = y.type
      /\ a.header # NoValue => x.header = a.header \/ x.type # "alias" \/ ~x.auth
  BY <1>4 DEF ApproveHeader, Row, Staging
<1>6. Approved(r, a) = x
  BY DEF Approved, v, y
<1> HIDE DEF x
<1>7. a[f] # NoValue => \/ x[f] = a[f]
                        \/ f = "auth" /\ Restricted(x)
                        \/ f = "header" /\ (x.type # "alias" \/ ~x.auth)
  BY <1>1, <1>4, <1>5 DEF Stageable, Restricted
<1> QED BY <1>2, <1>3, <1>6, <1>7

\* A change submitted for review goes away only if it is in force, was overridden by the
\* rules for scope and header, was replaced, is gone with its application, or was
\* overlooked by an approval of a row read before (repository.update_application).
THEOREM SubmissionsAreKept == Spec => StagedIsNotLost
<1>1. ASSUME IInv, AllCurrent, [Next]_vars, NEW f \in Stageable,
             staged[f] # NoValue, staged'[f] # staged[f]
      PROVE  \/ row' = Absent
             \/ row'[f] = staged[f]
             \/ f = "auth" /\ Restricted(row')
             \/ f = "header" /\ (row'.type # "alias" \/ ~row'.auth)
             \/ \E h \in Threads : Finishes(h) /\ (f \in DOMAIN req[h].stage \/ req[h].stale)
  <2>1. CASE Delete
    BY <2>1 DEF Delete
  <2>2. ASSUME NEW h \in Threads, Write(h), f \notin DOMAIN req[h].stage, ~req[h].stale
        PROVE  \/ row'[f] = staged[f]
               \/ f = "auth" /\ Restricted(row')
               \/ f = "header" /\ (row'.type # "alias" \/ ~row'.auth)
    <3> DEFINE a == req[h].apply
    <3>1. row \in Row /\ WellFormed(req[h].change) /\ a \in Staging /\ req[h] # Idle /\ Exists
      BY <1>1, <2>2 DEF Write, Refused, Exists, IInv, Typed, TypeOK
    <3>2. a[f] # NoValue
      BY <1>1, <2>2 DEF Write, StagedAfter
    <3>3. a[f] = staged[f]
      BY <2>2, <3>1, <3>2, <1>1 DEF AllCurrent, NothingStaged
    <3>4. Edited(req[h].change) \in Row /\ row' = Approved(Edited(req[h].change), a)
      BY <2>2, <3>1, EditedType DEF Write
    <3> QED BY <3>1, <3>2, <3>3, <3>4, ApprovalApplies
  <2>3. ASSUME NEW h \in Threads, Write(h) PROVE Finishes(h)
    <3>1. Overtake(row', staged', Threads \ {h}) \in [Threads -> Requests]
      BY <1>1, OvertakeType DEF IInv, Typed
    <3> QED BY <2>3, <3>1 DEF Write, Finishes
  <2>4. Delete \/ \E h \in Threads : Write(h)
    BY <1>1 DEF Next, vars, Create, Begin, Fails, SetAccount
  <2> QED BY <2>1, <2>2, <2>3, <2>4
<1>2. IInv /\ AllCurrent /\ [Next]_vars =>
        [\A f \in Stageable : staged[f] # NoValue /\ staged'[f] # staged[f] =>
            \/ row' = Absent
            \/ row'[f] = staged[f]
            \/ f = "auth" /\ Restricted(row')
            \/ f = "header" /\ (row'.type # "alias" \/ ~row'.auth)
            \/ \E h \in Threads : Finishes(h) /\ (f \in DOMAIN req[h].stage \/ req[h].stale)]_vars
  BY <1>1
<1> QED BY <1>2, InvHolds, CurrentHolds, PTL DEF Spec, StagedIsNotLost

\* While an alias stays approved, a reviewed owner's edit changes neither its address nor its
\* activity, authentication or header, unless its scope forces the authentication or the row
\* changed after the edit was validated (update_application).
THEOREM OwnersWait == Spec => OwnersChangesWait
<1> DEFINE Due(h) == /\ Finishes(h) /\ req[h].actor = "owner" /\ ~req[h].stale
                     /\ row # Absent /\ row' # Absent /\ row.type = "alias" /\ row'.type = "alias"
                     /\ row.status = "approved" /\ row'.status = "approved"
           Kept == \A f \in Stageable : row'[f] = row[f] \/ (f = "auth" /\ Restricted(row'))
<1>1. ASSUME IInv, AllCurrent, [Next]_vars, NEW h \in Threads, Due(h) PROVE Kept
  <2>1. CASE row' = row
    BY <2>1
  <2>2. CASE Write(h)
    <3> DEFINE e == Edited(req[h].change)
    <3>1. row \in Row /\ WellFormed(req[h].change) /\ req[h] # Idle /\ Exists
      BY <1>1, <2>2 DEF Write, Refused, Exists, IInv, Typed, TypeOK
    <3>2. e \in Row /\ req[h].apply = NothingStaged /\ Waits(h)
      BY <1>1, <3>1, EditedType DEF AllCurrent
    <3>3. row' = Approved(e, NothingStaged)
      BY <2>2, <3>2 DEF Write
    <3> HIDE DEF e
    <3>4. row' = e
      BY <3>2, <3>3, NothingType, ApprovalApplies DEF Stageable
    <3> QED BY <1>1, <3>2, <3>4 DEF Waits, e
  <2>3. ASSUME NEW i \in Threads, Write(i), i # h PROVE FALSE
    <3> DEFINE q == Overtake(row', staged', Threads \ {i})
    <3>1. q \in [Threads -> Requests] /\ req' = [q EXCEPT ![i] = Idle]
      BY <1>1, <2>3, OvertakeType DEF Write, IInv, Typed
    <3>2. req'[h] = q[h]
      BY <2>3, <3>1
    <3>3. q[h] = req[h] \/ q[h].stale
      BY <1>1, OvertakeType DEF IInv, Typed
    <3> QED BY <1>1, <3>2, <3>3 DEF Finishes, Idle
  <2>4. CASE \E u \in Users, state \in {"active", "inactive", "gone"} : SetAccount(u, state)
    <3>1. req'[h] = Overtake(row', staged, Threads)[h]
      BY <2>4 DEF SetAccount
    <3>2. req'[h] = req[h] \/ req'[h].stale
      BY <1>1, <3>1, OvertakeType DEF IInv, Typed
    <3> QED BY <1>1, <3>2 DEF Finishes, Idle
  <2>5. CASE Delete \/ \E actor \in Actors, r \in Creations : Create(actor, r)
    BY <1>1, <2>5 DEF Delete, Create, Exists
  <2>6. \/ row' = row \/ Delete \/ \E actor \in Actors, r \in Creations : Create(actor, r)
        \/ \E u \in Users, state \in {"active", "inactive", "gone"} : SetAccount(u, state)
        \/ \E i \in Threads : Write(i)
    BY <1>1 DEF Next, vars, Begin, Fails
  <2> QED BY <2>1, <2>2, <2>3, <2>4, <2>5, <2>6
<1>2. IInv /\ AllCurrent /\ [Next]_vars => [\A h \in Threads : Due(h) => Kept]_vars
  BY <1>1
<1> QED BY <1>2, InvHolds, CurrentHolds, PTL DEF Spec, OwnersChangesWait
=============================================================================
