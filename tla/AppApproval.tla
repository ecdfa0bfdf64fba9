------------------------------ MODULE AppApproval ------------------------------
(***************************************************************************)
(* One application of the catalogue under review: who may change what,     *)
(* which changes of its owner wait for an administrator, and whom the      *)
(* reverse proxy lets through to it (backend/app/routers/applications.py,  *)
(* repository.py; proxy_check in routers/auth.py).  A request validates    *)
(* its payload against the row it read first, and writes later, in one     *)
(* transaction.  The push to the proxy is ProxyPush; authentication is     *)
(* enabled.                                                                *)
(***************************************************************************)
EXTENDS Naturals

CONSTANTS
    Users,        \* accounts other than the owner and the administrators
    Members,      \* those in a team the application may be shared with
    Aliases,      \* paths under the proxy
    Links,        \* absolute addresses
    Creations,    \* the rows creations ask for
    Payloads,     \* what edits carry: functions on some of Settings
    Threads, NoValue,
    MaxRequests   \* bound: edits served

Urls == Aliases \cup Links
\* Rewriting to the root is staged as activity is; names, ports and icons are not staged.
Stageable == {"url", "active", "auth", "header"}
Settings == Stageable \cup {"private", "shared", "type", "teams", "status"}
Types == {"alias", "embedded", "url"}
Mediated == {"alias", "embedded"}
Statuses == {"pending", "approved", "rejected"}
\* A self-service owner's edits are not reviewed; any owner is neither reviewer nor user.
Actors == {"admin", "selfService", "owner"}

Row == [url : Urls, active : BOOLEAN, auth : BOOLEAN, header : BOOLEAN, private : BOOLEAN,
        shared : SUBSET Users, type : Types, teams : BOOLEAN, status : Statuses]
Values == [url |-> Urls, active |-> BOOLEAN, auth |-> BOOLEAN, header |-> BOOLEAN,
           private |-> BOOLEAN, shared |-> SUBSET Users, type |-> Types, teams |-> BOOLEAN,
           status |-> Statuses]
WellFormed(p) == DOMAIN p \subseteq Settings /\ \A f \in DOMAIN p : p[f] \in Values[f]

ASSUME MembersAssumption == Members \subseteq Users
ASSUME CreationsAssumption == Creations \subseteq Row
ASSUME PayloadsAssumption == \A p \in Payloads : WellFormed(p) /\ DOMAIN p # {}
ASSUME BoundAssumption == MaxRequests \in Nat
ASSUME NoValueAssumption == NoValue \notin Statuses

VARIABLES
    row,       \* the settings in force
    staged,    \* the pending_ columns
    accounts,  \* the state of each account
    req,       \* the edit each thread serves
    served

vars == <<row, staged, accounts, req, served>>

Absent == [status |-> "none"]
Staging == [url : Urls \cup {NoValue}, active : BOOLEAN \cup {NoValue},
            auth : BOOLEAN \cup {NoValue}, header : BOOLEAN \cup {NoValue}]
NothingStaged == [f \in Stageable |-> NoValue]
NoChange == [f \in {} |-> NoValue]

\* What an edit has decided when it starts to write: settings to change, settings to
\* stage, staged values to apply; stale: the row has changed since it was read.
Idle == [actor |-> "none", change |-> NoChange, stage |-> NoChange,
         apply |-> NothingStaged, stale |-> FALSE]

TypeOK ==
    /\ row \in Row \cup {Absent} /\ staged \in Staging
    /\ accounts \in [Users -> {"active", "inactive", "gone"}] /\ served \in 0 .. MaxRequests
    /\ \A h \in Threads :
          /\ req[h].actor \in Actors \cup {"none"} /\ req[h].stale \in BOOLEAN
          /\ WellFormed(req[h].change) /\ WellFormed(req[h].stage)
          /\ DOMAIN req[h].stage \subseteq Stageable /\ req[h].apply \in Staging
    /\ row = Absent => staged = NothingStaged

Init ==
    /\ row = Absent /\ staged = NothingStaged /\ accounts = [u \in Users |-> "active"]
    /\ req = [h \in Threads |-> Idle] /\ served = 0

-----------------------------------------------------------------------------
(* Who gets through.                                                        *)

Exists == row # Absent
Restricted(r) == r.private \/ r.shared # {}

\* can_access_application, for an account that is neither owner nor administrator.
CanAccess(r, u) ==
    /\ r.active /\ r.status = "approved" /\ ~r.private
    /\ u \in r.shared \/ (r.teams /\ u \in Members)

\* proxy_check: the block of nginx names the application and its alias.
Served(r, alias) == r.type = "alias" /\ r.url = alias /\ r.active /\ r.status = "approved"
StrangerPasses(r, alias) == Served(r, alias) /\ ~r.private /\ ~r.auth
UserPasses(r, alias, u) ==
    StrangerPasses(r, alias) \/ (Served(r, alias) /\ accounts[u] = "active" /\ CanAccess(r, u))

-----------------------------------------------------------------------------
(* What a row may ask for, and what a payload makes of the row that is read. *)

\* The row a payload asks for; a restricted application requires authentication.
WithAuth(r) == [r EXCEPT !.auth = @ \/ Restricted(r)]
Asked(p) == [f \in Settings |-> IF f \in DOMAIN p THEN p[f] ELSE row[f]]
Resulting(p) == WithAuth(Asked(p))

\* The header needs an authenticated alias, a restriction a mediated application, and
\* those it is shared with must be active.
HeaderAllowed(r) == r.header => r.type = "alias" /\ r.auth
ScopeAllowed(r, actor) ==
    /\ \A u \in r.shared : accounts[u] = "active"
    /\ Restricted(r) => r.type \in Mediated
    /\ r.private => ~r.teams /\ r.shared = {}
    /\ Restricted(r) \/ r.teams \/ actor = "admin"
UrlAllowed(r) == r.url \in Aliases <=> r.type \in Mediated

StatusAllowed(p, actor) ==
    "status" \in DOMAIN p =>
        /\ actor = "admin"
        /\ p["status"] = "rejected" /\ row.status = "approved" => staged # NothingStaged
AuthAllowed(p) ==
    LET r == Asked(p) IN
    "auth" \in DOMAIN p /\ Restricted(r) /\ r.type = "alias" => p["auth"]

\* An owner's changes of an approved application that wait for an administrator.
StagesAddress(p, actor) ==    \* seeded bug
    IF actor = "owner" /\ row.status = "approved" /\ Asked(p).type = "alias"
    THEN {f \in {"url", "auth", "header"} \cap DOMAIN p : p[f] # row[f]}
    ELSE {}
Stages(p, actor) ==
    IF actor = "owner" /\ row.status = "approved"
    THEN {f \in Stageable \cap DOMAIN p :
             p[f] # row[f] /\ (f = "active" \/ Asked(p).type = "alias")}
    ELSE {}

ChangesScope(p) == \E f \in {"private", "shared"} \cap DOMAIN p : p[f] # row[f]

\* A reviewed owner's edit sends the application back to review unless it is staged.
Status(p, actor) ==
    IF actor = "owner" THEN IF Stages(p, actor) = {} THEN "pending" ELSE "approved"
    ELSE IF "status" \in DOMAIN p THEN p["status"] ELSE NoValue

\* What is not staged is written at once.
Changes(p, actor) ==
    LET status == Status(p, actor)
        live   == (DOMAIN p \ Stages(p, actor))
                  \cup (IF Restricted(Asked(p)) THEN {"auth"} ELSE {})
                  \cup (IF status = NoValue THEN {} ELSE {"status"}) IN
    [f \in live |-> IF f = "status" THEN status ELSE Resulting(p)[f]]

-----------------------------------------------------------------------------
(* The requests.                                                            *)

\* Every transaction that changes the row makes the edits that read it stale.
Overtake(r, s, others) ==
    [h \in Threads |-> IF h \in others /\ req[h] # Idle /\ (r # row \/ s # staged)
                       THEN [req[h] EXCEPT !.stale = TRUE] ELSE req[h]]

\* create_application: administrators and self-service owners need no review.
Create(actor, r) ==
    /\ ~Exists /\ \A h \in Threads : req[h] = Idle
    /\ UrlAllowed(r) /\ ScopeAllowed(r, actor) /\ HeaderAllowed(WithAuth(r))
    /\ row' = [WithAuth(r) EXCEPT !.status = IF actor = "owner" THEN "pending" ELSE "approved"]
    /\ UNCHANGED <<staged, accounts, req, served>>

\* update_application, to its first write.
Begin(h, actor, p) ==
    /\ req[h] = Idle /\ served < MaxRequests /\ Exists
    /\ StatusAllowed(p, actor) /\ AuthAllowed(p)
    /\ ScopeAllowed(Asked(p), actor) /\ HeaderAllowed(Resulting(p))
    /\ "url" \in DOMAIN p => UrlAllowed(Asked(p))
    /\ ~(ChangesScope(p) /\ Stages(p, actor) # {})
    /\ req' = [req EXCEPT ![h] =
          [actor |-> actor, change |-> Changes(p, actor),
           stage |-> [f \in Stages(p, actor) |-> p[f]],
           apply |-> IF actor = "admin" /\ "status" \in DOMAIN p /\ p["status"] = "approved"
                     THEN staged ELSE NothingStaged,
           stale |-> FALSE]]
    /\ served' = served + 1
    /\ UNCHANGED <<row, staged, accounts>>

\* The row after repository.update_application, then with the staged values an approval
\* applies: it re-reads the scope before it applies an authentication or header change.
Edited(c) == [f \in Settings |-> IF f \in DOMAIN c THEN c[f] ELSE row[f]]
ApproveActivityUnasked(r, a) ==    \* seeded bug
    [r EXCEPT !.url = a.url, !.active = a.active]
ApproveActivity(r, a) ==
    [r EXCEPT !.url = IF a.url = NoValue THEN @ ELSE a.url,
              !.active = IF a.active = NoValue THEN @ ELSE a.active]
ApproveAuthAsStaged(r, a) ==    \* seeded bug
    IF a.auth = NoValue THEN r ELSE [r EXCEPT !.auth = a.auth, !.header = @ /\ a.auth]
ApproveAuth(r, a) ==
    IF a.auth = NoValue THEN r
    ELSE LET auth == a.auth \/ Restricted(r)
         IN  [r EXCEPT !.auth = auth, !.header = @ /\ auth]
ApproveHeaderAsStaged(r, a) ==    \* seeded bug
    IF a.header = NoValue THEN r ELSE [r EXCEPT !.header = a.header]
ApproveHeader(r, a) ==
    IF a.header = NoValue THEN r
    ELSE [r EXCEPT !.header = a.header /\ r.type = "alias" /\ r.auth]
Approved(r, a) == ApproveHeader(ApproveAuth(ApproveActivity(r, a), a), a)

\* The pending_ columns after the request: those it stages, without those it applies.
StagedAfterAny(stage, a) ==    \* seeded bug
    [f \in Stageable |-> IF f \in DOMAIN stage THEN stage[f] ELSE NoValue]
StagedAfter(stage, a) ==
    [f \in Stageable |-> IF f \in DOMAIN stage THEN stage[f]
                         ELSE IF a[f] # NoValue THEN NoValue ELSE staged[f]]

\* The row is gone, or an account it is to be shared with is (foreign key): 500, rolled back.
Refused(c) ==
    \/ ~Exists
    \/ "shared" \in DOMAIN c /\ \E u \in c["shared"] : accounts[u] = "gone"

Write(h) ==
    /\ req[h] # Idle /\ ~Refused(req[h].change)
    /\ row' = Approved(Edited(req[h].change), req[h].apply)
    /\ staged' = StagedAfter(req[h].stage, req[h].apply)
    /\ req' = [Overtake(row', staged', Threads \ {h}) EXCEPT ![h] = Idle]
    /\ UNCHANGED <<accounts, served>>

\* Refused, or the database stays locked past the busy timeout.
Fails(h) ==
    /\ req[h] # Idle
    /\ req' = [req EXCEPT ![h] = Idle]
    /\ UNCHANGED <<row, staged, accounts, served>>

\* delete_application; the rows that refer to it go with it.
Delete ==
    /\ Exists
    /\ row' = Absent /\ staged' = NothingStaged
    /\ req' = Overtake(Absent, NothingStaged, Threads)
    /\ UNCHANGED <<accounts, served>>

\* An administrator disables, enables or deletes an account: a share goes with its account.
SetAccount(u, state) ==
    /\ accounts[u] # "gone" /\ accounts[u] # state
    /\ accounts' = [accounts EXCEPT ![u] = state]
    /\ row' = IF Exists /\ state = "gone" THEN [row EXCEPT !.shared = @ \ {u}] ELSE row
    /\ req' = Overtake(row', staged, Threads)
    /\ UNCHANGED <<staged, served>>

Next ==
    \/ \E actor \in Actors, r \in Creations : Create(actor, r)
    \/ \E h \in Threads :
          \/ \E actor \in Actors, p \in Payloads : Begin(h, actor, p)
          \/ Write(h) \/ Fails(h)
    \/ Delete
    \/ \E u \in Users, state \in {"active", "inactive", "gone"} : SetAccount(u, state)

Spec == Init /\ [][Next]_vars

-----------------------------------------------------------------------------
(* Properties.                                                              *)

Finishes(h) == req[h] # Idle /\ req'[h] = Idle

\* An edit of the scope, type, authentication or header (an approval is none) written
\* over a row that has changed since it was validated.
OverwritesBlindly(h) ==
    LET c == req[h].change IN
    /\ req[h].stale
    /\ \/ DOMAIN c \cap {"private", "shared", "type", "header"} # {}
       \/ "auth" \in DOMAIN c /\ ~c["auth"]

\* Once in service, the proxy lets someone through to a restricted application whom its
\* scope excludes.
InService(r) == [r EXCEPT !.active = TRUE, !.status = "approved"]
Exposed(r) ==
    /\ r # Absent /\ Restricted(r)
    /\ \E alias \in Urls :
          \/ StrangerPasses(InService(r), alias)
          \/ \E u \in Users : UserPasses(InService(r), alias, u) /\ ~CanAccess(InService(r), u)

\* Whatever the order of edits, approvals, account deletions and staged changes, only an
\* edit that raced another one opens a private or shared application to others: an
\* approval never does, however old the row it read (update_application's forced
\* authentication, its second read of the scope, proxy_check).
ClosedToStrangers ==
    [][~Exposed(row) /\ Exposed(row') => \E h \in Threads : Finishes(h) /\ OverwritesBlindly(h)]_vars

\* The identity header is asked for only behind the portal's authentication, on an alias:
\* an approval that turns authentication off turns the header off as well, and one that
\* finds authentication off does not turn it on.
Unguarded(r) == r # Absent /\ r.header /\ ~(r.type = "alias" /\ r.auth)
HeaderBehindAuth ==
    [][~Unguarded(row) /\ Unguarded(row') => \E h \in Threads : Finishes(h) /\ OverwritesBlindly(h)]_vars

\* A change an owner has submitted for review goes away only if it is in force, was
\* overridden by the rules for scope and header, was replaced by a newer submission, is
\* gone with its application, or was overlooked by an approval that read the row before.
StagedIsNotLost ==
    [][\A f \in Stageable : staged[f] # NoValue /\ staged'[f] # staged[f] =>
          \/ row' = Absent
          \/ row'[f] = staged[f]
          \/ f = "auth" /\ Restricted(row')
          \/ f = "header" /\ (row'.type # "alias" \/ ~row'.auth)
          \/ \E h \in Threads : Finishes(h) /\ (f \in DOMAIN req[h].stage \/ req[h].stale)]_vars

\* While an alias stays approved, its address, activity, authentication and header do not
\* change by a reviewed owner's edit: such a change waits or takes the application out of
\* service (a forced authentication, and an edit of a row read earlier, excepted).
OwnersChangesWait ==
    [][\A h \in Threads :
          /\ Finishes(h) /\ req[h].actor = "owner" /\ ~req[h].stale
          /\ row # Absent /\ row' # Absent /\ row.type = "alias" /\ row'.type = "alias"
          /\ row.status = "approved" /\ row'.status = "approved"
          => \A f \in Stageable : row'[f] = row[f] \/ (f = "auth" /\ Restricted(row'))]_vars
=============================================================================
