------------------------------ MODULE TrustedMesh ------------------------------
(***************************************************************************)
(* The trusted-access mesh of one owner: every trusted server holds the    *)
(* key of every other.  A creation and a forced reset reconcile it while    *)
(* the caller waits; a list request starts a background worker when the    *)
(* signature of the reachable trusted set is not the one last reconciled   *)
(* (backend/app/routers/provisioning.py over servers.py).  The signatures  *)
(* and the single-flight set live in memory and go with the process.       *)
(***************************************************************************)
EXTENDS Integers, FiniteSets, Functions

CONSTANTS
    Guests,             \* guests ever created, with the records that name them
    Addresses,          \* the addresses guests are reached at
    addr,               \* the address of each; a destroyed guest's may be given again
    NoGuest, NoSignature,
    MaxChanges,         \* bound: changes to the owner's servers, and resets
    MaxMishaps          \* bound: failed commands, lost writes, crashes

ASSUME GuestsAssumption == IsFiniteSet(Guests) /\ NoGuest \notin Guests
ASSUME BoundsAssumption == MaxChanges \in Nat /\ MaxMishaps \in Nat
ASSUME AddressAssumption == addr \in [Guests -> Addresses]
ASSUME SignatureAssumption == \A sig \in SUBSET (Addresses \X BOOLEAN) : sig # NoSignature

VARIABLES
    row,        \* what the database says of each guest's record
    keyed,      \* whether its record resolves to an admin key
    mesh,       \* <<g, h>>: the key of guest g is installed on guest h
    cache,      \* _mesh_signatures of the owner
    inflight,   \* whether the owner is in _mesh_inflight
    job,        \* the background worker and one request that reconciles
    changes, mishaps

servers == <<row, keyed>>
memory  == <<cache, inflight>>
vars    == <<servers, mesh, memory, job, changes, mishaps>>

Jobs   == {"worker", "request"}
Kinds  == {"none", "remesh", "create", "reset"}
Steps  == {"idle", "read", "collect", "install", "verify", "record"}
Status == {"failed", "unverified", "established"}
RowStates == {"none", "untrusted", "creating", "trusted", "pending", "gone", "lost"}

Signatures == SUBSET (Addresses \X BOOLEAN)
Idle == [kind |-> "none", step |-> "idle", set |-> {}, sig |-> {},
         keys |-> [i \in {} |-> NoGuest], status |-> "failed"]
Job  == [kind : Kinds, step : Steps, set : SUBSET Guests, sig : Signatures,
         keys : UNION {[I -> Guests] : I \in SUBSET Addresses}, status : Status]

TypeOK ==
    /\ row \in [Guests -> RowStates]
    /\ keyed \in [Guests -> BOOLEAN]
    /\ mesh \subseteq Guests \X Guests
    /\ cache \in Signatures \cup {NoSignature}
    /\ inflight \in BOOLEAN
    /\ job \in [Jobs -> Job]
    /\ changes \in 0 .. MaxChanges /\ mishaps \in 0 .. MaxMishaps

Init ==
    /\ row = [g \in Guests |-> "none"]
    /\ keyed \in [Guests -> BOOLEAN]
    /\ mesh = {}
    /\ cache = NoSignature
    /\ inflight = FALSE
    /\ job = [j \in Jobs |-> Idle]
    /\ changes = 0 /\ mishaps = 0

-----------------------------------------------------------------------------
(* The owner's servers.                                                     *)

\* Rows without an address, failed or with a deletion pending do not take part.
Trusted == {g \in Guests : row[g] = "trusted"}
Usable(set) == {g \in set : keyed[g]}
Running == {g \in Guests : row[g] \notin {"none", "gone"}}

\* A record that a creation has inserted is seen by that request alone until it commits,
\* and until then nobody else can write.
Creating(j) == job[j].kind = "create"
SeenBy(j)   == IF Creating(j) THEN Trusted \cup {g \in Guests : row[g] = "creating"} ELSE Trusted
WriteLocked == \E j \in Jobs : Creating(j)
Become(from, to) == row' = [g \in Guests |-> IF row[g] = from THEN to ELSE row[g]]

\* _mesh_signature: addresses and key paths; accounts and sudo are the template's.
Signature(set) == {<<addr[g], keyed[g]>> : g \in set}

\* Commands are addressed by IP: whatever runs there now answers.
At(a) == IF \E g \in Running : addr[g] = a THEN CHOOSE g \in Running : addr[g] = a
         ELSE NoGuest

Changed == changes < MaxChanges /\ changes' = changes + 1
Mishap  == mishaps < MaxMishaps /\ mishaps' = mishaps + 1

Begin(j, kind)  == job' = [job EXCEPT ![j] = [Idle EXCEPT !.kind = kind, !.step = "read"]]
Goes(j, r)      == job' = [job EXCEPT ![j] = r]
Concludes(j, s) == Goes(j, [job[j] EXCEPT !.status = s, !.step = "record"])

\* A trusted server that is reachable when it is created, or when the address of a VM
\* is entered, is reconciled before the request answers.
Create(g, trusted) ==
    /\ row[g] = "none" /\ At(addr[g]) = NoGuest /\ ~WriteLocked
    /\ row' = [row EXCEPT ![g] = IF trusted THEN "creating" ELSE "untrusted"]
    /\ IF trusted THEN job["request"].step = "idle" /\ Begin("request", "create")
                  ELSE UNCHANGED job
    /\ Changed
    /\ UNCHANGED <<keyed, mesh, memory, mishaps>>

\* Trusted access is switched on for the template of an existing server; a deletion is
\* requested, cancelled, or carried out.
Transitions == {<<"untrusted", "trusted">>, <<"trusted", "pending">>,
                <<"pending", "trusted">>, <<"pending", "gone">>}
ChangeRow(g) ==
    /\ ~WriteLocked
    /\ \E t \in Transitions : row[g] = t[1] /\ row' = [row EXCEPT ![g] = t[2]]
    /\ Changed
    /\ UNCHANGED <<keyed, mesh, memory, job, mishaps>>

-----------------------------------------------------------------------------
(* The single-flight slot.                                                  *)

DueOnce == Cardinality(Trusted) >= 2 /\ cache = NoSignature   \* seeded bug
Due == /\ Cardinality(Trusted) >= 2
       /\ cache # Signature(Trusted)

ListUnguarded ==                                       \* seeded bug
    /\ Due
    /\ job["worker"].step = "idle"
    /\ inflight' = TRUE
    /\ Begin("worker", "remesh")
    /\ UNCHANGED <<servers, mesh, cache, changes, mishaps>>

\* _maybe_remesh_trusted: a failure to start the thread gives the slot back.
List ==
    /\ Due /\ ~inflight
    /\ \/ inflight' = TRUE /\ Begin("worker", "remesh") /\ UNCHANGED mishaps
       \/ Mishap /\ UNCHANGED <<inflight, job>>
    /\ UNCHANGED <<servers, mesh, cache, changes>>

\* Reset access on servers: refused while a reconcile is under way.
Reset ==
    /\ ~inflight /\ Trusted # {}
    /\ job["request"].step = "idle"
    /\ inflight' = TRUE /\ cache' = NoSignature
    /\ Begin("request", "reset")
    /\ Changed
    /\ UNCHANGED <<servers, mesh, mishaps>>

\* The finally clauses of the worker and of the reset.
Releases(j) == inflight' = (inflight /\ Creating(j))
Ends(j) == /\ Goes(j, Idle) /\ Releases(j)
           /\ IF Creating(j) THEN Become("creating", "trusted") ELSE UNCHANGED row

-----------------------------------------------------------------------------
(* One reconcile.                                                           *)

\* The worker leaves out servers without an admin key and stops when fewer than two
\* are left; a request falls back to the key of the server it was made for.
Read(j) ==
    LET set == IF job[j].kind = "remesh" THEN Usable(SeenBy(j)) ELSE SeenBy(j)
    IN  /\ job[j].step = "read"
        /\ IF Cardinality(set) < 2
           THEN Ends(j)
           ELSE /\ Goes(j, [job[j] EXCEPT !.set = set, !.sig = Signature(Trusted),
                                          !.step = "collect"])
                /\ UNCHANGED <<inflight, row>>
        /\ UNCHANGED <<keyed, mesh, cache, changes, mishaps>>

Peers(j) == {addr[g] : g \in job[j].set}
NoneFails(j) == UNCHANGED mishaps
SomeFails(j) == Mishap \/ (job[j].set # Usable(job[j].set) /\ UNCHANGED mishaps)

\* Every peer makes a key pair, once, and its public key is read.
Collect(j) ==
    /\ job[j].step = "collect"
    /\ \/ /\ \A a \in Peers(j) : At(a) # NoGuest
          /\ Goes(j, [job[j] EXCEPT !.keys = [a \in Peers(j) |-> At(a)], !.step = "install"])
          /\ NoneFails(j)
       \/ (\E a \in Peers(j) : At(a) = NoGuest) /\ Concludes(j, "failed") /\ NoneFails(j)
       \/ SomeFails(j) /\ Concludes(j, "failed")
    /\ UNCHANGED <<servers, mesh, memory, changes>>

\* Every key goes to every other peer; one that fails does not stop the others, and the
\* reconcile is a failure.
Pairs(j) == {p \in Peers(j) \X Peers(j) : p[1] # p[2]}
InstalledAnywhere(j, pairs) ==                         \* seeded bug
    {<<job[j].keys[p[1]], At(p[2])>> : p \in pairs}
Installed(j, pairs) ==
    {<<job[j].keys[p[1]], At(p[2])>> : p \in {q \in pairs : At(q[2]) # NoGuest}}
Install(j) ==
    /\ job[j].step = "install"
    /\ \/ /\ mesh' = mesh \cup Installed(j, Pairs(j))
          /\ IF \A a \in Peers(j) : At(a) # NoGuest
             THEN Goes(j, [job[j] EXCEPT !.step = "verify"])
             ELSE Concludes(j, "failed")
          /\ NoneFails(j)
       \/ /\ SomeFails(j)
          /\ \E p \in Pairs(j) : mesh' = mesh \cup Installed(j, Pairs(j) \ {p})
          /\ Concludes(j, "failed")
    /\ UNCHANGED <<servers, memory, changes>>

\* Every directed pair is tried with a real connection.
Connects(p) == At(p[1]) # NoGuest /\ At(p[2]) # NoGuest /\ <<At(p[1]), At(p[2])>> \in mesh
Verify(j) ==
    /\ job[j].step = "verify"
    /\ \/ /\ Concludes(j, IF \A p \in Pairs(j) : Connects(p) THEN "established"
                          ELSE "unverified")
          /\ NoneFails(j)
       \/ SomeFails(j) /\ Concludes(j, "unverified")
    /\ UNCHANGED <<servers, mesh, memory, changes>>

RecordAnyway(j) ==                                     \* seeded bug
    /\ job[j].step = "record"
    /\ cache' = IF job[j].kind = "remesh" THEN job[j].sig ELSE cache
    /\ Ends(j)
    /\ UNCHANGED <<keyed, mesh, changes, mishaps>>

\* The worker remembers the signature it read when all went well; its log may meet a
\* locked database for too long, and then it does not.
Record(j) ==
    /\ job[j].step = "record"
    /\ \/ /\ WriteLocked => Creating(j)
          /\ cache' = IF job[j].kind = "remesh" /\ job[j].status = "established"
                      THEN job[j].sig ELSE cache
          /\ UNCHANGED mishaps
       \/ ~Creating(j) /\ Mishap /\ UNCHANGED cache
    /\ Ends(j)
    /\ UNCHANGED <<keyed, mesh, changes>>

Advance(j) == Read(j) \/ Collect(j) \/ Install(j) \/ Verify(j) \/ Record(j)

\* The process restarts: threads, signatures and the single-flight set are gone; a
\* creation in progress leaves a guest without a record.
Restart ==
    /\ Mishap
    /\ Become("creating", "lost")
    /\ job' = [j \in Jobs |-> Idle]
    /\ cache' = NoSignature /\ inflight' = FALSE
    /\ UNCHANGED <<keyed, mesh, changes>>

Next ==
    \/ \E g \in Guests : (\E t \in BOOLEAN : Create(g, t)) \/ ChangeRow(g)
    \/ List \/ Reset \/ Restart
    \/ \E j \in Jobs : Advance(j)

Spec == Init /\ [][Next]_vars

\* Somebody goes on listing servers, and what runs comes to its end.
FairSpec == Spec /\ WF_vars(List) /\ \A j \in Jobs : WF_vars(Advance(j))

-----------------------------------------------------------------------------
(* Properties.                                                              *)

\* The worker and a reset exclude each other, across failures to start a thread, lost
\* log writes, early returns and restarts: two reconciles would overwrite each other's
\* authorized_keys.
Holds(j) == job[j].step # "idle" /\ job[j].kind \in {"remesh", "reset"}
SingleFlight ==
    /\ ~(Holds("worker") /\ Holds("request"))
    /\ inflight <=> Holds("worker") \/ Holds("request")

Meshed == \A g, h \in Usable(Trusted) : g = h \/ <<g, h>> \in mesh

\* "Nothing new since the last successful reconcile": when the signature of the owner's
\* servers is the remembered one, every server with an admin key trusts every other,
\* whatever was created, withdrawn, cancelled or reset while the worker ran.
CachedIsMeshed == cache = Signature(Trusted) => Meshed

\* The deferred reconciler converges: once servers stop changing and commands stop
\* failing, list requests bring every trusted server to trust every other, for good.
MeshConverges == <>[]Meshed
=============================================================================
