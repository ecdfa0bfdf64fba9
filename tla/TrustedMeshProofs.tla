--------------------------- MODULE TrustedMeshProofs ---------------------------
(***************************************************************************)
(* Proofs about TrustedMesh, for any set of guests, addresses and bounds:  *)
(* type correctness, the single-flight slot, and what a remembered         *)
(* signature vouches for.                                                  *)
(***************************************************************************)
EXTENDS TrustedMesh, TLAPS

\* What each job may be, and that the keys of a job that installs them are complete.
OwnKinds(j) == IF j = "worker" THEN {"none", "remesh"} ELSE {"none", "create", "reset"}
KindsFit == \A j \in Jobs : /\ job[j].kind \in OwnKinds(j)
                            /\ job[j].step = "idle" <=> job[j].kind = "none"
KeysFit == \A j \in Jobs : job[j].step = "install" => job[j].keys \in [Peers(j) -> Guests]

IInv == TypeOK /\ KindsFit /\ KeysFit /\ SingleFlight

-----------------------------------------------------------------------------
(* Facts about the operators.                                               *)

\* An idle job is a job.
LEMMA IdleIsJob == Idle \in Job
<1>1. {} \in SUBSET Addresses /\ Idle.keys \in [{} -> Guests]
  BY DEF Idle
<1>2. Idle.keys \in UNION {[I -> Guests] : I \in SUBSET Addresses}
  BY <1>1
<1> QED BY <1>2 DEF Idle, Job, Kinds, Steps, Status, Signatures

\* Who answers at an address is a guest, if anybody does.
LEMMA AtIsGuest == ASSUME NEW a, At(a) # NoGuest PROVE At(a) \in Guests
BY GuestsAssumption DEF At, Running

\* A signature is a set of addresses and key marks.
LEMMA SignatureType ==
    ASSUME TypeOK, NEW set \in SUBSET Guests
    PROVE  Signature(set) \in Signatures
BY AddressAssumption DEF Signature, Signatures, TypeOK

\* The servers a job reads are guests.
LEMMA SeenAreGuests ==
    ASSUME NEW j \in Jobs
    PROVE  /\ Trusted \in SUBSET Guests /\ SeenBy(j) \in SUBSET Guests
           /\ Usable(SeenBy(j)) \in SUBSET Guests
BY DEF Trusted, SeenBy, Usable

\* The peers of a job are addresses.
LEMMA PeersAreAddresses ==
    ASSUME TypeOK, NEW j \in Jobs PROVE Peers(j) \in SUBSET Addresses
<1>1. job[j].set \in SUBSET Guests
  BY DEF TypeOK, Job
<1> QED BY <1>1, AddressAssumption DEF Peers

-----------------------------------------------------------------------------
(* Moves of one job.                                                        *)

\* A job moves to another state of its own kind, or out of the way with its slot.
LEMMA JobMoves ==
    ASSUME IInv, NEW j \in Jobs, job[j].step # "idle",
           NEW r \in Job, r.kind = job[j].kind, r.step # "idle", r.set = job[j].set,
           r.step = "install" => r.keys \in [Peers(j) -> Guests],
           Goes(j, r), inflight' = inflight
    PROVE  job' \in [Jobs -> Job] /\ KindsFit' /\ KeysFit' /\ SingleFlight'
<1>1. job' \in [Jobs -> Job] /\ job' = [job EXCEPT ![j] = r]
  BY DEF IInv, TypeOK, Goes
<1>2. \A i \in Jobs : job'[i] = IF i = j THEN r ELSE job[i]
  BY <1>1 DEF IInv, TypeOK
<1>3. KindsFit'
  BY <1>2 DEF IInv, KindsFit, OwnKinds
<1>4. \A i \in Jobs : Peers(i)' = Peers(i)
  BY <1>2 DEF Peers
<1>5. KeysFit'
  BY <1>2, <1>4 DEF IInv, KeysFit
<1>6. \A i \in Jobs : Holds(i)' <=> Holds(i)
  BY <1>2 DEF Holds
<1>7. SingleFlight'
  BY <1>6 DEF IInv, SingleFlight, Jobs
<1> QED BY <1>1, <1>3, <1>5, <1>7

\* A job ends: the slot it held is free.
LEMMA JobEnds ==
    ASSUME IInv, NEW j \in Jobs, job[j].step # "idle", Goes(j, Idle), Releases(j)
    PROVE  /\ job' \in [Jobs -> Job] /\ inflight' \in BOOLEAN
           /\ KindsFit' /\ KeysFit' /\ SingleFlight'
<1>1. job' \in [Jobs -> Job] /\ job' = [job EXCEPT ![j] = Idle]
  BY IdleIsJob DEF IInv, TypeOK, Goes
<1>2. \A i \in Jobs : job'[i] = IF i = j THEN Idle ELSE job[i]
  BY <1>1 DEF IInv, TypeOK
<1>3. KindsFit'
  BY <1>2 DEF IInv, KindsFit, OwnKinds, Idle
<1>4. \A i \in Jobs \ {j} : Peers(i)' = Peers(i)
  BY <1>2 DEF Peers
<1>5. KeysFit'
  BY <1>2, <1>4 DEF IInv, KeysFit, Idle
<1>6. ~Holds(j)' /\ \A i \in Jobs \ {j} : Holds(i)' <=> Holds(i)
  BY <1>2 DEF Holds, Idle
<1>7. Holds(j) \/ Creating(j)
  BY DEF IInv, KindsFit, OwnKinds, Holds, Creating, Jobs
<1>8. ~(Holds(j) /\ Creating(j))
  BY DEF Holds, Creating
<1>9. inflight' = (inflight /\ Creating(j)) /\ inflight \in BOOLEAN
  BY DEF Releases, IInv, TypeOK
<1>10. SingleFlight'
  BY <1>6, <1>7, <1>8, <1>9 DEF IInv, SingleFlight, Jobs
<1> QED BY <1>1, <1>3, <1>5, <1>9, <1>10

\* A job starts: one that needs the slot takes it, and found it free.
LEMMA JobBegins ==
    ASSUME IInv, NEW j \in Jobs, NEW kind \in OwnKinds(j) \ {"none"},
           job[j].step = "idle", Begin(j, kind), inflight' \in BOOLEAN,
           kind = "create" => inflight' = inflight,
           kind # "create" => ~inflight /\ inflight'
    PROVE  job' \in [Jobs -> Job] /\ KindsFit' /\ KeysFit' /\ SingleFlight'
<1> DEFINE r == [Idle EXCEPT !.kind = kind, !.step = "read"]
<1>1. kind \in Kinds /\ r \in Job /\ r.kind = kind /\ r.step = "read"
  BY IdleIsJob DEF OwnKinds, Kinds, Steps, Job, Idle
<1>2. job' \in [Jobs -> Job] /\ job' = [job EXCEPT ![j] = r]
  BY <1>1 DEF IInv, TypeOK, Begin
<1>3. \A i \in Jobs : job'[i] = IF i = j THEN r ELSE job[i]
  BY <1>2 DEF IInv, TypeOK
<1> HIDE DEF r
<1>4. KindsFit'
  BY <1>1, <1>3 DEF IInv, KindsFit
<1>5. \A i \in Jobs \ {j} : Peers(i)' = Peers(i)
  BY <1>3 DEF Peers
<1>6. KeysFit'
  BY <1>1, <1>3, <1>5 DEF IInv, KeysFit
<1>7. /\ ~Holds(j) /\ \A i \in Jobs \ {j} : Holds(i)' <=> Holds(i)
      /\ Holds(j)' <=> kind # "create"
  BY <1>1, <1>3 DEF Holds, OwnKinds
<1>8. SingleFlight'
  BY <1>7 DEF IInv, SingleFlight, Jobs
<1> QED BY <1>2, <1>4, <1>6, <1>8

\* Nothing happens to the jobs.
LEMMA JobsStay ==
    ASSUME IInv, UNCHANGED <<job, inflight>>
    PROVE  /\ job' \in [Jobs -> Job] /\ inflight' \in BOOLEAN
           /\ KindsFit' /\ KeysFit' /\ SingleFlight'
BY DEF IInv, TypeOK, KindsFit, KeysFit, SingleFlight, Peers, Holds

\* Whether a mishap is counted or not, the count keeps its bound.
LEMMA MishapsType == ASSUME TypeOK, Mishap \/ UNCHANGED mishaps
                     PROVE  mishaps' \in 0 .. MaxMishaps
BY BoundsAssumption DEF TypeOK, Mishap

LEMMA ChangesType == ASSUME TypeOK, Changed \/ UNCHANGED changes
                     PROVE  changes' \in 0 .. MaxChanges
BY BoundsAssumption DEF TypeOK, Changed

LEMMA BecomeType ==
    ASSUME TypeOK, NEW from, NEW to \in RowStates, Become(from, to) \/ UNCHANGED row
    PROVE  row' \in [Guests -> RowStates]
BY DEF TypeOK, Become

-----------------------------------------------------------------------------
(* The invariant.                                                           *)

LEMMA InitInv == Init => IInv
<1> SUFFICES ASSUME Init PROVE IInv
  OBVIOUS
<1>1. TypeOK
  <2>1. row \in [Guests -> RowStates] /\ job \in [Jobs -> Job]
    BY IdleIsJob DEF Init, RowStates
  <2>2. changes \in 0 .. MaxChanges /\ mishaps \in 0 .. MaxMishaps
    BY BoundsAssumption DEF Init
  <2> QED BY <2>1, <2>2, Zenon DEF Init, TypeOK
<1>2. KindsFit /\ KeysFit /\ SingleFlight
  BY DEF Init, KindsFit, KeysFit, SingleFlight, Holds, OwnKinds, Idle, Jobs
<1> QED BY <1>1, <1>2 DEF IInv

\* The owner's servers change, with or without a request that reconciles.
LEMMA ServersInv ==
    ASSUME IInv, NEW g \in Guests, (\E t \in BOOLEAN : Create(g, t)) \/ ChangeRow(g)
    PROVE  IInv'
<1>1. /\ keyed' \in [Guests -> BOOLEAN] /\ mesh' \subseteq Guests \X Guests
      /\ cache' \in Signatures \cup {NoSignature} /\ inflight' = inflight
      /\ inflight' \in BOOLEAN
      /\ changes' \in 0 .. MaxChanges /\ mishaps' \in 0 .. MaxMishaps
  BY ChangesType, MishapsType DEF IInv, TypeOK, Create, ChangeRow, servers, memory
<1>2. row' \in [Guests -> RowStates]
  BY DEF IInv, TypeOK, Create, ChangeRow, Transitions, RowStates
<1>3. CASE UNCHANGED job
  BY <1>1, <1>2, <1>3, JobsStay DEF IInv, TypeOK
<1>4. CASE job["request"].step = "idle" /\ Begin("request", "create")
  <2>1. "request" \in Jobs /\ "create" \in OwnKinds("request") \ {"none"}
    BY DEF Jobs, OwnKinds
  <2> QED BY <1>1, <1>2, <1>4, <2>1, JobBegins DEF IInv, TypeOK
<1> QED BY <1>3, <1>4 DEF Create, ChangeRow

\* A list request takes the slot for the worker, or fails to start it.
LEMMA ListInv == ASSUME IInv, List PROVE IInv'
<1>1. /\ row' \in [Guests -> RowStates]
      /\ keyed' \in [Guests -> BOOLEAN] /\ mesh' \subseteq Guests \X Guests
      /\ cache' \in Signatures \cup {NoSignature} /\ ~inflight
      /\ changes' \in 0 .. MaxChanges /\ mishaps' \in 0 .. MaxMishaps
  BY ChangesType, MishapsType DEF IInv, TypeOK, List, servers
<1>2. CASE UNCHANGED <<inflight, job>>
  BY <1>1, <1>2, JobsStay DEF IInv, TypeOK
<1>3. CASE inflight' = TRUE /\ Begin("worker", "remesh")
  <2>1. "worker" \in Jobs /\ "remesh" \in OwnKinds("worker") \ {"none"}
    BY DEF Jobs, OwnKinds
  <2>2. job["worker"].step = "idle"
    BY <1>1, <2>1 DEF IInv, SingleFlight, Holds, KindsFit, OwnKinds
  <2> QED BY <1>1, <1>3, <2>1, <2>2, JobBegins DEF IInv, TypeOK
<1> QED BY <1>2, <1>3 DEF List

\* A reset takes the slot for its request.
LEMMA ResetInv == ASSUME IInv, Reset PROVE IInv'
<1>1. /\ row' \in [Guests -> RowStates]
      /\ keyed' \in [Guests -> BOOLEAN] /\ mesh' \subseteq Guests \X Guests
      /\ cache' \in Signatures \cup {NoSignature}
      /\ changes' \in 0 .. MaxChanges /\ mishaps' \in 0 .. MaxMishaps
  BY ChangesType, MishapsType DEF IInv, TypeOK, Reset, servers
<1>2. "request" \in Jobs /\ "reset" \in OwnKinds("request") \ {"none"}
  BY DEF Jobs, OwnKinds
<1> QED BY <1>1, <1>2, JobBegins DEF Reset, IInv, TypeOK

LEMMA ReadInv == ASSUME IInv, NEW j \in Jobs, Read(j) PROVE IInv'
<1> DEFINE set == IF job[j].kind = "remesh" THEN Usable(SeenBy(j)) ELSE SeenBy(j)
           r == [job[j] EXCEPT !.set = set, !.sig = Signature(Trusted), !.step = "collect"]
<1>1. /\ keyed' \in [Guests -> BOOLEAN] /\ mesh' \subseteq Guests \X Guests
      /\ cache' \in Signatures \cup {NoSignature}
      /\ changes' \in 0 .. MaxChanges /\ mishaps' \in 0 .. MaxMishaps
  BY ChangesType, MishapsType DEF IInv, TypeOK, Read
<1>2. job[j].step = "read"
  BY DEF Read
<1>3. CASE Ends(j)
  <2>1. row' \in [Guests -> RowStates]
    BY <1>3, BecomeType DEF IInv, Ends, RowStates
  <2> QED BY <1>1, <1>2, <1>3, <2>1, JobEnds DEF IInv, TypeOK, Ends
<1>4. CASE Goes(j, r) /\ UNCHANGED <<inflight, row>>
  <2>1. r \in Job /\ r.kind = job[j].kind /\ r.step = "collect"
    <3>1. set \in SUBSET Guests /\ Signature(Trusted) \in Signatures
      BY SeenAreGuests, SignatureType DEF IInv
    <3>2. job[j] \in Job
      BY DEF IInv, TypeOK
    <3> HIDE DEF set
    <3> QED BY <3>1, <3>2 DEF Job, Steps
  <2>2. job' \in [Jobs -> Job] /\ \A i \in Jobs : job'[i] = IF i = j THEN r ELSE job[i]
    BY <1>4, <2>1 DEF IInv, TypeOK, Goes
  <2> HIDE DEF r
  <2>3. KindsFit'
    BY <1>2, <2>1, <2>2 DEF IInv, KindsFit, OwnKinds
  <2>4. \A i \in Jobs \ {j} : Peers(i)' = Peers(i)
    BY <2>2 DEF Peers
  <2>5. KeysFit'
    BY <2>1, <2>2, <2>4 DEF IInv, KeysFit
  <2>6. \A i \in Jobs : Holds(i)' <=> Holds(i)
    BY <1>2, <2>1, <2>2 DEF Holds
  <2>7. SingleFlight'
    BY <1>4, <2>6 DEF IInv, SingleFlight, Jobs
  <2> QED BY <1>1, <1>4, <2>2, <2>3, <2>5, <2>7 DEF IInv, TypeOK
<1> QED BY <1>3, <1>4 DEF Read

\* A job concludes with any of its outcomes.
LEMMA ConcludesMoves ==
    ASSUME IInv, NEW j \in Jobs, job[j].step # "idle", NEW s \in Status,
           Concludes(j, s), inflight' = inflight
    PROVE  job' \in [Jobs -> Job] /\ KindsFit' /\ KeysFit' /\ SingleFlight'
<1> DEFINE r == [job[j] EXCEPT !.status = s, !.step = "record"]
<1>1. r \in Job /\ r.kind = job[j].kind /\ r.step = "record" /\ r.set = job[j].set
  BY DEF IInv, TypeOK, Job, Steps
<1>2. Goes(j, r)
  BY DEF Concludes
<1> HIDE DEF r
<1> QED BY <1>1, <1>2, JobMoves

LEMMA CollectInv == ASSUME IInv, NEW j \in Jobs, Collect(j) PROVE IInv'
<1> DEFINE r == [job[j] EXCEPT !.keys = [a \in Peers(j) |-> At(a)], !.step = "install"]
<1>1. /\ row' \in [Guests -> RowStates]
      /\ keyed' \in [Guests -> BOOLEAN] /\ mesh' \subseteq Guests \X Guests
      /\ cache' \in Signatures \cup {NoSignature}
      /\ inflight' = inflight /\ inflight' \in BOOLEAN
      /\ changes' \in 0 .. MaxChanges /\ mishaps' \in 0 .. MaxMishaps
  BY ChangesType, MishapsType
     DEF IInv, TypeOK, Collect, servers, memory, NoneFails, SomeFails
<1>2. job[j].step = "collect"
  BY DEF Collect
<1>3. CASE (\A a \in Peers(j) : At(a) # NoGuest) /\ Goes(j, r)
  <2>1. [a \in Peers(j) |-> At(a)] \in [Peers(j) -> Guests]
    BY <1>3, AtIsGuest
  <2>2. [a \in Peers(j) |-> At(a)] \in UNION {[I -> Guests] : I \in SUBSET Addresses}
    BY <2>1, PeersAreAddresses DEF IInv
  <2>3. /\ r \in Job /\ r.kind = job[j].kind /\ r.step = "install"
        /\ r.set = job[j].set /\ r.keys = [a \in Peers(j) |-> At(a)]
    BY <2>2 DEF IInv, TypeOK, Job, Steps
  <2> HIDE DEF r
  <2> QED BY <1>1, <1>2, <1>3, <2>1, <2>3, JobMoves DEF IInv, TypeOK
<1>4. CASE Concludes(j, "failed")
  BY <1>1, <1>2, <1>4, ConcludesMoves DEF Status, IInv, TypeOK
<1> QED BY <1>3, <1>4 DEF Collect

LEMMA InstallInv == ASSUME IInv, NEW j \in Jobs, Install(j) PROVE IInv'
<1>1. /\ row' \in [Guests -> RowStates]
      /\ keyed' \in [Guests -> BOOLEAN]
      /\ cache' \in Signatures \cup {NoSignature}
      /\ inflight' = inflight /\ inflight' \in BOOLEAN
      /\ changes' \in 0 .. MaxChanges /\ mishaps' \in 0 .. MaxMishaps
  BY ChangesType, MishapsType
     DEF IInv, TypeOK, Install, servers, memory, NoneFails, SomeFails
<1>2. job[j].step = "install" /\ job[j].keys \in [Peers(j) -> Guests]
  BY DEF Install, IInv, KeysFit
<1>3. ASSUME NEW pairs \in SUBSET Pairs(j)
      PROVE  Installed(j, pairs) \subseteq Guests \X Guests
  <2> SUFFICES ASSUME NEW q \in pairs, At(q[2]) # NoGuest
               PROVE  job[j].keys[q[1]] \in Guests /\ At(q[2]) \in Guests
    BY DEF Installed
  <2>1. q[1] \in Peers(j)
    BY DEF Pairs
  <2> QED BY <1>2, <2>1, AtIsGuest
<1>4. mesh' \subseteq Guests \X Guests
  <2>1. \E pairs \in SUBSET Pairs(j) : mesh' = mesh \cup Installed(j, pairs)
    BY DEF Install
  <2> QED BY <1>3, <2>1 DEF IInv, TypeOK
<1>5. CASE Goes(j, [job[j] EXCEPT !.step = "verify"])
  <2> DEFINE r == [job[j] EXCEPT !.step = "verify"]
  <2>1. r \in Job /\ r.kind = job[j].kind /\ r.step = "verify" /\ r.set = job[j].set
    BY DEF IInv, TypeOK, Job, Steps
  <2>2. Goes(j, r)
    BY <1>5
  <2> HIDE DEF r
  <2> QED BY <1>1, <1>2, <1>4, <2>1, <2>2, JobMoves DEF IInv, TypeOK
<1>6. CASE Concludes(j, "failed")
  BY <1>1, <1>2, <1>4, <1>6, ConcludesMoves DEF Status, IInv, TypeOK
<1> QED BY <1>5, <1>6 DEF Install

LEMMA VerifyInv == ASSUME IInv, NEW j \in Jobs, Verify(j) PROVE IInv'
<1>1. /\ row' \in [Guests -> RowStates]
      /\ keyed' \in [Guests -> BOOLEAN] /\ mesh' \subseteq Guests \X Guests
      /\ cache' \in Signatures \cup {NoSignature}
      /\ inflight' = inflight /\ inflight' \in BOOLEAN
      /\ changes' \in 0 .. MaxChanges /\ mishaps' \in 0 .. MaxMishaps
  BY ChangesType, MishapsType
     DEF IInv, TypeOK, Verify, servers, memory, NoneFails, SomeFails
<1>2. job[j].step = "verify"
  BY DEF Verify
<1>3. \E s \in Status : Concludes(j, s)
  BY DEF Verify, Status
<1> QED BY <1>1, <1>2, <1>3, ConcludesMoves DEF IInv, TypeOK

LEMMA RecordInv == ASSUME IInv, NEW j \in Jobs, Record(j) PROVE IInv'
<1>1. job[j].step = "record" /\ Ends(j)
  BY DEF Record
<1>2. /\ keyed' \in [Guests -> BOOLEAN] /\ mesh' \subseteq Guests \X Guests
      /\ changes' \in 0 .. MaxChanges /\ mishaps' \in 0 .. MaxMishaps
  BY ChangesType, MishapsType DEF IInv, TypeOK, Record
<1>3. cache' \in Signatures \cup {NoSignature}
  BY DEF IInv, TypeOK, Job, Record
<1>4. row' \in [Guests -> RowStates]
  BY <1>1, BecomeType DEF IInv, Ends, RowStates
<1> QED BY <1>1, <1>2, <1>3, <1>4, JobEnds DEF IInv, TypeOK, Ends

LEMMA RestartInv == ASSUME IInv, Restart PROVE IInv'
<1>1. /\ keyed' \in [Guests -> BOOLEAN] /\ mesh' \subseteq Guests \X Guests
      /\ cache' \in Signatures \cup {NoSignature} /\ inflight' = FALSE
      /\ changes' \in 0 .. MaxChanges /\ mishaps' \in 0 .. MaxMishaps
  BY ChangesType, MishapsType DEF IInv, TypeOK, Restart
<1>2. row' \in [Guests -> RowStates]
  BY BecomeType DEF IInv, Restart, RowStates
<1>3. job' \in [Jobs -> Job] /\ \A j \in Jobs : job'[j] = Idle
  BY IdleIsJob DEF Restart
<1>4. KindsFit' /\ KeysFit' /\ SingleFlight'
  BY <1>1, <1>3 DEF KindsFit, KeysFit, SingleFlight, Holds, OwnKinds, Idle, Jobs
<1> QED BY <1>1, <1>2, <1>3, <1>4 DEF IInv, TypeOK

LEMMA NextInv == IInv /\ [Next]_vars => IInv'
<1> SUFFICES ASSUME IInv, [Next]_vars PROVE IInv'
  OBVIOUS
<1>1. CASE UNCHANGED vars
  BY <1>1, JobsStay DEF vars, servers, memory, IInv, TypeOK
<1>2. CASE \E g \in Guests : (\E t \in BOOLEAN : Create(g, t)) \/ ChangeRow(g)
  BY <1>2, ServersInv
<1>3. CASE List \/ Reset \/ Restart
  BY <1>3, ListInv, ResetInv, RestartInv
<1>4. CASE \E j \in Jobs : Advance(j)
  BY <1>4, ReadInv, CollectInv, InstallInv, VerifyInv, RecordInv DEF Advance
<1> QED BY <1>1, <1>2, <1>3, <1>4 DEF Next

LEMMA InvHolds == Spec => []IInv
<1> QED BY InitInv, NextInv, PTL DEF Spec

\* Every variable keeps its type: what a job installs are keys of guests on guests, and a
\* remembered signature is one of addresses (_mesh_signature, mesh_trusted_group).
THEOREM TypeCorrect == Spec => []TypeOK
<1>1. IInv => TypeOK
  BY DEF IInv
<1> QED BY <1>1, InvHolds, PTL

\* The background worker and an access reset never reconcile one owner's servers at the
\* same time, and the slot is taken exactly while one of them does, for any number of
\* guests, failures and restarts (_maybe_remesh_trusted, reset_server_access).
THEOREM OneReconciles == Spec => []SingleFlight
<1>1. IInv => SingleFlight
  BY DEF IInv
<1> QED BY <1>1, InvHolds, PTL
-----------------------------------------------------------------------------
(* What a remembered signature vouches for.                                 *)

\* No two guests are ever given the same address.  Without it a key lands on whatever
\* answers at an address that was given again, and the theorem below is false.
Apart == \A g, h \in Guests : addr[g] = addr[h] => g = h

\* A guest with an admin key, at an address that a signature marks as keyed.
Signed(sig, g) == keyed[g] /\ <<addr[g], TRUE>> \in sig

\* A job that established its set is about to record it, and the set is meshed; the set
\* of a worker holds every server its signature marks.
JobTold(j) ==
    /\ job[j].status = "established" =>
           /\ job[j].step = "record"
           /\ \A g, h \in job[j].set : g = h \/ <<g, h>> \in mesh
    /\ job[j].kind = "remesh" /\ job[j].step \notin {"idle", "read"} =>
           \A g \in Guests : Signed(job[j].sig, g) => g \in job[j].set

\* Whatever rows a remembered signature marks, trusted today or not, are meshed.
CacheTold == cache # NoSignature =>
    \A g, h \in Guests : Signed(cache, g) /\ Signed(cache, h) => g = h \/ <<g, h>> \in mesh

MInv == (\A j \in Jobs : JobTold(j)) /\ CacheTold

\* With addresses apart, who answers at the address of a guest is that guest.
LEMMA AtItself ==
    ASSUME Apart, NEW g \in Guests, At(addr[g]) # NoGuest PROVE At(addr[g]) = g
<1>1. \E h \in Running : addr[h] = addr[g]
  BY DEF At
<1>2. At(addr[g]) \in Running /\ addr[At(addr[g])] = addr[g]
  BY <1>1 DEF At
<1> QED BY <1>2 DEF Apart, Running

\* Keys are only ever added, admin keys do not change, and a signature is kept or
\* dropped: then the invariant stays, once every job that changed is told again.
LEMMA ToldStays ==
    ASSUME MInv, mesh \subseteq mesh', keyed' = keyed, cache' \in {cache, NoSignature},
           \A j \in Jobs : job'[j] = job[j] \/ JobTold(j)'
    PROVE  MInv'
<1>1. \A j \in Jobs : JobTold(j)'
  BY DEF MInv, JobTold, Signed
<1>2. CacheTold'
  BY DEF MInv, CacheTold, Signed
<1> QED BY <1>1, <1>2 DEF MInv

\* An idle job, one that failed and one that has just begun have nothing to tell.
LEMMA NewTellsNothing ==
    ASSUME NEW j \in Jobs, job'[j].status # "established",
           job'[j].step \in {"idle", "read"} \/ job'[j].kind # "remesh"
    PROVE  JobTold(j)'
BY DEF JobTold

\* A job whose status is not "established" tells what it told of the same set.
LEMMA FailedTellsSet ==
    ASSUME NEW j \in Jobs, JobTold(j), job[j].step \notin {"idle", "read"}, keyed' = keyed,
           job'[j].status # "established", job'[j].kind = job[j].kind,
           job'[j].set = job[j].set, job'[j].sig = job[j].sig
    PROVE  JobTold(j)'
BY DEF JobTold, Signed

\* Only the job that goes changes.
LEMMA OneGoes ==
    ASSUME TypeOK, NEW j \in Jobs, NEW r, Goes(j, r)
    PROVE  job'[j] = r /\ \A i \in Jobs \ {j} : job'[i] = job[i]
BY DEF TypeOK, Goes

LEMMA OneBegins ==
    ASSUME TypeOK, NEW j \in Jobs, NEW kind, Begin(j, kind)
    PROVE  /\ job'[j].step = "read" /\ job'[j].status = "failed"
           /\ \A i \in Jobs \ {j} : job'[i] = job[i]
BY DEF TypeOK, Begin, Idle

LEMMA InitTold == Init => MInv
BY DEF Init, MInv, JobTold, CacheTold, Idle

LEMMA ServersTold ==
    ASSUME IInv, MInv, NEW g \in Guests, (\E t \in BOOLEAN : Create(g, t)) \/ ChangeRow(g)
    PROVE  MInv'
<1>1. mesh' = mesh /\ keyed' = keyed /\ cache' = cache
  BY DEF Create, ChangeRow, memory
<1>2. UNCHANGED job \/ Begin("request", "create")
  BY DEF Create, ChangeRow
<1>3. CASE UNCHANGED job
  BY <1>1, <1>3, ToldStays
<1>4. CASE Begin("request", "create")
  <2>1. "request" \in Jobs /\ TypeOK
    BY DEF Jobs, IInv
  <2> QED BY <1>1, <1>4, <2>1, OneBegins, NewTellsNothing, ToldStays
<1> QED BY <1>2, <1>3, <1>4

LEMMA ListTold == ASSUME IInv, MInv, List PROVE MInv'
<1>1. mesh' = mesh /\ keyed' = keyed /\ cache' = cache
  BY DEF List, servers
<1>2. UNCHANGED job \/ Begin("worker", "remesh")
  BY DEF List
<1>3. "worker" \in Jobs /\ TypeOK
  BY DEF Jobs, IInv
<1>4. CASE UNCHANGED job
  BY <1>1, <1>4, ToldStays
<1>5. CASE Begin("worker", "remesh")
  BY <1>1, <1>3, <1>5, OneBegins, NewTellsNothing, ToldStays
<1> QED BY <1>2, <1>4, <1>5

LEMMA ResetTold == ASSUME IInv, MInv, Reset PROVE MInv'
<1>1. mesh' = mesh /\ keyed' = keyed /\ cache' = NoSignature /\ Begin("request", "reset")
  BY DEF Reset, servers
<1>2. "request" \in Jobs /\ TypeOK
  BY DEF Jobs, IInv
<1> QED BY <1>1, <1>2, OneBegins, NewTellsNothing, ToldStays

LEMMA RestartTold == ASSUME IInv, MInv, Restart PROVE MInv'
<1>1. mesh' = mesh /\ keyed' = keyed /\ cache' = NoSignature
  BY DEF Restart
<1>2. \A j \in Jobs : job'[j].status = "failed" /\ job'[j].step = "idle"
  BY DEF Restart, Idle
<1> QED BY <1>1, <1>2, NewTellsNothing, ToldStays

\* A job that ends has nothing to tell.
LEMMA EndsTold ==
    ASSUME IInv, MInv, NEW j \in Jobs, Ends(j), keyed' = keyed, mesh' = mesh,
           cache' \in {cache, NoSignature}
    PROVE  MInv'
<1>1. job'[j] = Idle /\ \A i \in Jobs \ {j} : job'[i] = job[i]
  BY OneGoes DEF IInv, Ends
<1>2. job'[j].status = "failed" /\ job'[j].step = "idle"
  BY <1>1 DEF Idle
<1> QED BY <1>1, <1>2, NewTellsNothing, ToldStays

LEMMA ReadTold == ASSUME Apart, IInv, MInv, NEW j \in Jobs, Read(j) PROVE MInv'
<1> DEFINE set == IF job[j].kind = "remesh" THEN Usable(SeenBy(j)) ELSE SeenBy(j)
           r == [job[j] EXCEPT !.set = set, !.sig = Signature(Trusted), !.step = "collect"]
<1>1. job[j].step = "read" /\ mesh' = mesh /\ keyed' = keyed /\ cache' = cache
  BY DEF Read
<1>2. CASE Ends(j)
  BY <1>1, <1>2, EndsTold
<1>3. CASE Goes(j, r)
  <2>1. /\ r.set = set /\ r.sig = Signature(Trusted) /\ r.step = "collect"
        /\ r.status = job[j].status /\ r.kind = job[j].kind
    BY DEF IInv, TypeOK, Job
  <2>2. job[j].status # "established"
    BY <1>1 DEF MInv, JobTold
  <2>3. job'[j] = r /\ \A i \in Jobs \ {j} : job'[i] = job[i]
    BY <1>3, OneGoes DEF IInv
  <2>4. ASSUME job[j].kind = "remesh", NEW g \in Guests, Signed(Signature(Trusted), g)
        PROVE  g \in set
    <3>1. PICK h \in Trusted : <<addr[h], keyed[h]>> = <<addr[g], TRUE>>
      BY <2>4 DEF Signed, Signature
    <3>2. h = g
      BY <3>1 DEF Apart, Trusted
    <3> QED BY <2>4, <3>1, <3>2 DEF SeenBy, Creating, Usable, Signed
  <2> HIDE DEF r, set
  <2>5. JobTold(j)'
    BY <1>1, <2>1, <2>2, <2>3, <2>4 DEF JobTold, Signed
  <2> QED BY <1>1, <2>3, <2>5, ToldStays
<1> QED BY <1>2, <1>3 DEF Read

\* A job that concludes with anything but success tells what it told.
LEMMA ConcludesTold ==
    ASSUME IInv, MInv, NEW j \in Jobs, job[j].step \notin {"idle", "read"},
           NEW s \in Status \ {"established"}, Concludes(j, s),
           keyed' = keyed, mesh \subseteq mesh', cache' = cache
    PROVE  MInv'
<1> DEFINE r == [job[j] EXCEPT !.status = s, !.step = "record"]
<1>1. job'[j] = r /\ \A i \in Jobs \ {j} : job'[i] = job[i]
  BY OneGoes DEF IInv, Concludes
<1>2. r.status # "established" /\ r.kind = job[j].kind /\ r.set = job[j].set /\ r.sig = job[j].sig
  BY DEF IInv, TypeOK, Job
<1> HIDE DEF r
<1>3. JobTold(j)'
  BY <1>1, <1>2, FailedTellsSet DEF MInv
<1> QED BY <1>1, <1>3, ToldStays

LEMMA CollectTold == ASSUME IInv, MInv, NEW j \in Jobs, Collect(j) PROVE MInv'
<1> DEFINE r == [job[j] EXCEPT !.keys = [a \in Peers(j) |-> At(a)], !.step = "install"]
<1>1. job[j].step = "collect" /\ mesh' = mesh /\ keyed' = keyed /\ cache' = cache
  BY DEF Collect, servers, memory
<1>2. CASE Concludes(j, "failed")
  BY <1>1, <1>2, ConcludesTold DEF Status
<1>3. CASE Goes(j, r)
  <2>1. job[j].status # "established"
    BY <1>1 DEF MInv, JobTold
  <2>2. job'[j] = r /\ \A i \in Jobs \ {j} : job'[i] = job[i]
    BY <1>3, OneGoes DEF IInv
  <2>3. r.status = job[j].status /\ r.kind = job[j].kind /\ r.set = job[j].set /\ r.sig = job[j].sig
    BY DEF IInv, TypeOK, Job
  <2> HIDE DEF r
  <2>4. JobTold(j)'
    BY <1>1, <2>1, <2>2, <2>3, FailedTellsSet DEF MInv
  <2> QED BY <1>1, <2>2, <2>4, ToldStays
<1> QED BY <1>2, <1>3 DEF Collect

LEMMA InstallTold == ASSUME IInv, MInv, NEW j \in Jobs, Install(j) PROVE MInv'
<1> DEFINE r == [job[j] EXCEPT !.step = "verify"]
<1>1. job[j].step = "install" /\ mesh \subseteq mesh' /\ keyed' = keyed /\ cache' = cache
  BY DEF Install, servers, memory
<1>2. CASE Concludes(j, "failed")
  BY <1>1, <1>2, ConcludesTold DEF Status
<1>3. CASE Goes(j, r)
  <2>1. job[j].status # "established"
    BY <1>1 DEF MInv, JobTold
  <2>2. job'[j] = r /\ \A i \in Jobs \ {j} : job'[i] = job[i]
    BY <1>3, OneGoes DEF IInv
  <2>3. r.status = job[j].status /\ r.kind = job[j].kind /\ r.set = job[j].set /\ r.sig = job[j].sig
    BY DEF IInv, TypeOK, Job
  <2> HIDE DEF r
  <2>4. JobTold(j)'
    BY <1>1, <2>1, <2>2, <2>3, FailedTellsSet DEF MInv
  <2> QED BY <1>1, <2>2, <2>4, ToldStays
<1> QED BY <1>2, <1>3 DEF Install

\* A job that connected every pair of its peers has its set meshed.
LEMMA VerifyTold == ASSUME Apart, IInv, MInv, NEW j \in Jobs, Verify(j) PROVE MInv'
<1> DEFINE r == [job[j] EXCEPT !.status = "established", !.step = "record"]
<1>1. job[j].step = "verify" /\ mesh' = mesh /\ keyed' = keyed /\ cache' = cache
  BY DEF Verify, servers, memory
<1>2. CASE Concludes(j, "unverified")
  BY <1>1, <1>2, ConcludesTold DEF Status
<1>3. CASE Concludes(j, "established") /\ \A p \in Pairs(j) : Connects(p)
  <2>1. job'[j] = r /\ \A i \in Jobs \ {j} : job'[i] = job[i]
    BY <1>3, OneGoes DEF IInv, Concludes
  <2>2. /\ r.step = "record" /\ r.kind = job[j].kind
        /\ r.set = job[j].set /\ r.sig = job[j].sig
    BY DEF IInv, TypeOK, Job
  <2>3. ASSUME NEW g \in job[j].set, NEW h \in job[j].set, g # h
        PROVE  <<g, h>> \in mesh
    <3>1. g \in Guests /\ h \in Guests
      BY DEF IInv, TypeOK, Job
    <3>2. addr[g] # addr[h]
      BY <2>3, <3>1 DEF Apart
    <3>3. <<addr[g], addr[h]>> \in Pairs(j)
      BY <2>3, <3>2 DEF Pairs, Peers
    <3>4. /\ At(addr[g]) # NoGuest /\ At(addr[h]) # NoGuest
          /\ <<At(addr[g]), At(addr[h])>> \in mesh
      BY <1>3, <3>3 DEF Connects
    <3> QED BY <3>1, <3>4, AtItself
  <2> HIDE DEF r
  <2>4. \A g \in Guests : keyed'[g] = keyed[g]
    BY <1>1
  <2>5. JobTold(j)'
    BY <1>1, <2>1, <2>2, <2>3 DEF MInv, JobTold, Signed
  <2> QED BY <1>1, <2>1, <2>5, ToldStays
<1> QED BY <1>2, <1>3 DEF Verify

\* The signature that a worker records marks servers of its set only.
LEMMA RecordTold == ASSUME IInv, MInv, NEW j \in Jobs, Record(j) PROVE MInv'
<1>1. job[j].step = "record" /\ mesh' = mesh /\ keyed' = keyed /\ Ends(j)
  BY DEF Record
<1>2. CASE cache' = cache
  BY <1>1, <1>2, EndsTold
<1>3. CASE job[j].kind = "remesh" /\ job[j].status = "established" /\ cache' = job[j].sig
  <2>1. \A g \in Guests : Signed(job[j].sig, g) => g \in job[j].set
    BY <1>1, <1>3 DEF MInv, JobTold
  <2>2. \A g, h \in job[j].set : g = h \/ <<g, h>> \in mesh
    BY <1>3 DEF MInv, JobTold
  <2>3. CacheTold'
    BY <1>1, <1>3, <2>1, <2>2 DEF CacheTold, Signed
  <2>4. job'[j] = Idle /\ \A i \in Jobs \ {j} : job'[i] = job[i]
    BY <1>1, OneGoes DEF IInv, Ends
  <2>5. job'[j].status = "failed" /\ job'[j].step = "idle"
    BY <2>4 DEF Idle
  <2>6. JobTold(j)'
    BY <2>5, NewTellsNothing
  <2>7. \A i \in Jobs : JobTold(i)'
    BY <1>1, <2>4, <2>6 DEF MInv, JobTold, Signed
  <2> QED BY <2>3, <2>7 DEF MInv
<1> QED BY <1>2, <1>3 DEF Record

LEMMA NextTold == Apart => (IInv /\ MInv /\ [Next]_vars => MInv')
<1> SUFFICES ASSUME Apart, IInv, MInv, [Next]_vars PROVE MInv'
  OBVIOUS
<1>1. CASE UNCHANGED vars
  BY <1>1, ToldStays DEF vars, servers, memory
<1>2. CASE \E g \in Guests : (\E t \in BOOLEAN : Create(g, t)) \/ ChangeRow(g)
  BY <1>2, ServersTold
<1>3. CASE List \/ Reset \/ Restart
  BY <1>3, ListTold, ResetTold, RestartTold
<1>4. CASE \E j \in Jobs : Advance(j)
  BY <1>4, ReadTold, CollectTold, InstallTold, VerifyTold, RecordTold DEF Advance
<1> QED BY <1>1, <1>2, <1>3, <1>4 DEF Next

LEMMA ToldIsEnough == IInv /\ MInv => CachedIsMeshed
<1> SUFFICES ASSUME IInv, MInv, cache = Signature(Trusted),
                    NEW g \in Usable(Trusted), NEW h \in Usable(Trusted)
             PROVE  g = h \/ <<g, h>> \in mesh
  BY DEF CachedIsMeshed, Meshed
<1>1. cache # NoSignature
  <2>1. Trusted \in SUBSET Guests
    BY DEF Trusted
  <2> QED BY <2>1, SignatureType, SignatureAssumption DEF IInv, Signatures
<1>2. g \in Guests /\ h \in Guests /\ Signed(cache, g) /\ Signed(cache, h)
  BY DEF Usable, Trusted, Signed, Signature, IInv, TypeOK
<1> QED BY <1>1, <1>2 DEF MInv, CacheTold

\* While no address is given twice, a remembered signature is never an empty promise:
\* when it is the one of the owner's servers today, each of them trusts every other, so
\* leaving out the reconcile loses nothing (_maybe_remesh_trusted, _remesh_worker).
THEOREM CacheIsTrue == ASSUME Apart PROVE Spec => []CachedIsMeshed
<1>1. MInv /\ IInv /\ [Next]_vars => MInv'
  BY NextTold
<1> QED BY <1>1, InitTold, InvHolds, ToldIsEnough, PTL DEF Spec
=============================================================================
