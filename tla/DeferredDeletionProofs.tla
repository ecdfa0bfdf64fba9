------------------------ MODULE DeferredDeletionProofs ------------------------
(***************************************************************************)
(* Proofs, for every set of servers, users and requests, that the module's *)
(* variables keep their types, that sweeps never overlap, that a rolled    *)
(* back request changes nothing, and that no guest is left without a       *)
(* record or an audit entry.                                               *)
(***************************************************************************)
EXTENDS DeferredDeletion, TLAPS

\* A sweep between the destroy of a guest and the settling of its record
\* knows the server, has not used up its quota, and believes the guest gone
\* only if it is.
Settling ==
    \A l \in Listers : lister[l].pc = "settle" =>
        /\ lister[l].cur \in Servers
        /\ lister[l].actioned < MaxPerCall
        /\ lister[l].ok => guest[lister[l].cur] # "present"

\* The same for a force-removal between its destroy and its DELETE.
Forcing ==
    \A h \in Handlers : handler[h].pc # "idle" =>
        /\ handler[h].srv \in Servers
        /\ handler[h].pc = "forced" /\ handler[h].ok => guest[handler[h].srv] # "present"

\* A sweep that runs holds the sweep lock.
LockHeld ==
    \A l \in Listers : lister[l].pc \in {"sweep", "settle"} => sweepLock = l

\* No guest is untracked, before or after the open transaction commits.
Tracked ==
    \A s \in Servers : (~Exists(table[s]) \/ ~Exists(draft[s])) /\ guest[s] = "present"
        => s \in audited

IInv == TypeOK /\ Settling /\ Forcing /\ LockHeld /\ NothingPending /\ Tracked

-----------------------------------------------------------------------------
LEMMA RowFacts == \A r \in Row \cup {NoRow} : Exists(r) <=> r \in Row
  BY NoRowAssumption DEF Exists

LEMMA IdleTypes == IdleLister \in ListerType /\ IdleHandler \in HandlerType
  BY BoundsAssumption
     DEF IdleLister, IdleHandler, ListerType, HandlerType, Table

LEMMA InitIInv == Init => IInv
<1> SUFFICES ASSUME Init PROVE IInv
  OBVIOUS
<1>1. table \in [Servers -> Row]
  BY DEF Init, Row
<1>2. lister \in [Listers -> ListerType] /\ handler \in [Handlers -> HandlerType]
  BY IdleTypes DEF Init
<1>3. TypeOK
  BY <1>1, <1>2, BoundsAssumption DEF Init, TypeOK, Table, Guests
<1>4. Settling /\ Forcing /\ LockHeld
  BY DEF Init, Settling, Forcing, LockHeld, IdleLister, IdleHandler
<1>5. NothingPending
  BY DEF Init, NothingPending
<1>6. Tracked
  <2>1. \A s \in Servers : Exists(table[s]) /\ Exists(draft[s])
    BY <1>1, RowFacts DEF Init
  <2> QED
    BY <2>1 DEF Tracked
<1> QED
  BY <1>3, <1>4, <1>5, <1>6 DEF IInv

-----------------------------------------------------------------------------
(* The sweep.                                                              *)

LEMMA ListingIInv ==
    ASSUME IInv, NEW l \in Listers, Listing(l)
    PROVE  IInv'
<1> USE DEF IInv
<1>1. TypeOK'
  <2>1. lister' \in [Listers -> ListerType]
    BY BoundsAssumption DEF Listing, TypeOK, ListerType, Table
  <2> QED
    BY <2>1 DEF Listing, TypeOK
<1>2. Settling'
  BY DEF Listing, TypeOK, Settling
<1>3. Forcing'
  BY DEF Listing, TypeOK, Forcing
<1>4. LockHeld'
  BY NobodyAssumption DEF Listing, TypeOK, LockHeld
<1>5. NothingPending' /\ Tracked'
  BY DEF Listing, NothingPending, Tracked
<1> QED
  BY <1>1, <1>2, <1>3, <1>4, <1>5

\* What the loop's bookkeeping keeps, whatever was done to row s.
LEMMA ConcludesFacts ==
    ASSUME IInv, NEW l \in Listers, NEW s \in Servers, NEW counted \in BOOLEAN,
           lister[l].actioned < MaxPerCall, lister[l].pc \in {"sweep", "settle"},
           Concludes(l, s, counted), guest' = guest, sweepLock' = sweepLock
    PROVE  lister' \in [Listers -> ListerType] /\ Settling' /\ LockHeld'
<1> USE DEF IInv
<1>1. lister' \in [Listers -> ListerType]
  <2>1. lister[l] \in ListerType
    BY DEF TypeOK
  <2>2. lister[l].actioned + 1 \in 0 .. MaxPerCall
    BY <2>1, BoundsAssumption DEF ListerType
  <2> QED
    BY <2>1, <2>2 DEF Concludes, TypeOK, ListerType
<1>2. Settling'
  BY DEF Concludes, TypeOK, Settling
<1>3. LockHeld'
  BY DEF Concludes, TypeOK, LockHeld
<1> QED
  BY <1>1, <1>2, <1>3

LEMMA MarkFailedIInv ==
    ASSUME IInv, NEW l \in Listers, NEW s \in Servers, MarkFailed(l, s),
           lister[l].actioned < MaxPerCall, lister[l].pc \in {"sweep", "settle"},
           UNCHANGED <<table, guest, provider, accounts, sweepLock, handler,
                       audited, faults>>
    PROVE  IInv'
<1> USE DEF IInv
<1>1. lister' \in [Listers -> ListerType] /\ Settling' /\ LockHeld'
  BY ConcludesFacts DEF MarkFailed
<1>2. CASE Matches(l, s) /\ CanWrite(l) /\ writer' = l
           /\ draft' = [draft EXCEPT ![s].failed = TRUE]
  <2>1. View(l) = draft
    BY <1>2, NobodyAssumption DEF CanWrite, View, NothingPending
  <2>2. draft[s] \in Row
    BY <1>2, <2>1, RowFacts DEF Matches, TypeOK, Table
  <2>3. draft' \in Table /\ draft'[s] \in Row
    BY <1>2, <2>2 DEF TypeOK, Table, Row
  <2>4. TypeOK'
    BY <1>1, <1>2, <2>3 DEF TypeOK
  <2>5. \A x \in Servers : Exists(draft[x]) => Exists(draft'[x])
    BY <1>2, <2>3, RowFacts DEF TypeOK, Table
  <2>6. Tracked' /\ Forcing' /\ NothingPending'
    BY <1>2, <2>5 DEF Tracked, Forcing, NothingPending
  <2> QED
    BY <1>1, <2>4, <2>6
<1>3. CASE UNCHANGED <<draft, writer>>
  BY <1>1, <1>3 DEF TypeOK, Tracked, Forcing, NothingPending
<1> QED
  BY <1>2, <1>3 DEF MarkFailed

LEMMA RemoveRowIInv ==
    ASSUME IInv, NEW l \in Listers, NEW s \in Servers, RemoveRow(l, s),
           lister[l].actioned < MaxPerCall, lister[l].pc \in {"sweep", "settle"},
           guest[s] # "present",
           UNCHANGED <<table, guest, provider, accounts, sweepLock, handler,
                       audited, faults>>
    PROVE  IInv'
<1> USE DEF IInv
<1>1. lister' \in [Listers -> ListerType] /\ Settling' /\ LockHeld'
  BY ConcludesFacts DEF RemoveRow
<1>2. CASE writer' = l /\ draft' \in {draft, [draft EXCEPT ![s] = NoRow]}
  <2>1. draft' \in Table
    BY <1>2 DEF TypeOK, Table
  <2>2. TypeOK'
    BY <1>1, <1>2, <2>1 DEF TypeOK
  <2>3. \A x \in Servers \ {s} : draft'[x] = draft[x]
    BY <1>2 DEF TypeOK, Table
  <2>4. Tracked' /\ Forcing' /\ NothingPending'
    BY <1>2, <2>3 DEF Tracked, Forcing, NothingPending
  <2> QED
    BY <1>1, <2>2, <2>4
<1>3. CASE UNCHANGED <<draft, writer>>
  BY <1>1, <1>3 DEF TypeOK, Tracked, Forcing, NothingPending
<1> QED
  BY <1>2, <1>3 DEF RemoveRow

LEMMA DestroyIInv ==
    ASSUME IInv, NEW l \in Listers, NEW s \in Servers, Destroy(l, s)
    PROVE  IInv'
<1> USE DEF IInv
<1>1. lister[l] \in ListerType /\ lister[l].actioned < MaxPerCall
      /\ lister[l].pc = "sweep"
  BY DEF Destroy, Reaches, TypeOK
<1>2. PICK b \in BOOLEAN :
         lister' = [lister EXCEPT ![l].pc = "settle", ![l].cur = s, ![l].ok = b]
         /\ (b => guest'[s] # "present")
  <2>1. guest \in [Servers -> Guests]
    BY DEF TypeOK
  <2>2. CASE guest' = [guest EXCEPT ![s] = IF @ = "present" THEN "swept" ELSE @]
             /\ lister' = [lister EXCEPT ![l].pc = "settle", ![l].cur = s, ![l].ok = TRUE]
    BY <2>1, <2>2
  <2>3. CASE UNCHANGED guest
             /\ lister' = [lister EXCEPT ![l].pc = "settle", ![l].cur = s, ![l].ok = FALSE]
    BY <2>3
  <2> QED
    BY <2>2, <2>3 DEF Destroy
<1>3. guest' \in [Servers -> Guests]
      /\ \A x \in Servers : guest'[x] = "present" => guest[x] = "present"
  BY DEF Destroy, TypeOK, Guests
<1>4. lister' \in [Listers -> ListerType]
  BY <1>1, <1>2 DEF TypeOK, ListerType
<1>5. TypeOK'
  BY <1>3, <1>4 DEF Destroy, TypeOK
<1>6. Settling'
  BY <1>1, <1>2, <1>3 DEF Settling, TypeOK
<1>7. LockHeld'
  BY <1>1, <1>2 DEF Destroy, LockHeld, TypeOK
<1>8. Forcing' /\ Tracked' /\ NothingPending'
  BY <1>3 DEF Destroy, Forcing, Tracked, NothingPending
<1> QED
  BY <1>5, <1>6, <1>7, <1>8

LEMMA SettleIInv ==
    ASSUME IInv, NEW l \in Listers, Settle(l)
    PROVE  IInv'
<1>1. /\ lister[l].cur \in Servers
      /\ lister[l].actioned < MaxPerCall
      /\ lister[l].ok => guest[lister[l].cur] # "present"
  BY DEF IInv, Settle, Settling
<1>2. CASE lister[l].ok
  BY <1>1, <1>2, RemoveRowIInv DEF Settle
<1>3. CASE ~lister[l].ok
  BY <1>1, <1>3, MarkFailedIInv DEF Settle
<1> QED
  BY <1>2, <1>3

\* The end of a request: its transaction commits or rolls back.
LEMMA EndsIInv ==
    ASSUME IInv, NEW l \in Listers, SweepEnds(l) \/ Commit(l) \/ Rollback(l)
    PROVE  IInv'
<1> USE DEF IInv
<1>1. CASE SweepEnds(l)
  <2>1. lister' \in [Listers -> ListerType]
    BY <1>1 DEF SweepEnds, TypeOK, ListerType
  <2>2. TypeOK'
    BY <1>1, <2>1 DEF SweepEnds, TypeOK
  <2>3. LockHeld'
    BY <1>1, NobodyAssumption DEF SweepEnds, LockHeld, TypeOK
  <2> QED
    BY <1>1, <2>2, <2>3
       DEF SweepEnds, TypeOK, Settling, Forcing, NothingPending, Tracked
<1>2. CASE Commit(l) \/ Rollback(l)
  <2>1. lister' = [lister EXCEPT ![l] = IdleLister]
    BY <1>2 DEF Commit, Rollback
  <2>2. lister' \in [Listers -> ListerType] /\ IdleLister.pc = "idle"
    BY <2>1, IdleTypes DEF TypeOK, IdleLister
  <2>3. /\ table' \in {table, draft} /\ draft' \in {table, draft}
        /\ writer' \in {writer, Nobody} /\ faults' \in 0 .. MaxFaults
    BY <1>2, BoundsAssumption DEF Commit, Rollback, TypeOK
  <2>4. TypeOK'
    BY <1>2, <2>2, <2>3 DEF Commit, Rollback, TypeOK
  <2>5. Settling' /\ LockHeld'
    BY <1>2, <2>1, <2>2 DEF Commit, Rollback, Settling, LockHeld, TypeOK
  <2>6. NothingPending'
    BY <1>2 DEF Commit, Rollback, NothingPending
  <2>7. Tracked' /\ Forcing'
    BY <1>2, <2>3 DEF Commit, Rollback, Tracked, Forcing
  <2> QED
    BY <2>4, <2>5, <2>6, <2>7
<1> QED
  BY <1>1, <1>2

-----------------------------------------------------------------------------
(* The handlers.                                                           *)

LEMMA BeginsIInv ==
    ASSUME IInv, NEW h \in Handlers, NEW s \in Servers, Exists(table[s]),
           NEW step \in {"request", "cancel", "force"}, Begins(h, s, step)
    PROVE  IInv'
<1> USE DEF IInv
<1>1. table[s].owner \in Users
  BY RowFacts DEF TypeOK, Table, Row
<1>2. handler' \in [Handlers -> HandlerType]
  BY <1>1 DEF Begins, TypeOK, HandlerType
<1>3. TypeOK'
  BY <1>2 DEF Begins, TypeOK
<1>4. Forcing'
  BY DEF Begins, Forcing, TypeOK
<1> QED
  BY <1>3, <1>4 DEF Begins, Settling, LockHeld, NothingPending, Tracked

\* A handler that ends leaves the others as they were.
LEMMA EndsFacts ==
    ASSUME IInv, NEW h \in Handlers, Ends(h), guest' = guest
    PROVE  handler' \in [Handlers -> HandlerType] /\ Forcing'
<1> USE DEF IInv
<1>1. handler' \in [Handlers -> HandlerType] /\ IdleHandler.pc = "idle"
  BY IdleTypes DEF Ends, TypeOK, IdleHandler
<1>2. Forcing'
  BY <1>1 DEF Ends, Forcing, TypeOK
<1> QED
  BY <1>1, <1>2

LEMMA WriteScheduleIInv ==
    ASSUME IInv, NEW h \in Handlers,
           WriteRequest(h) \/ WriteCancel(h)
    PROVE  IInv'
<1> USE DEF IInv
<1>1. PICK value \in {0, NotRequested}, step \in {"request", "cancel"} :
         WriteSchedule(h, step, value)
  BY DEF WriteRequest, WriteCancel
<1>2. handler' \in [Handlers -> HandlerType] /\ Forcing'
  BY <1>1, EndsFacts DEF WriteSchedule
<1>3. handler[h].srv \in Servers
  BY <1>1 DEF WriteSchedule, Forcing
<1>4. table' \in Table /\ (\A x \in Servers : Exists(table[x]) => Exists(table'[x]))
  <2> DEFINE s == handler[h].srv
  <2>1. CASE StillOwned(h)
    <3>1. table[s] \in Row
      BY <1>3, <2>1, RowFacts DEF StillOwned, TypeOK, Table
    <3>2. table' = [table EXCEPT ![s].requested = value]
      BY <1>1, <2>1 DEF WriteSchedule, WriteNow
    <3>3. table' \in Table /\ table'[s] \in Row
      BY <1>3, <3>1, <3>2, BoundsAssumption DEF TypeOK, Table, Row
    <3> QED
      BY <1>3, <3>2, <3>3, RowFacts DEF TypeOK, Table
  <2>2. CASE ~StillOwned(h)
    BY <1>1, <2>2 DEF WriteSchedule, WriteNow, TypeOK
  <2> QED
    BY <2>1, <2>2
<1>5. draft' = table'
  BY <1>1 DEF WriteSchedule, WriteNow
<1>6. TypeOK'
  BY <1>1, <1>2, <1>4, <1>5 DEF WriteSchedule, TypeOK
<1>7. Tracked'
  BY <1>1, <1>4, <1>5 DEF WriteSchedule, Tracked
<1> QED
  BY <1>1, <1>2, <1>5, <1>6, <1>7
     DEF WriteSchedule, Settling, LockHeld, NothingPending

LEMMA ForceDestroyIInv ==
    ASSUME IInv, NEW h \in Handlers, ForceDestroy(h)
    PROVE  IInv'
<1> USE DEF IInv
<1> DEFINE s == handler[h].srv
<1>1. s \in Servers /\ handler[h].pc = "force" /\ handler[h] \in HandlerType
  BY DEF ForceDestroy, Forcing, TypeOK
<1>2. guest' \in [Servers -> Guests]
      /\ \A x \in Servers : guest'[x] = "present" => guest[x] = "present"
  BY <1>1 DEF ForceDestroy, TypeOK, Guests
<1>3. handler' \in [Handlers -> HandlerType]
  BY <1>1 DEF ForceDestroy, TypeOK, HandlerType
<1>4. TypeOK'
  BY <1>2, <1>3 DEF ForceDestroy, TypeOK
<1>5. Forcing'
  <2>1. CASE handler' = [handler EXCEPT ![h].pc = "forced", ![h].ok = TRUE]
             /\ guest' = [guest EXCEPT ![s] = IF @ = "present" THEN "gone" ELSE @]
    <3>1. guest'[s] # "present"
      BY <1>1, <2>1 DEF TypeOK
    <3> QED
      BY <1>1, <1>2, <2>1, <3>1 DEF Forcing, TypeOK
  <2>2. CASE handler' = [handler EXCEPT ![h].pc = "forced", ![h].ok = FALSE]
             /\ UNCHANGED guest
    BY <1>1, <2>2 DEF Forcing, TypeOK
  <2> QED
    BY <2>1, <2>2 DEF ForceDestroy
<1> QED
  BY <1>2, <1>4, <1>5
     DEF ForceDestroy, Settling, LockHeld, NothingPending, Tracked, TypeOK

LEMMA ForceDeleteIInv ==
    ASSUME IInv, NEW h \in Handlers, ForceDelete(h)
    PROVE  IInv'
<1> USE DEF IInv
<1> DEFINE s == handler[h].srv
<1>1. /\ s \in Servers
      /\ handler[h].ok => guest[s] # "present"
  BY DEF ForceDelete, Forcing
<1>2. handler' \in [Handlers -> HandlerType] /\ Forcing'
  BY EndsFacts DEF ForceDelete
<1>3. table' \in Table /\ \A x \in Servers \ {s} : table'[x] = table[x]
  BY <1>1 DEF ForceDelete, WriteNow, TypeOK, Table
<1>4. draft' = table'
  BY DEF ForceDelete, WriteNow
<1>5. TypeOK'
  BY <1>1, <1>2, <1>3, <1>4 DEF ForceDelete, TypeOK
<1>6. Tracked'
  BY <1>1, <1>3, <1>4 DEF ForceDelete, Tracked
<1> QED
  BY <1>2, <1>4, <1>5, <1>6 DEF ForceDelete, Settling, LockHeld, NothingPending

LEMMA HandlerTimesOutIInv ==
    ASSUME IInv, NEW h \in Handlers, HandlerTimesOut(h)
    PROVE  IInv'
  BY EndsFacts DEF HandlerTimesOut, IInv, TypeOK, Settling, LockHeld,
                   NothingPending, Tracked

-----------------------------------------------------------------------------
(* What happens around them.                                               *)

LEMMA TransferIInv ==
    ASSUME IInv, NEW u \in Users, NEW v \in Users, TransferServers(u, v)
    PROVE  IInv'
<1> USE DEF IInv
<1>1. \A s \in Servers : /\ table'[s] \in Row \cup {NoRow}
                         /\ Exists(table[s]) => Exists(table'[s])
  <2> TAKE s \in Servers
  <2>1. CASE Exists(table[s]) /\ table[s].owner = u
    <3>1. table[s] \in Row /\ table'[s] = [table[s] EXCEPT !.owner = v]
      BY <2>1, RowFacts DEF TransferServers, WriteNow, TypeOK, Table
    <3>2. table'[s] \in Row
      BY <3>1 DEF Row
    <3> QED
      BY <3>2, RowFacts
  <2>2. CASE ~(Exists(table[s]) /\ table[s].owner = u)
    BY <2>2 DEF TransferServers, WriteNow, TypeOK, Table
  <2> QED
    BY <2>1, <2>2
<1>2. table' \in Table /\ draft' = table'
  <2>1. DOMAIN table' = Servers /\ table' = [s \in Servers |-> table'[s]]
    BY DEF TransferServers, WriteNow
  <2> QED
    BY <1>1, <2>1 DEF TransferServers, WriteNow, Table
<1>3. TypeOK'
  BY <1>2 DEF TransferServers, TypeOK
<1>4. Tracked'
  BY <1>1, <1>2 DEF TransferServers, Tracked
<1> QED
  BY <1>2, <1>3, <1>4
     DEF TransferServers, Settling, Forcing, LockHeld, NothingPending

LEMMA AgedFacts ==
    ASSUME NEW t \in Table
    PROVE  Aged(t) \in Table /\ \A s \in Servers : Exists(t[s]) => Exists(Aged(t)[s])
<1>1. \A s \in Servers : /\ Aged(t)[s] \in Row \cup {NoRow}
                         /\ Exists(t[s]) => Exists(Aged(t)[s])
  <2> TAKE s \in Servers
  <2>1. CASE Exists(t[s]) /\ t[s].requested \in 0 .. (Grace - 1)
    <3>1. t[s] \in Row /\ Aged(t)[s] = [t[s] EXCEPT !.requested = @ + 1]
      BY <2>1, RowFacts DEF Aged, Table
    <3>2. t[s].requested + 1 \in 0 .. Grace
      BY <2>1, BoundsAssumption
    <3>3. Aged(t)[s] \in Row
      BY <3>1, <3>2 DEF Row
    <3> QED
      BY <3>3, RowFacts
  <2>2. CASE ~(Exists(t[s]) /\ t[s].requested \in 0 .. (Grace - 1))
    BY <2>2 DEF Aged, Table
  <2> QED
    BY <2>1, <2>2
<1>2. Aged(t) = [s \in Servers |-> Aged(t)[s]]
  BY DEF Aged
<1> QED
  BY <1>1, <1>2 DEF Table

LEMMA TickIInv ==
    ASSUME IInv, Tick
    PROVE  IInv'
<1> USE DEF IInv
<1>1. table' \in Table /\ \A s \in Servers : Exists(table[s]) => Exists(table'[s])
  BY AgedFacts DEF Tick, TypeOK
<1>2. draft' \in Table /\ \A s \in Servers : Exists(draft[s]) => Exists(draft'[s])
  BY AgedFacts DEF Tick, TypeOK
<1>3. NothingPending'
  BY DEF Tick, NothingPending
<1>4. Tracked'
  BY <1>1, <1>2 DEF Tick, Tracked
<1>5. TypeOK'
  BY <1>1, <1>2 DEF Tick, TypeOK
<1> QED
  BY <1>3, <1>4, <1>5 DEF Tick, Settling, Forcing, LockHeld

LEMMA CrashIInv ==
    ASSUME IInv, Crash
    PROVE  IInv'
<1> USE DEF IInv
<1>1. IdleLister.pc = "idle" /\ IdleHandler.pc = "idle"
  BY DEF IdleLister, IdleHandler
<1>2. TypeOK'
  BY IdleTypes, BoundsAssumption DEF Crash, TypeOK
<1> QED
  BY <1>1, <1>2 DEF Crash, Settling, Forcing, LockHeld, NothingPending, Tracked, TypeOK

LEMMA OutsideIInv ==
    ASSUME IInv,
           ToggleProvider \/ OthersWrite \/ OthersCommit
             \/ (\E s \in Servers : LoseGuest(s))
    PROVE  IInv'
<1> USE DEF IInv
<1>1. CASE ToggleProvider
  BY <1>1 DEF ToggleProvider, TypeOK, Settling, Forcing, LockHeld, NothingPending, Tracked
<1>2. CASE OthersWrite
  <2>1. writer' \in Listers \cup {Nobody, Elsewhere} /\ faults' \in 0 .. MaxFaults
    BY <1>2, BoundsAssumption DEF OthersWrite, TypeOK
  <2>2. NothingPending'
    BY <1>2, NobodyAssumption DEF OthersWrite, NothingPending
  <2> QED
    BY <1>2, <2>1, <2>2 DEF OthersWrite, TypeOK, Settling, Forcing, LockHeld, Tracked
<1>3. CASE OthersCommit
  <2>1. NothingPending'
    BY <1>3, NobodyAssumption DEF OthersCommit, NothingPending
  <2> QED
    BY <1>3, <2>1 DEF OthersCommit, TypeOK, Settling, Forcing, LockHeld, Tracked
<1>4. CASE \E s \in Servers : LoseGuest(s)
  <2>1. guest' \in [Servers -> Guests]
        /\ \A s \in Servers : guest'[s] = "present" => guest[s] = "present"
    BY <1>4 DEF LoseGuest, TypeOK, Guests
  <2>2. TypeOK'
    BY <1>4, <2>1 DEF LoseGuest, TypeOK
  <2>3. Settling' /\ Forcing' /\ Tracked'
    BY <1>4, <2>1 DEF LoseGuest, Settling, Forcing, Tracked, TypeOK
  <2> QED
    BY <1>4, <2>2, <2>3 DEF LoseGuest, LockHeld, NothingPending
<1> QED
  BY <1>1, <1>2, <1>3, <1>4

-----------------------------------------------------------------------------
(* The theorems.                                                           *)

LEMMA NextIInv == IInv /\ [Next]_vars => IInv'
<1> SUFFICES ASSUME IInv, [Next]_vars PROVE IInv'
  OBVIOUS
<1>1. ASSUME NEW l \in Listers, Listing(l) \/ SweepStep(l) \/ Rollback(l)
      PROVE  IInv'
  <2>1. CASE Listing(l)
    BY <2>1, ListingIInv
  <2>2. ASSUME NEW s \in Servers, FlagUnreadable(l, s) \/ Refuse(l, s)
        PROVE  IInv'
    BY <2>2, MarkFailedIInv DEF FlagUnreadable, Refuse, Reaches
  <2>3. ASSUME NEW s \in Servers, Destroy(l, s) PROVE IInv'
    BY <2>3, DestroyIInv
  <2>4. CASE Settle(l)
    BY <2>4, SettleIInv
  <2>5. CASE SweepEnds(l) \/ Commit(l) \/ Rollback(l)
    BY <2>5, EndsIInv
  <2> QED
    BY <1>1, <2>1, <2>2, <2>3, <2>4, <2>5 DEF SweepStep
<1>2. ASSUME NEW h \in Handlers, HandlerStep(h) PROVE IInv'
  <2>1. ASSUME NEW a \in accounts, NEW s \in Servers,
               BeginRequest(h, a, s) \/ BeginCancel(h, a, s) \/ BeginForceRemove(h, a, s)
        PROVE  IInv'
    BY <2>1, BeginsIInv
       DEF BeginRequest, BeginCancel, BeginForceRemove, Requestable, Cancellable
  <2>2. CASE WriteRequest(h) \/ WriteCancel(h)
    BY <2>2, WriteScheduleIInv
  <2>3. CASE ForceDestroy(h)
    BY <2>3, ForceDestroyIInv
  <2>4. CASE ForceDelete(h)
    BY <2>4, ForceDeleteIInv
  <2>5. CASE HandlerTimesOut(h)
    BY <2>5, HandlerTimesOutIInv
  <2> QED
    BY <1>2, <2>1, <2>2, <2>3, <2>4, <2>5 DEF HandlerStep
<1>3. CASE Surroundings
  BY <1>3, TransferIInv, TickIInv, CrashIInv, OutsideIInv DEF Surroundings
<1>4. CASE UNCHANGED vars
  BY <1>4 DEF vars, IInv, TypeOK, Settling, Forcing, LockHeld, NothingPending, Tracked
<1> QED
  BY <1>1, <1>2, <1>3, <1>4 DEF Next

THEOREM IInvHolds == Spec => []IInv
  BY InitIInv, NextIInv, PTL DEF Spec

\* Every variable keeps its type: in particular no row of user_servers gets a
\* deletion state the sweep and the handlers do not know.
THEOREM TypeCorrect == Spec => []TypeOK
<1>1. IInv => TypeOK
  BY DEF IInv
<1> QED
  BY <1>1, IInvHolds, PTL

\* However many list requests, cancellations, force-removals, transfers and
\* crashes interleave, a running guest has a record or an audit entry.
THEOREM GuestsStayTracked == Spec => []NoUntrackedGuest
<1>1. IInv => NoUntrackedGuest
  BY DEF IInv, Tracked, NoUntrackedGuest
<1> QED
  BY <1>1, IInvHolds, PTL

\* The sweep lock is exclusive: no two calls destroy guests at the same time.
THEOREM SweepsExclude == Spec => []OneSweepAtATime
<1>1. IInv => OneSweepAtATime
  BY DEF IInv, LockHeld, OneSweepAtATime
<1> QED
  BY <1>1, IInvHolds, PTL

\* Only a running list request has uncommitted rows.
THEOREM OnlyWritersDiffer == Spec => []NothingPending
<1>1. IInv => NothingPending
  BY DEF IInv
<1> QED
  BY <1>1, IInvHolds, PTL
=============================================================================
