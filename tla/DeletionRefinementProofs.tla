------------------------ MODULE DeletionRefinementProofs ------------------------
(***************************************************************************)
(* DeferredDeletion implements DeletionContract, for every set of servers, *)
(* users and requests and every bound: what the sweeps, handlers, commits, *)
(* rollbacks and crashes do is what the contract allows.  And no record    *)
(* stays behind under an account that has been deleted.                    *)
(***************************************************************************)
EXTENDS DeferredDeletionProofs

Listed(l, s) == Exists(lister[l].snap[s])
ListedDue(l, s) == Listed(l, s) /\ RecordState(lister[l].snap[s]) = "due"

\* A sweep works through what it listed, which was actionable then, and settles what it
\* listed as due.
SnapsHold ==
    \A l \in Listers :
        /\ lister[l].pc = "idle" => \A s \in Servers : ~Listed(l, s)
        /\ \A s \in Servers : Listed(l, s) => Actionable(lister[l].snap[s])
        /\ \A s \in lister[l].todo : Listed(l, s)
        /\ lister[l].pc = "settle" => ListedDue(l, lister[l].cur)

\* A write transaction of a sweep has done no more than remove rows listed as due whose guest
\* is gone, and mark listed rows failed.
Marked(r) == [r EXCEPT !.failed = TRUE]
DraftsFollow ==
    \A l \in Listers : writer = l =>
        /\ lister[l].pc # "idle"
        /\ \A s \in Servers :
              \/ draft[s] = table[s]
              \/ ~Exists(draft[s]) /\ ListedDue(l, s) /\ guest[s] # "present"
              \/ Exists(table[s]) /\ draft[s] = Marked(table[s]) /\ Listed(l, s)

\* Between the statements of a request, the row's grace window does not advance.
RequestsWait ==
    \A h \in Handlers : handler[h].pc = "request" =>
        LET row == table[handler[h].srv] IN
        Exists(row) => row.failed \/ row.requested \in {NotRequested, 0}

Owned ==
    \A s \in Servers : /\ Exists(table[s]) => table[s].owner \in accounts
                       /\ Exists(draft[s]) => draft[s].owner \in accounts

RInv == SnapsHold /\ DraftsFollow /\ RequestsWait /\ Owned

-----------------------------------------------------------------------------
(* Rows.                                                                    *)

LEMMA TableFacts ==
    ASSUME TypeOK
    PROVE  /\ \A s \in Servers : /\ Exists(table[s]) <=> table[s] \in Row
                                 /\ Exists(draft[s]) <=> draft[s] \in Row
                                 /\ ~Exists(table[s]) => table[s] = NoRow
                                 /\ ~Exists(draft[s]) => draft[s] = NoRow
           /\ \A l \in Listers, s \in Servers :
                 /\ Listed(l, s) <=> lister[l].snap[s] \in Row
                 /\ ~Listed(l, s) => lister[l].snap[s] = NoRow
BY RowFacts DEF TypeOK, Table, ListerType, Listed, Exists

LEMMA StateFacts ==
    /\ NotRequested # Unreadable /\ NotRequested \notin 0 .. Grace /\ Unreadable \notin 0 .. Grace
    /\ \A r : RecordState(r) = "removed" <=> ~Exists(r)
    /\ \A r \in Row :
          /\ RecordState(r) = "failed" <=> r.failed
          /\ RecordState(r) = "live" <=> ~r.failed /\ r.requested = NotRequested
          /\ RecordState(r) = "unreadable" <=> ~r.failed /\ r.requested = Unreadable
          /\ RecordState(r) = "due" <=> ~r.failed /\ r.requested = Grace
          /\ RecordState(r) = "pending" <=> ~r.failed /\ r.requested \in 0 .. (Grace - 1)
<1>1. /\ NotRequested # Unreadable /\ NotRequested \notin 0 .. Grace
      /\ Unreadable \notin 0 .. Grace /\ Grace # NotRequested /\ Grace # Unreadable
      /\ Grace \notin 0 .. (Grace - 1)
      /\ \A x \in 0 .. Grace : x # Grace <=> x \in 0 .. (Grace - 1)
  BY BoundsAssumption DEF NotRequested, Unreadable
<1>2. \A r \in Row : /\ Exists(r)
                     /\ r.requested \in {NotRequested, Unreadable} \/ r.requested \in 0 .. Grace
  BY RowFacts DEF Row
<1>3. \A x \in 0 .. (Grace - 1) : x # NotRequested /\ x # Unreadable
  BY BoundsAssumption DEF NotRequested, Unreadable
<1> QED BY <1>1, <1>2, <1>3 DEF RecordState

LEMMA MarkedFacts ==
    ASSUME NEW r \in Row
    PROVE  Marked(r) \in Row /\ Marked(r).failed /\ Marked(r).owner = r.owner
           /\ Marked(r).requested = r.requested
BY DEF Marked, Row

LEMMA ActionableState ==
    ASSUME NEW r \in Row, Actionable(r)
    PROVE  /\ RecordState(r) \in {"due", "unreadable"}
           /\ r.requested # Unreadable => RecordState(r) = "due"
<1>1. r.requested \in {NotRequested, Unreadable} \/ r.requested \in 0 .. Grace
  BY DEF Row
<1>2. ~r.failed /\ (r.requested = Unreadable \/ r.requested >= Grace)
  BY DEF Actionable, DeletionDue
<1>3. r.requested # Unreadable => r.requested = Grace
  BY <1>1, <1>2, BoundsAssumption DEF NotRequested, Unreadable
<1> QED BY <1>2, <1>3, StateFacts

\* Ageing keeps everything but the age, and makes pending records due, in every view.
LEMMA AgedRow ==
    ASSUME NEW t \in Table, NEW s \in Servers
    PROVE  /\ Exists(Aged(t)[s]) <=> Exists(t[s])
           /\ ~Exists(t[s]) => Aged(t)[s] = t[s]
           /\ Exists(t[s]) =>
                /\ Aged(t)[s] \in Row /\ Aged(t)[s].owner = t[s].owner
                /\ Aged(t)[s].failed = t[s].failed
                /\ \/ RecordState(Aged(t)[s]) = RecordState(t[s])
                   \/ RecordState(t[s]) = "pending" /\ RecordState(Aged(t)[s]) = "due"
<1>1. CASE Exists(t[s]) /\ t[s].requested \in 0 .. (Grace - 1)
  <2>1. t[s] \in Row /\ Aged(t)[s] = [t[s] EXCEPT !.requested = t[s].requested + 1]
    BY <1>1, RowFacts DEF Aged, Table
  <2>2. t[s].requested + 1 \in 0 .. Grace
    BY <1>1, BoundsAssumption
  <2>3. /\ Aged(t)[s] \in Row /\ Aged(t)[s].owner = t[s].owner
        /\ Aged(t)[s].failed = t[s].failed /\ Aged(t)[s].requested = t[s].requested + 1
    BY <2>1, <2>2 DEF Row
  <2>4. t[s].requested + 1 = Grace \/ t[s].requested + 1 \in 0 .. (Grace - 1)
    BY <1>1, BoundsAssumption
  <2>5. ~t[s].failed => /\ RecordState(t[s]) = "pending"
                        /\ RecordState(Aged(t)[s]) \in {"due", "pending"}
    BY <1>1, <2>1, <2>3, <2>4, StateFacts
  <2>6. t[s].failed => RecordState(t[s]) = "failed" /\ RecordState(Aged(t)[s]) = "failed"
    BY <2>1, <2>3, StateFacts
  <2>7. Exists(Aged(t)[s])
    BY <2>3, RowFacts, Zenon
  <2>8. \/ RecordState(Aged(t)[s]) = RecordState(t[s])
        \/ RecordState(t[s]) = "pending" /\ RecordState(Aged(t)[s]) = "due"
    BY <2>5, <2>6
  <2> QED BY <1>1, <2>3, <2>7, <2>8, Zenon
<1>2. CASE ~(Exists(t[s]) /\ t[s].requested \in 0 .. (Grace - 1))
  <2>1. Aged(t)[s] = t[s]
    BY <1>2 DEF Aged
  <2>2. t[s] \in Row \cup {NoRow}
    BY DEF Table
  <2>3. Exists(t[s]) => t[s] \in Row
    BY <2>2, RowFacts, Zenon
  <2> QED BY <2>1, <2>3, Zenon
<1> QED BY <1>1, <1>2

LEMMA AgedMarked ==
    ASSUME NEW t \in Table, NEW d \in Table, NEW s \in Servers, Exists(t[s]), d[s] = Marked(t[s])
    PROVE  Aged(d)[s] = Marked(Aged(t)[s])
<1>1. t[s] \in Row /\ d[s] \in Row /\ d[s].requested = t[s].requested /\ Exists(d[s])
  BY RowFacts, MarkedFacts DEF Table
<1>2. CASE t[s].requested \in 0 .. (Grace - 1)
  <2>1. /\ Aged(t)[s] = [t[s] EXCEPT !.requested = t[s].requested + 1]
        /\ Aged(d)[s] = [d[s] EXCEPT !.requested = d[s].requested + 1]
    BY <1>1, <1>2 DEF Aged
  <2>2. \A r \in Row : \A q : [[r EXCEPT !.failed = TRUE] EXCEPT !.requested = q]
                              = [[r EXCEPT !.requested = q] EXCEPT !.failed = TRUE]
    BY DEF Row
  <2>3. Aged(d)[s] = [Marked(t[s]) EXCEPT !.requested = t[s].requested + 1]
    BY <1>1, <2>1
  <2> QED BY <1>1, <2>1, <2>2, <2>3, Zenon DEF Marked
<1>3. CASE t[s].requested \notin 0 .. (Grace - 1)
  BY <1>1, <1>3 DEF Aged
<1> QED BY <1>2, <1>3

-----------------------------------------------------------------------------
(* The invariant, conjunct by conjunct.                                     *)

\* Accounts stay, and every row after the step was there before it, under the same owner.
LEMMA OwnedKept ==
    ASSUME Owned, accounts' = accounts,
           \A s \in Servers : \A r \in {table'[s], draft'[s]} : Exists(r) =>
               \E q \in {table[s], draft[s]} : Exists(q) /\ q.owner = r.owner
    PROVE  Owned'
BY DEF Owned

\* Which rows a sweep listed does not change while it runs.
LEMMA SnapsKept ==
    ASSUME TypeOK, SnapsHold, NEW l \in Listers, NEW x, lister' = [lister EXCEPT ![l] = x],
           \/ x = IdleLister
           \/ /\ x.snap = lister[l].snap /\ x.todo \subseteq lister[l].todo /\ x.pc # "idle"
              /\ x.pc = "settle" => ListedDue(l, x.cur)
    PROVE  SnapsHold'
<1>1. \A k \in Listers : lister'[k] = IF k = l THEN x ELSE lister[k]
  BY DEF TypeOK
<1>2. ASSUME NEW k \in Listers, k # l
      PROVE  /\ lister'[k].pc = "idle" => \A s \in Servers : ~Listed(k, s)'
             /\ \A s \in Servers : Listed(k, s)' => Actionable(lister'[k].snap[s])
             /\ \A s \in lister'[k].todo : Listed(k, s)'
             /\ lister'[k].pc = "settle" => ListedDue(k, lister[k].cur)'
  BY <1>1, <1>2 DEF SnapsHold, Listed, ListedDue
<1>3. CASE x = IdleLister
  <2>1. x.pc = "idle" /\ x.todo = {} /\ \A s \in Servers : ~Exists(x.snap[s])
    BY <1>3 DEF IdleLister, Exists
  <2> QED BY <1>1, <1>2, <2>1 DEF SnapsHold, Listed, ListedDue
<1>4. CASE /\ x.snap = lister[l].snap /\ x.todo \subseteq lister[l].todo /\ x.pc # "idle"
           /\ x.pc = "settle" => ListedDue(l, x.cur)
  BY <1>1, <1>2, <1>4 DEF SnapsHold, Listed, ListedDue
<1> QED BY <1>3, <1>4

\* Only the writer's own step, time or a commit disturbs its draft.
LEMMA DraftsKept ==
    ASSUME DraftsFollow, writer' = writer, UNCHANGED <<table, draft>>,
           \A s \in Servers : guest'[s] = "present" => guest[s] = "present",
           \A l \in Listers : writer = l =>
               lister'[l].snap = lister[l].snap /\ lister'[l].pc # "idle"
    PROVE  DraftsFollow'
BY DEF DraftsFollow, Listed, ListedDue

LEMMA WaitKept ==
    ASSUME RequestsWait, Forcing,
           \A h \in Handlers : handler'[h].pc = "request" => handler'[h] = handler[h],
           \A s \in Servers : Exists(table'[s]) =>
               /\ Exists(table[s]) /\ (table[s].failed => table'[s].failed)
               /\ table'[s].requested \in {table[s].requested, NotRequested, 0}
    PROVE  RequestsWait'
<1> SUFFICES ASSUME NEW h \in Handlers, handler'[h].pc = "request",
                    Exists(table'[handler'[h].srv])
             PROVE  LET row == table'[handler'[h].srv] IN
                    row.failed \/ row.requested \in {NotRequested, 0}
  BY DEF RequestsWait
<1>1. handler'[h] = handler[h] /\ handler[h].srv \in Servers
  BY DEF Forcing
<1> QED BY <1>1 DEF RequestsWait

LEMMA InitRInv == Init => RInv
<1> SUFFICES ASSUME Init PROVE RInv
  OBVIOUS
<1>1. \A s \in Servers : table[s] \in Row /\ draft[s] = table[s]
  BY DEF Init, Row
<1>2. \A l \in Listers : lister[l] = IdleLister
  BY DEF Init
<1>3. SnapsHold
  BY <1>2 DEF SnapsHold, Listed, ListedDue, IdleLister, Exists
<1>4. DraftsFollow /\ RequestsWait
  BY NobodyAssumption DEF Init, DraftsFollow, RequestsWait, IdleHandler
<1>5. Owned
  BY <1>1 DEF Init, Owned, Row
<1> QED BY <1>3, <1>4, <1>5 DEF RInv

-----------------------------------------------------------------------------
(* The invariant, action by action.                                         *)

LEMMA ListingRInv ==
    ASSUME IInv, RInv, NEW l \in Listers, Listing(l)
    PROVE  RInv'
<1>0. /\ TypeOK /\ Forcing /\ SnapsHold /\ DraftsFollow /\ RequestsWait /\ Owned
      /\ UNCHANGED <<table, draft, writer, guest, accounts, handler>>
  BY DEF IInv, RInv, Listing
<1>1. \A k \in Listers \ {l} : lister'[k] = lister[k]
  BY <1>0 DEF TypeOK, Listing
<1>2. /\ lister'[l].pc = "sweep" /\ lister'[l].todo = {s \in Servers : Actionable(table[s])}
      /\ \A s \in Servers : lister'[l].snap[s] = IF Actionable(table[s]) THEN table[s] ELSE NoRow
  BY <1>0 DEF TypeOK, Listing
<1>3. \A s \in Servers : Listed(l, s)' <=> Actionable(table[s])
  BY <1>2 DEF Listed, Exists, Actionable
<1>4. SnapsHold'
  BY <1>0, <1>1, <1>2, <1>3 DEF SnapsHold, Listed, ListedDue
<1>5. DraftsFollow'
  <2>1. \A k \in Listers : writer = k => lister'[k] = lister[k]
    BY <1>0, <1>1 DEF DraftsFollow, Listing
  <2> QED BY <1>0, <2>1, DraftsKept DEF DraftsFollow
<1>6. RequestsWait' /\ Owned'
  BY <1>0 DEF RequestsWait, Owned
<1> QED BY <1>4, <1>5, <1>6 DEF RInv

LEMMA ConcludesKeeps ==
    ASSUME TypeOK, SnapsHold, NEW l \in Listers, NEW s \in Servers, NEW counted \in BOOLEAN,
           Concludes(l, s, counted)
    PROVE  /\ SnapsHold'
           /\ \A k \in Listers : lister'[k].snap = lister[k].snap
           /\ \A k \in Listers : k # l => lister'[k] = lister[k]
           /\ lister'[l].pc = "sweep"
<1> DEFINE x == [pc |-> "sweep", snap |-> lister[l].snap, todo |-> lister[l].todo \ {s},
                 cur |-> Nobody, ok |-> FALSE,
                 actioned |-> IF counted THEN lister[l].actioned + 1 ELSE lister[l].actioned]
<1>1. lister' = [lister EXCEPT ![l] = x]
  BY DEF Concludes
<1>2. x.snap = lister[l].snap /\ x.todo \subseteq lister[l].todo /\ x.pc = "sweep"
  OBVIOUS
<1> HIDE DEF x
<1>3. SnapsHold'
  BY <1>1, <1>2, SnapsKept
<1> QED BY <1>1, <1>2, <1>3 DEF TypeOK

\* A statement of sweep l on its draft: other drafts do not exist, and the rows it does not
\* name are as they were.
LEMMA DraftWritten ==
    ASSUME IInv, RInv, NEW l \in Listers, CanWrite(l), writer' = l, lister'[l].pc # "idle",
           UNCHANGED <<table, guest>>, lister'[l].snap = lister[l].snap, NEW s \in Servers,
           \A x \in Servers \ {s} : draft'[x] = draft[x],
           \/ draft'[s] = table[s]
           \/ ~Exists(draft'[s]) /\ ListedDue(l, s) /\ guest[s] # "present"
           \/ Exists(table[s]) /\ draft'[s] = Marked(table[s]) /\ Listed(l, s)
    PROVE  DraftsFollow'
<1>1. \A x \in Servers :
        \/ draft[x] = table[x]
        \/ ~Exists(draft[x]) /\ ListedDue(l, x) /\ guest[x] # "present"
        \/ Exists(table[x]) /\ draft[x] = Marked(table[x]) /\ Listed(l, x)
  BY NobodyAssumption DEF IInv, RInv, CanWrite, NothingPending, DraftsFollow
<1>2. \A x \in Servers : Listed(l, x)' = Listed(l, x) /\ ListedDue(l, x)' = ListedDue(l, x)
  BY DEF Listed, ListedDue
<1>3. \A k \in Listers : writer' = k => k = l
  OBVIOUS
<1> QED BY <1>1, <1>2, <1>3 DEF DraftsFollow

LEMMA MarkFailedRInv ==
    ASSUME IInv, RInv, NEW l \in Listers, NEW s \in Servers, Listed(l, s), MarkFailed(l, s),
           lister[l].pc # "idle", UNCHANGED <<table, guest, accounts, handler>>
    PROVE  RInv'
<1>0. TypeOK /\ Forcing /\ SnapsHold /\ DraftsFollow /\ RequestsWait /\ Owned
  BY DEF IInv, RInv
<1>1. /\ SnapsHold'
      /\ \A k \in Listers : lister'[k].snap = lister[k].snap
      /\ \A k \in Listers : k # l => lister'[k] = lister[k]
      /\ lister'[l].pc = "sweep"
  BY <1>0, ConcludesKeeps DEF MarkFailed
<1>2. RequestsWait'
  BY <1>0 DEF RequestsWait
<1>3. CASE UNCHANGED <<draft, writer>>
  <2>1. DraftsFollow'
    BY <1>0, <1>1, <1>3, DraftsKept DEF DraftsFollow
  <2> QED BY <1>0, <1>1, <1>2, <1>3, <2>1 DEF RInv, Owned
<1>4. CASE Matches(l, s) /\ CanWrite(l) /\ writer' = l
           /\ draft' = [draft EXCEPT ![s].failed = TRUE]
  <2>1. View(l) = draft
    BY <1>4, NobodyAssumption DEF IInv, CanWrite, View, NothingPending
  <2>2. draft[s] \in Row
    BY <1>0, <1>4, <2>1, TableFacts DEF Matches
  <2>3. /\ draft'[s] = Marked(draft[s]) /\ draft'[s].owner = draft[s].owner
        /\ \A x \in Servers \ {s} : draft'[x] = draft[x]
    BY <1>0, <1>4, <2>2, MarkedFacts DEF TypeOK, Table, Marked
  <2>4. Exists(table[s]) /\ draft'[s] = Marked(table[s])
    <3>1. draft[s] = table[s] \/ (Exists(table[s]) /\ draft[s] = Marked(table[s]))
      BY <1>0, <1>4, <2>2, TableFacts, NobodyAssumption
         DEF IInv, CanWrite, NothingPending, DraftsFollow
    <3>2. table[s] \in Row
      BY <1>0, <2>2, <3>1, TableFacts
    <3>3. Marked(Marked(table[s])) = Marked(table[s])
      BY <3>2 DEF Marked, Row
    <3> QED BY <1>0, <2>3, <3>1, <3>2, <3>3, TableFacts
  <2>5. DraftsFollow'
    BY <1>1, <1>4, <2>3, <2>4, DraftWritten
  <2>6. Owned'
    BY <1>0, <2>2, <2>3, TableFacts DEF Owned
  <2> QED BY <1>1, <1>2, <2>5, <2>6 DEF RInv
<1> QED BY <1>3, <1>4 DEF MarkFailed

LEMMA RemoveRowRInv ==
    ASSUME IInv, RInv, NEW l \in Listers, NEW s \in Servers, ListedDue(l, s), RemoveRow(l, s),
           lister[l].pc # "idle", guest[s] # "present",
           UNCHANGED <<table, guest, accounts, handler>>
    PROVE  RInv'
<1>0. TypeOK /\ Forcing /\ SnapsHold /\ DraftsFollow /\ RequestsWait /\ Owned
  BY DEF IInv, RInv
<1>1. /\ SnapsHold'
      /\ \A k \in Listers : lister'[k].snap = lister[k].snap
      /\ \A k \in Listers : k # l => lister'[k] = lister[k]
      /\ lister'[l].pc = "sweep"
  BY <1>0, ConcludesKeeps DEF RemoveRow
<1>2. RequestsWait'
  BY <1>0 DEF RequestsWait
<1>3. CASE UNCHANGED <<draft, writer>>
  <2>1. DraftsFollow'
    BY <1>0, <1>1, <1>3, DraftsKept DEF DraftsFollow
  <2> QED BY <1>0, <1>1, <1>2, <1>3, <2>1 DEF RInv, Owned
<1>4. CASE CanWrite(l) /\ writer' = l /\ draft' = [draft EXCEPT ![s] = NoRow]
  <2>1. ~Exists(draft'[s]) /\ \A x \in Servers \ {s} : draft'[x] = draft[x]
    BY <1>0, <1>4 DEF TypeOK, Table, Exists
  <2>2. DraftsFollow'
    BY <1>1, <1>4, <2>1, DraftWritten
  <2>3. Owned'
    BY <1>0, <2>1 DEF Owned
  <2> QED BY <1>1, <1>2, <2>2, <2>3 DEF RInv
<1>5. CASE CanWrite(l) /\ writer' = l /\ draft' = draft
  <2>1. \/ draft'[s] = table[s]
        \/ ~Exists(draft'[s]) /\ ListedDue(l, s) /\ guest[s] # "present"
        \/ Exists(table[s]) /\ draft'[s] = Marked(table[s]) /\ Listed(l, s)
    BY <1>0, <1>5, NobodyAssumption DEF IInv, CanWrite, NothingPending, DraftsFollow
  <2>2. DraftsFollow'
    BY <1>1, <1>5, <2>1, DraftWritten
  <2> QED BY <1>0, <1>1, <1>2, <1>5, <2>2 DEF RInv, Owned
<1> QED BY <1>3, <1>4, <1>5 DEF RemoveRow

LEMMA SettleRInv ==
    ASSUME IInv, RInv, NEW l \in Listers, Settle(l)
    PROVE  RInv'
<1>1. /\ lister[l].cur \in Servers /\ ListedDue(l, lister[l].cur) /\ Listed(l, lister[l].cur)
      /\ lister[l].ok => guest[lister[l].cur] # "present"
  BY DEF IInv, RInv, Settle, Settling, SnapsHold, ListedDue
<1>2. lister[l].pc # "idle" /\ UNCHANGED <<table, guest, accounts, handler>>
  BY DEF Settle
<1> QED BY <1>1, <1>2, MarkFailedRInv, RemoveRowRInv DEF Settle

LEMMA FlagRInv ==
    ASSUME IInv, RInv, NEW l \in Listers, NEW s \in Servers,
           FlagUnreadable(l, s) \/ Refuse(l, s)
    PROVE  RInv'
<1>1. Listed(l, s) /\ lister[l].pc # "idle"
  BY DEF RInv, SnapsHold, FlagUnreadable, Refuse, Reaches
<1> QED BY <1>1, MarkFailedRInv DEF FlagUnreadable, Refuse

\* What a sweep destroys was listed as due.
LEMMA DestroyListed ==
    ASSUME IInv, RInv, NEW l \in Listers, NEW s \in Servers, Destroy(l, s)
    PROVE  ListedDue(l, s)
<1>1. Listed(l, s) /\ Actionable(lister[l].snap[s]) /\ lister[l].snap[s].requested # Unreadable
  BY DEF RInv, SnapsHold, Destroy, Reaches
<1>2. lister[l].snap[s] \in Row
  BY <1>1, TableFacts DEF IInv
<1> QED BY <1>1, <1>2, ActionableState DEF ListedDue

LEMMA DestroyRInv ==
    ASSUME IInv, RInv, NEW l \in Listers, NEW s \in Servers, Destroy(l, s)
    PROVE  RInv'
<1>0. /\ TypeOK /\ Forcing /\ SnapsHold /\ DraftsFollow /\ RequestsWait /\ Owned
      /\ UNCHANGED <<table, draft, writer, accounts, handler>>
  BY DEF IInv, RInv, Destroy
<1>1. ListedDue(l, s)
  BY DestroyListed
<1>2. PICK b \in BOOLEAN :
        lister' = [lister EXCEPT ![l].pc = "settle", ![l].cur = s, ![l].ok = b]
  BY DEF Destroy
<1> DEFINE x == [lister[l] EXCEPT !.pc = "settle", !.cur = s, !.ok = b]
<1>3. /\ lister' = [lister EXCEPT ![l] = x]
      /\ x.pc = "settle" /\ x.cur = s /\ x.snap = lister[l].snap /\ x.todo = lister[l].todo
  BY <1>0, <1>2 DEF TypeOK, ListerType
<1> HIDE DEF x
<1>4. SnapsHold'
  BY <1>0, <1>1, <1>3, SnapsKept
<1>5. \A k \in Listers : /\ lister'[k].snap = lister[k].snap
                         /\ lister[k].pc # "idle" => lister'[k].pc # "idle"
  BY <1>0, <1>3 DEF TypeOK
<1>6. \A k \in Servers : guest'[k] = "present" => guest[k] = "present"
  BY <1>0 DEF Destroy, TypeOK
<1>7. DraftsFollow'
  BY <1>0, <1>5, <1>6, DraftsKept DEF DraftsFollow
<1>8. RequestsWait' /\ Owned'
  BY <1>0 DEF RequestsWait, Owned
<1> QED BY <1>4, <1>7, <1>8 DEF RInv

LEMMA SweepEndsRInv ==
    ASSUME IInv, RInv, NEW l \in Listers, SweepEnds(l)
    PROVE  RInv'
<1>0. /\ TypeOK /\ Forcing /\ SnapsHold /\ DraftsFollow /\ RequestsWait /\ Owned
      /\ UNCHANGED <<table, draft, writer, guest, accounts, handler>>
  BY DEF IInv, RInv, SweepEnds
<1> DEFINE x == [lister[l] EXCEPT !.pc = "tail"]
<1>1. /\ lister' = [lister EXCEPT ![l] = x]
      /\ x.pc = "tail" /\ x.snap = lister[l].snap /\ x.todo = lister[l].todo
  BY <1>0 DEF TypeOK, ListerType, SweepEnds
<1> HIDE DEF x
<1>2. SnapsHold'
  BY <1>0, <1>1, SnapsKept
<1>3. \A k \in Listers : /\ lister'[k].snap = lister[k].snap
                         /\ lister[k].pc # "idle" => lister'[k].pc # "idle"
  BY <1>0, <1>1 DEF TypeOK
<1>4. DraftsFollow'
  BY <1>0, <1>3, DraftsKept DEF DraftsFollow
<1>5. RequestsWait' /\ Owned'
  BY <1>0 DEF RequestsWait, Owned
<1> QED BY <1>2, <1>4, <1>5 DEF RInv

\* What a commit makes of a row: nothing, a removal, or the mark.
LEMMA DraftRow ==
    ASSUME IInv, RInv, NEW l \in Listers, writer = l, NEW s \in Servers, Exists(draft[s])
    PROVE  /\ Exists(table[s]) /\ draft[s].owner = table[s].owner
           /\ draft[s].requested = table[s].requested /\ (table[s].failed => draft[s].failed)
<1>1. draft[s] = table[s] \/ (Exists(table[s]) /\ draft[s] = Marked(table[s]))
  BY DEF RInv, DraftsFollow
<1>2. Exists(table[s]) => table[s] \in Row
  BY TableFacts DEF IInv
<1> QED BY <1>1, <1>2, MarkedFacts

LEMMA EndsRInv ==
    ASSUME IInv, RInv, NEW l \in Listers, Commit(l) \/ Rollback(l)
    PROVE  RInv'
<1>0. /\ TypeOK /\ Forcing /\ NothingPending
      /\ SnapsHold /\ DraftsFollow /\ RequestsWait /\ Owned
      /\ lister' = [lister EXCEPT ![l] = IdleLister] /\ UNCHANGED <<guest, accounts, handler>>
  BY DEF IInv, RInv, Commit, Rollback
<1>1. SnapsHold'
  BY <1>0, SnapsKept
<1>2. \A k \in Listers \ {l} : lister'[k] = lister[k]
  BY <1>0 DEF TypeOK
<1>3. DraftsFollow'
  <2>1. CASE writer = l
    BY <2>1, NobodyAssumption DEF Commit, Rollback, DraftsFollow
  <2>2. CASE writer # l
    <3>1. UNCHANGED <<table, draft, writer>>
      BY <2>2 DEF Commit, Rollback
    <3> QED BY <1>0, <1>2, <2>2, <3>1, DraftsKept DEF DraftsFollow
  <2> QED BY <2>1, <2>2
<1>4. \A s \in Servers : Exists(table'[s]) =>
        /\ Exists(table[s]) /\ (table[s].failed => table'[s].failed)
        /\ table'[s].requested = table[s].requested
  <2>1. table' = table \/ (writer = l /\ table' = draft)
    BY DEF Commit, Rollback
  <2> QED BY <2>1, DraftRow
<1>5. RequestsWait'
  BY <1>0, <1>4, WaitKept
<1>6. Owned'
  <2>1. table' \in {table, draft} /\ draft' \in {table, draft}
    BY DEF Commit, Rollback
  <2> QED BY <1>0, <2>1 DEF Owned
<1> QED BY <1>1, <1>3, <1>5, <1>6 DEF RInv

\* The handlers leave the sweeps alone.
LEMMA SweepsUntouched ==
    ASSUME RInv, UNCHANGED <<lister, writer>>, writer = Nobody \/ UNCHANGED <<table, draft>>,
           \A s \in Servers : guest'[s] = "present" => guest[s] = "present"
    PROVE  SnapsHold' /\ DraftsFollow'
<1>1. SnapsHold'
  BY DEF RInv, SnapsHold, Listed, ListedDue
<1>2. CASE writer = Nobody
  BY <1>1, <1>2, NobodyAssumption DEF DraftsFollow
<1>3. CASE UNCHANGED <<table, draft>>
  BY <1>1, <1>3, DraftsKept DEF RInv, DraftsFollow
<1> QED BY <1>1, <1>2, <1>3

LEMMA BeginsRInv ==
    ASSUME IInv, RInv, NEW h \in Handlers, NEW s \in Servers,
           NEW step \in {"request", "cancel", "force"}, Begins(h, s, step),
           step = "request" => Requestable(table[s])
    PROVE  RInv'
<1>1. UNCHANGED <<table, draft, writer, guest, accounts, lister>>
  BY DEF Begins
<1>2. /\ handler'[h].pc = step /\ handler'[h].srv = s
      /\ \A k \in Handlers \ {h} : handler'[k] = handler[k]
  BY DEF Begins, IInv, TypeOK
<1>3. RequestsWait'
  BY <1>1, <1>2 DEF RInv, RequestsWait, Requestable
<1> QED BY <1>1, <1>3, SweepsUntouched DEF RInv, Owned

\* A handler that ends, having changed no more than a row's request or removed the row.
LEMMA EndedRInv ==
    ASSUME IInv, RInv, NEW h \in Handlers, Ends(h), UNCHANGED <<writer, guest, accounts, lister>>,
           \/ UNCHANGED <<table, draft>>
           \/ writer = Nobody /\ draft' = table',
           \A s \in Servers : Exists(table'[s]) =>
               /\ Exists(table[s]) /\ table'[s].owner = table[s].owner
               /\ table'[s].failed = table[s].failed
               /\ table'[s].requested \in {table[s].requested, NotRequested, 0}
    PROVE  RInv'
<1>1. SnapsHold' /\ DraftsFollow'
  BY SweepsUntouched
<1>2. \A k \in Handlers : handler'[k].pc = "request" => handler'[k] = handler[k]
  BY DEF Ends, IdleHandler, IInv, TypeOK
<1>3. RequestsWait'
  BY <1>2, WaitKept DEF IInv, RInv
<1>4. Owned'
  BY DEF RInv, Owned
<1> QED BY <1>1, <1>3, <1>4 DEF RInv

\* What the schedule's two writes do to the row.
LEMMA ScheduleWritten ==
    ASSUME IInv, NEW h \in Handlers, NEW step \in {"request", "cancel"},
           NEW value \in {0, NotRequested}, WriteSchedule(h, step, value)
    PROVE  /\ handler[h].srv \in Servers /\ table' \in Table
           /\ \/ table' = table
              \/ /\ table[handler[h].srv] \in Row /\ table'[handler[h].srv] \in Row
                 /\ table'[handler[h].srv].owner = table[handler[h].srv].owner
                 /\ table'[handler[h].srv].failed = table[handler[h].srv].failed
                 /\ table'[handler[h].srv].requested = value
                 /\ \A s \in Servers \ {handler[h].srv} : table'[s] = table[s]
<1> DEFINE s == handler[h].srv
<1>1. s \in Servers /\ table \in Table
  BY DEF WriteSchedule, IInv, Forcing, TypeOK
<1>2. value \in {NotRequested, Unreadable} \cup (0 .. Grace)
  BY BoundsAssumption
<1>3. CASE StillOwned(h)
  <2>1. table[s] \in Row /\ table' = [table EXCEPT ![s].requested = value]
    BY <1>1, <1>3, RowFacts DEF StillOwned, WriteSchedule, WriteNow, Table
  <2> HIDE DEF s
  <2>2. table' = [table EXCEPT ![s] = [table[s] EXCEPT !.requested = value]]
    BY <1>1, <2>1 DEF Table
  <2>3. [table[s] EXCEPT !.requested = value] \in Row
    BY <1>2, <2>1 DEF Row
  <2>4. /\ table'[s] \in Row /\ table'[s].owner = table[s].owner
        /\ table'[s].failed = table[s].failed /\ table'[s].requested = value
        /\ \A x \in Servers \ {s} : table'[x] = table[x]
    BY <1>1, <2>1, <2>2, <2>3 DEF Table, Row
  <2>5. table' \in Table
    BY <1>1, <2>2, <2>3 DEF Table
  <2> QED BY <1>1, <2>1, <2>4, <2>5 DEF s
<1>4. CASE ~StillOwned(h)
  BY <1>1, <1>4 DEF WriteSchedule, WriteNow
<1> QED BY <1>3, <1>4

LEMMA WriteScheduleRInv ==
    ASSUME IInv, RInv, NEW h \in Handlers, WriteRequest(h) \/ WriteCancel(h)
    PROVE  RInv'
<1>1. PICK value \in {0, NotRequested}, step \in {"request", "cancel"} :
         WriteSchedule(h, step, value)
  BY DEF WriteRequest, WriteCancel
<1>2. /\ Ends(h) /\ UNCHANGED <<writer, guest, accounts, lister>>
      /\ writer = Nobody /\ draft' = table'
  BY <1>1 DEF WriteSchedule, WriteNow
<1>3. \A s \in Servers : Exists(table'[s]) =>
        /\ Exists(table[s]) /\ table'[s].owner = table[s].owner
        /\ table'[s].failed = table[s].failed
        /\ table'[s].requested \in {table[s].requested, NotRequested, 0}
  BY <1>1, ScheduleWritten, RowFacts
<1> QED BY <1>2, <1>3, EndedRInv

LEMMA ForceDeleteRInv ==
    ASSUME IInv, RInv, NEW h \in Handlers, ForceDelete(h) \/ HandlerTimesOut(h)
    PROVE  RInv'
<1>1. CASE ForceDelete(h)
  <2>1. handler[h].srv \in Servers /\ table \in Table
    BY <1>1 DEF ForceDelete, IInv, Forcing, TypeOK
  <2>2. \A s \in Servers : Exists(table'[s]) => table'[s] = table[s]
    BY <1>1, <2>1 DEF ForceDelete, WriteNow, Table, Exists
  <2> QED BY <1>1, <2>2, EndedRInv DEF ForceDelete, WriteNow
<1>2. CASE HandlerTimesOut(h)
  BY <1>2, EndedRInv DEF HandlerTimesOut
<1> QED BY <1>1, <1>2

LEMMA ForceDestroyRInv ==
    ASSUME IInv, RInv, NEW h \in Handlers, ForceDestroy(h)
    PROVE  RInv'
<1>1. UNCHANGED <<table, draft, writer, accounts, lister>>
  BY DEF ForceDestroy
<1>2. \A s \in Servers : guest'[s] = "present" => guest[s] = "present"
  BY DEF ForceDestroy, IInv, TypeOK
<1>3. \A k \in Handlers : handler'[k].pc = "request" => handler'[k] = handler[k]
  BY DEF ForceDestroy, IInv, TypeOK, HandlerType
<1>4. RequestsWait'
  BY <1>1, <1>3, WaitKept DEF IInv, RInv
<1> QED BY <1>1, <1>2, <1>4, SweepsUntouched DEF RInv, Owned

-----------------------------------------------------------------------------
(* The invariant, around the handlers and the sweeps.                       *)

LEMMA TransferRInv ==
    ASSUME IInv, RInv, NEW u \in Users, NEW v \in Users, TransferServers(u, v)
    PROVE  RInv'
<1>0. /\ UNCHANGED <<writer, guest, lister, handler>> /\ writer = Nobody /\ draft' = table'
      /\ v \in accounts \ {u} /\ accounts' = accounts \ {u} /\ table \in Table
  BY DEF TransferServers, WriteNow, IInv, TypeOK
<1>1. ASSUME NEW s \in Servers, Exists(table'[s])
      PROVE  /\ Exists(table[s]) /\ table'[s].owner \in accounts'
             /\ table'[s].failed = table[s].failed /\ table'[s].requested = table[s].requested
  <2>1. CASE Exists(table[s]) /\ table[s].owner = u
    <3>1. table[s] \in Row /\ table'[s] = [table[s] EXCEPT !.owner = v]
      BY <1>0, <2>1, RowFacts DEF TransferServers, WriteNow, Table
    <3> QED BY <1>0, <2>1, <3>1 DEF Row
  <2>2. CASE ~(Exists(table[s]) /\ table[s].owner = u)
    <3>1. table'[s] = table[s]
      BY <2>2 DEF TransferServers, WriteNow
    <3> QED BY <1>0, <1>1, <2>2, <3>1 DEF RInv, Owned
  <2> QED BY <2>1, <2>2
<1>2. SnapsHold' /\ DraftsFollow'
  BY <1>0, SweepsUntouched
<1>3. RequestsWait'
  BY <1>0, <1>1, WaitKept DEF IInv, RInv
<1>4. Owned'
  BY <1>0, <1>1 DEF Owned
<1> QED BY <1>2, <1>3, <1>4 DEF RInv

LEMMA OutsideRInv ==
    ASSUME IInv, RInv,
           ToggleProvider \/ OthersWrite \/ OthersCommit
             \/ (\E s \in Servers : LoseGuest(s))
    PROVE  RInv'
<1>1. UNCHANGED <<table, draft, accounts, lister, handler>>
  BY DEF ToggleProvider, OthersWrite, OthersCommit, LoseGuest
<1>2. \A s \in Servers : guest'[s] = "present" => guest[s] = "present"
  BY DEF ToggleProvider, OthersWrite, OthersCommit, LoseGuest, IInv, TypeOK
<1>3. \A l \in Listers : writer' = l => writer = l
  BY NobodyAssumption DEF ToggleProvider, OthersWrite, OthersCommit, LoseGuest
<1> QED BY <1>1, <1>2, <1>3 DEF RInv, SnapsHold, DraftsFollow, RequestsWait, Owned,
                                Listed, ListedDue

LEMMA TickRInv ==
    ASSUME IInv, RInv, Tick
    PROVE  RInv'
<1>0. /\ table \in Table /\ draft \in Table /\ table' = Aged(table) /\ draft' = Aged(draft)
      /\ UNCHANGED <<writer, guest, accounts, lister, handler>>
  BY DEF Tick, IInv, TypeOK
<1>1. SnapsHold'
  BY <1>0 DEF RInv, SnapsHold, Listed, ListedDue
<1>2. RequestsWait'
  BY <1>0 DEF Tick, RequestsWait
<1>3. Owned'
  BY <1>0, AgedRow DEF RInv, Owned
<1>4. DraftsFollow'
  <2>1. \A s \in Servers : draft[s] = table[s] => draft'[s] = table'[s]
    BY <1>0 DEF Aged
  <2>2. \A s \in Servers : /\ ~Exists(draft[s]) => ~Exists(draft'[s])
                           /\ Exists(table[s]) => Exists(table'[s])
    BY <1>0, AgedRow
  <2>3. \A s \in Servers : Exists(table[s]) /\ draft[s] = Marked(table[s])
                           => draft'[s] = Marked(table'[s])
    BY <1>0, AgedMarked
  <2>4. \A l \in Listers, s \in Servers : /\ Listed(l, s)' = Listed(l, s)
                                         /\ ListedDue(l, s)' = ListedDue(l, s)
    BY <1>0 DEF Listed, ListedDue
  <2> QED BY <1>0, <2>1, <2>2, <2>3, <2>4 DEF RInv, DraftsFollow
<1> QED BY <1>1, <1>2, <1>3, <1>4 DEF RInv

LEMMA CrashRInv ==
    ASSUME IInv, RInv, Crash
    PROVE  RInv'
<1>1. /\ \A l \in Listers : lister'[l] = IdleLister
      /\ \A h \in Handlers : handler'[h].pc = "idle"
      /\ writer' = Nobody /\ draft' = table /\ table' = table /\ accounts' = accounts
  BY DEF Crash, IdleHandler
<1>2. SnapsHold'
  BY <1>1 DEF SnapsHold, Listed, ListedDue, IdleLister, Exists
<1>3. DraftsFollow' /\ RequestsWait'
  BY <1>1, NobodyAssumption DEF DraftsFollow, RequestsWait
<1>4. Owned'
  BY <1>1 DEF RInv, Owned
<1> QED BY <1>2, <1>3, <1>4 DEF RInv

LEMMA NextRInv == IInv /\ RInv /\ [Next]_vars => RInv'
<1> SUFFICES ASSUME IInv, RInv, [Next]_vars PROVE RInv'
  OBVIOUS
<1>1. ASSUME NEW l \in Listers, Listing(l) \/ SweepStep(l) \/ Rollback(l)
      PROVE  RInv'
  BY <1>1, ListingRInv, FlagRInv, DestroyRInv, SettleRInv, SweepEndsRInv, EndsRInv
     DEF SweepStep
<1>2. ASSUME NEW h \in Handlers, HandlerStep(h) PROVE RInv'
  <2>1. ASSUME NEW a \in accounts, NEW s \in Servers,
               BeginRequest(h, a, s) \/ BeginCancel(h, a, s) \/ BeginForceRemove(h, a, s)
        PROVE  RInv'
    BY <2>1, BeginsRInv DEF BeginRequest, BeginCancel, BeginForceRemove
  <2> QED BY <1>2, <2>1, WriteScheduleRInv, ForceDestroyRInv, ForceDeleteRInv DEF HandlerStep
<1>3. CASE Surroundings
  BY <1>3, TransferRInv, TickRInv, CrashRInv, OutsideRInv DEF Surroundings
<1>4. CASE UNCHANGED vars
  BY <1>4 DEF vars, RInv, SnapsHold, DraftsFollow, RequestsWait, Owned, Listed, ListedDue
<1> QED BY <1>1, <1>2, <1>3, <1>4 DEF Next

THEOREM RInvHolds == Spec => [](IInv /\ RInv)
  BY InitIInv, InitRInv, NextIInv, NextRInv, PTL DEF Spec

\* Deleting an account and transferring its servers leaves no record under it, even one that a
\* sweep listed under that account and is settling, marking or rolling back meanwhile.
THEOREM OwnersStayAccounts == Spec => []OwnersExist
<1>1. RInv => OwnersExist
  BY DEF RInv, Owned, OwnersExist
<1> QED BY <1>1, RInvHolds, PTL

-----------------------------------------------------------------------------
(* The refinement: records and claims as the contract sees them.            *)

ContractStep == [Contract!Next]_(Contract!vars)

LEMMA ClaimsFacts ==
    /\ \A c : c \in Claims <=> \E l \in Listers, s \in Servers :
                                Listed(l, s) /\ c = <<s, RecordState(lister[l].snap[s])>>
    /\ \A c : c \in Claims' <=> \E l \in Listers, s \in Servers :
                                Listed(l, s)' /\ c = <<s, RecordState(lister'[l].snap[s])>>
BY DEF Claims, Listed

LEMMA ClaimsTyped ==
    ASSUME IInv, RInv
    PROVE  Claims \subseteq Servers \X {"due", "unreadable"}
<1>1. \A l \in Listers, s \in Servers : Listed(l, s) =>
         RecordState(lister[l].snap[s]) \in {"due", "unreadable"}
  BY TableFacts, ActionableState DEF IInv, RInv, SnapsHold
<1> QED BY <1>1, ClaimsFacts

LEMMA ClaimsShrink ==
    ASSUME \A l \in Listers : lister'[l].snap = lister[l].snap \/ lister'[l] = IdleLister
    PROVE  /\ Claims' \subseteq Claims
           /\ (\A l \in Listers : lister'[l].snap = lister[l].snap) => Claims' = Claims
<1>1. \A l \in Listers, s \in Servers : Listed(l, s)' =>
         Listed(l, s) /\ lister'[l].snap[s] = lister[l].snap[s]
  BY DEF Listed, IdleLister, Exists
<1>2. ASSUME \A l \in Listers : lister'[l].snap = lister[l].snap
      PROVE  \A l \in Listers, s \in Servers : Listed(l, s)' = Listed(l, s)
  BY <1>2 DEF Listed
<1>3. Claims' \subseteq Claims
  BY <1>1, ClaimsFacts
<1>4. ASSUME \A l \in Listers : lister'[l].snap = lister[l].snap
      PROVE  Claims' = Claims
  BY <1>2, <1>4, ClaimsFacts
<1> QED BY <1>3, <1>4

\* Nothing the contract speaks of has changed.
LEMMA Stutters ==
    ASSUME \A s \in Servers : RecordState(table'[s]) = RecordState(table[s]),
           \A l \in Listers : lister'[l].snap = lister[l].snap,
           UNCHANGED <<guest, audited>>
    PROVE  ContractStep
<1>1. Claims' = Claims
  BY ClaimsShrink
<1> QED BY <1>1 DEF ContractStep, Contract!vars

\* A sweep removes R, marks F and lets go of what it listed.
LEMMA SettlesImplement ==
    ASSUME IInv, RInv, UNCHANGED <<guest, audited>>,
           \A l \in Listers : lister'[l].snap = lister[l].snap \/ lister'[l] = IdleLister,
           \A s \in Servers :
              \/ RecordState(table'[s]) = RecordState(table[s])
              \/ /\ RecordState(table'[s]) = "removed" /\ guest[s] # "present"
                 /\ \E l \in Listers : ListedDue(l, s)
              \/ /\ RecordState(table'[s]) = "failed" /\ RecordState(table[s]) # "removed"
                 /\ \E l \in Listers : Listed(l, s)
    PROVE  ContractStep
<1> DEFINE same == {s \in Servers : RecordState(table'[s]) = RecordState(table[s])}
           R == {s \in Servers \ same : RecordState(table'[s]) = "removed"}
           F == {s \in Servers \ same : RecordState(table'[s]) = "failed"}
<1>1. Claims' \in SUBSET Claims
  BY ClaimsShrink
<1>2. \A s \in R : <<s, "due">> \in Claims /\ guest[s] # "present"
  BY ClaimsFacts DEF ListedDue
<1>3. \A s \in F : RecordState(table[s]) # "removed"
                  /\ \E v \in {"due", "unreadable"} : <<s, v>> \in Claims
  <2>1. ASSUME NEW s \in F PROVE \E v \in {"due", "unreadable"} : <<s, v>> \in Claims
    <3>1. PICK l \in Listers : Listed(l, s)
      OBVIOUS
    <3>2. <<s, RecordState(lister[l].snap[s])>> \in Claims
      BY <3>1, ClaimsFacts
    <3> QED BY <3>2, ClaimsTyped
  <2> QED BY <2>1
<1>4. \A s \in Servers : RecordState(table'[s]) =
         IF s \in R THEN "removed" ELSE IF s \in F THEN "failed" ELSE RecordState(table[s])
  OBVIOUS
<1>5. R \subseteq Servers /\ F \subseteq Servers
  OBVIOUS
<1> HIDE DEF R, F, same
<1>6. Contract!Settle(R, F, Claims')
  BY <1>1, <1>2, <1>3, <1>4, <1>5 DEF Contract!Settle, Contract!Verdicts
<1> QED BY <1>1, <1>5, <1>6 DEF ContractStep, Contract!Next

LEMMA ListingImplements ==
    ASSUME IInv, RInv, NEW l \in Listers, Listing(l)
    PROVE  ContractStep
<1> DEFINE C == {<<s, RecordState(table[s])>> : s \in {x \in Servers : Actionable(table[x])}}
<1>1. /\ \A k \in Listers \ {l} : lister'[k] = lister[k]
      /\ \A s \in Servers : lister'[l].snap[s] = IF Actionable(table[s]) THEN table[s] ELSE NoRow
  BY DEF Listing, IInv, TypeOK
<1>2. \A s \in Servers : ~Listed(l, s)
  BY DEF Listing, RInv, SnapsHold
<1>3. \A s \in Servers : Listed(l, s)' <=> Actionable(table[s])
  BY <1>1 DEF Listed, Exists, Actionable
<1>4. \A k \in Listers \ {l}, s \in Servers : Listed(k, s)' = Listed(k, s)
  BY <1>1 DEF Listed
<1>5. Claims' = Claims \cup C
  <2>1. ASSUME NEW c \in Claims' PROVE c \in Claims \cup C
    <3>1. PICK k \in Listers, s \in Servers :
             Listed(k, s)' /\ c = <<s, RecordState(lister'[k].snap[s])>>
      BY <2>1, ClaimsFacts
    <3>2. CASE k = l
      BY <1>1, <1>3, <3>1, <3>2
    <3>3. CASE k # l
      BY <1>1, <1>4, <3>1, <3>3, ClaimsFacts
    <3> QED BY <3>2, <3>3
  <2>2. ASSUME NEW c \in Claims PROVE c \in Claims'
    <3>1. PICK k \in Listers, s \in Servers :
             Listed(k, s) /\ c = <<s, RecordState(lister[k].snap[s])>>
      BY <2>2, ClaimsFacts
    <3> QED BY <1>1, <1>2, <1>4, <3>1, ClaimsFacts
  <2>3. ASSUME NEW c \in C PROVE c \in Claims'
    BY <1>1, <1>3, ClaimsFacts
  <2> QED BY <2>1, <2>2, <2>3
<1>6. /\ \A c \in C : c[1] \in Servers /\ c[2] = RecordState(table[c[1]])
      /\ C \in SUBSET (Servers \X {"due", "unreadable"})
  <2>1. \A s \in Servers : Actionable(table[s]) => RecordState(table[s]) \in {"due", "unreadable"}
    BY TableFacts, ActionableState DEF IInv, Actionable
  <2> QED BY <2>1
<1>7. UNCHANGED <<table, guest, audited>>
  BY DEF Listing
<1> HIDE DEF C
<1>8. Contract!Claim(C)
  BY <1>5, <1>6, <1>7 DEF Contract!Claim
<1> QED BY <1>6, <1>8 DEF ContractStep, Contract!Next, Contract!Verdicts

LEMMA DestroyImplements ==
    ASSUME IInv, RInv, NEW l \in Listers, NEW s \in Servers, Destroy(l, s)
    PROVE  ContractStep
<1>1. \A k \in Listers : lister'[k].snap = lister[k].snap
  BY DEF Destroy, IInv, TypeOK, ListerType
<1>2. Claims' = Claims
  BY <1>1, ClaimsShrink
<1>3. <<s, "due">> \in Claims
  BY DestroyListed, ClaimsFacts DEF ListedDue
<1>4. UNCHANGED <<table, audited>> /\ guest \in [Servers -> Guests]
  BY DEF Destroy, IInv, TypeOK
<1>5. CASE guest' = guest
  BY <1>1, <1>4, <1>5, Stutters
<1>6. CASE guest' # guest
  <2>1. guest[s] = "present" /\ guest' = [guest EXCEPT ![s] = "swept"]
    BY <1>4, <1>6 DEF Destroy
  <2>2. Contract!Destroy(s)
    BY <1>2, <1>3, <1>4, <2>1 DEF Contract!Destroy
  <2> QED BY <2>2 DEF ContractStep, Contract!Next
<1> QED BY <1>5, <1>6

LEMMA CommitImplements ==
    ASSUME IInv, RInv, NEW l \in Listers, Commit(l) \/ Rollback(l)
    PROVE  ContractStep
<1>1. \A k \in Listers : lister'[k].snap = lister[k].snap \/ lister'[k] = IdleLister
  BY DEF Commit, Rollback, IInv, TypeOK
<1>2. ASSUME NEW s \in Servers
      PROVE  \/ RecordState(table'[s]) = RecordState(table[s])
             \/ /\ RecordState(table'[s]) = "removed" /\ guest[s] # "present"
                /\ \E k \in Listers : ListedDue(k, s)
             \/ /\ RecordState(table'[s]) = "failed" /\ RecordState(table[s]) # "removed"
                /\ \E k \in Listers : Listed(k, s)
  <2>1. CASE table' = table
    BY <2>1
  <2>2. CASE writer = l /\ table' = draft
    <3>1. CASE draft[s] = table[s]
      BY <2>2, <3>1
    <3>2. CASE ~Exists(draft[s]) /\ ListedDue(l, s) /\ guest[s] # "present"
      BY <2>2, <3>2, StateFacts
    <3>3. CASE Exists(table[s]) /\ draft[s] = Marked(table[s]) /\ Listed(l, s)
      <4>1. table[s] \in Row /\ draft[s] \in Row /\ draft[s].failed
        BY <3>3, TableFacts, MarkedFacts DEF IInv
      <4> QED BY <2>2, <3>3, <4>1, StateFacts
    <3> QED BY <2>2, <3>1, <3>2, <3>3 DEF RInv, DraftsFollow
  <2> QED BY <2>1, <2>2 DEF Commit, Rollback
<1>3. UNCHANGED <<guest, audited>>
  BY DEF Commit, Rollback
<1> QED BY <1>1, <1>2, <1>3, SettlesImplement

LEMMA CrashImplements ==
    ASSUME IInv, RInv, Crash
    PROVE  ContractStep
BY SettlesImplement DEF Crash

\* What a sweep does in its own transaction, or to its own bookkeeping, is not visible.
LEMMA SweepStutters ==
    ASSUME IInv, RInv, NEW l \in Listers,
           \/ \E s \in Servers : FlagUnreadable(l, s) \/ Refuse(l, s)
           \/ Settle(l) \/ SweepEnds(l)
    PROVE  ContractStep
<1>1. \A k \in Listers : lister'[k].snap = lister[k].snap
  <2>1. ASSUME NEW s \in Servers, NEW b \in BOOLEAN, Concludes(l, s, b)
        PROVE  \A k \in Listers : lister'[k].snap = lister[k].snap
    BY <2>1, ConcludesKeeps DEF IInv, RInv
  <2>2. ASSUME NEW s \in Servers, MarkFailed(l, s) \/ RemoveRow(l, s)
        PROVE  \A k \in Listers : lister'[k].snap = lister[k].snap
    BY <2>1, <2>2 DEF MarkFailed, RemoveRow
  <2>3. Settle(l) => lister[l].cur \in Servers
    BY DEF IInv, Settle, Settling
  <2>4. CASE SweepEnds(l)
    BY <2>4 DEF SweepEnds, IInv, TypeOK, ListerType
  <2> QED BY <2>2, <2>3, <2>4 DEF FlagUnreadable, Refuse, Settle
<1>2. UNCHANGED <<table, guest, audited>>
  BY DEF FlagUnreadable, Refuse, Settle, SweepEnds
<1> QED BY <1>1, <1>2, Stutters

\* A request or its cancellation schedules, cancels, or comes to nothing.
LEMMA WriteScheduleImplements ==
    ASSUME IInv, RInv, NEW h \in Handlers, WriteRequest(h) \/ WriteCancel(h)
    PROVE  ContractStep
<1> DEFINE s == handler[h].srv
<1>1. PICK value \in {0, NotRequested}, step \in {"request", "cancel"} :
         /\ WriteSchedule(h, step, value)
         /\ step = "request" => value = 0
         /\ step = "cancel" => value = NotRequested
  BY DEF WriteRequest, WriteCancel
<1>2. /\ UNCHANGED <<guest, audited, lister>> /\ handler[h].pc = step
      /\ Claims' = Claims
  BY <1>1, ClaimsShrink DEF WriteSchedule
<1>3. CASE table' = table
  BY <1>2, <1>3, Stutters
<1>4. CASE table' # table
  <2>1. /\ s \in Servers /\ table[s] \in Row /\ table'[s] \in Row
        /\ table'[s].failed = table[s].failed /\ table'[s].requested = value
        /\ \A x \in Servers \ {s} : table'[x] = table[x]
    BY <1>1, <1>4, ScheduleWritten
  <2>2. \A x \in Servers \ {s} : RecordState(table'[x]) = RecordState(table[x])
    BY <2>1
  <2>3. CASE table[s].failed
    <3>1. RecordState(table'[s]) = RecordState(table[s])
      BY <2>1, <2>3, StateFacts
    <3> QED BY <1>2, <2>2, <3>1, Stutters
  <2>4. CASE ~table[s].failed /\ step = "request"
    <3>1. RecordState(table'[s]) = "pending"
      BY <1>1, <2>1, <2>4, StateFacts, BoundsAssumption
    <3>2. table[s].requested \in {NotRequested, 0}
      BY <1>2, <2>1, <2>4, RowFacts DEF RInv, RequestsWait
    <3>3. CASE table[s].requested = 0
      <4>1. RecordState(table[s]) = "pending"
        BY <2>1, <2>4, <3>3, StateFacts, BoundsAssumption
      <4> QED BY <1>2, <2>2, <3>1, <4>1, Stutters
    <3>4. CASE table[s].requested = NotRequested
      <4>1. RecordState(table[s]) = "live"
        BY <2>1, <2>4, <3>4, StateFacts
      <4> HIDE DEF s
      <4>2. Contract!Schedule(s)
        BY <1>2, <2>1, <2>2, <3>1, <4>1 DEF Contract!Schedule
      <4> QED BY <2>1, <4>2 DEF ContractStep, Contract!Next
    <3> QED BY <3>2, <3>3, <3>4
  <2>5. CASE ~table[s].failed /\ step = "cancel"
    <3>1. RecordState(table'[s]) = "live"
      BY <1>1, <2>1, <2>5, StateFacts
    <3>2. RecordState(table[s]) \in {"live", "pending", "due", "unreadable"}
      BY <2>1, <2>5, RowFacts DEF RecordState
    <3>3. CASE RecordState(table[s]) = "live"
      BY <1>2, <2>2, <3>1, <3>3, Stutters
    <3>4. CASE RecordState(table[s]) # "live"
      <4> HIDE DEF s
      <4>1. Contract!Cancel(s)
        BY <1>2, <2>1, <2>2, <3>1, <3>2, <3>4 DEF Contract!Cancel
      <4> QED BY <2>1, <4>1 DEF ContractStep, Contract!Next
    <3> QED BY <3>3, <3>4
  <2> QED BY <2>3, <2>4, <2>5
<1> QED BY <1>3, <1>4

LEMMA ForceDestroyImplements ==
    ASSUME IInv, RInv, NEW h \in Handlers, ForceDestroy(h)
    PROVE  ContractStep
<1> DEFINE s == handler[h].srv
<1>1. /\ s \in Servers /\ guest \in [Servers -> Guests]
      /\ UNCHANGED <<table, lister, audited>>
  BY DEF ForceDestroy, IInv, Forcing, TypeOK
<1>2. Claims' = Claims
  BY <1>1, ClaimsShrink
<1>3. CASE guest' = guest
  BY <1>1, <1>3, Stutters
<1>4. CASE guest' # guest
  <2>1. guest[s] = "present" /\ guest' = [guest EXCEPT ![s] = "gone"]
    BY <1>1, <1>4 DEF ForceDestroy
  <2> HIDE DEF s
  <2>2. Contract!Lose(s)
    BY <1>1, <1>2, <2>1 DEF Contract!Lose
  <2> QED BY <1>1, <2>2 DEF ContractStep, Contract!Next
<1> QED BY <1>3, <1>4

\* A force-removal takes the record and reports a guest it could not destroy; when the record
\* has changed hands it reports only.
LEMMA ForceDeleteImplements ==
    ASSUME IInv, RInv, NEW h \in Handlers, ForceDelete(h)
    PROVE  ContractStep
<1> DEFINE s == handler[h].srv
<1>1. /\ s \in Servers /\ table \in Table /\ UNCHANGED <<guest, lister>>
      /\ handler[h].ok => guest[s] # "present"
      /\ audited' = IF handler[h].ok THEN audited ELSE audited \cup {s}
  BY DEF ForceDelete, IInv, Forcing, TypeOK
<1>2. Claims' = Claims
  BY <1>1, ClaimsShrink
<1>3. CASE StillOwned(h)
  <2>1. table' = [table EXCEPT ![s] = NoRow]
    BY <1>3 DEF ForceDelete, WriteNow
  <2> HIDE DEF s
  <2>2. /\ RecordState(table'[s]) = "removed"
        /\ \A x \in Servers \ {s} : RecordState(table'[x]) = RecordState(table[x])
    BY <1>1, <2>1, StateFacts DEF Table, Exists
  <2>3. Contract!ForceRemove(s)
    BY <1>1, <1>2, <2>2 DEF Contract!ForceRemove
  <2> QED BY <1>1, <2>3 DEF ContractStep, Contract!Next
<1>4. CASE ~StillOwned(h)
  <2>1. table' = table
    BY <1>4 DEF ForceDelete, WriteNow
  <2> HIDE DEF s
  <2>2. CASE handler[h].ok
    BY <1>1, <2>1, <2>2, Stutters
  <2>3. CASE ~handler[h].ok
    <3>1. Contract!Report(s)
      BY <1>1, <1>2, <2>1, <2>3 DEF Contract!Report
    <3> QED BY <1>1, <3>1 DEF ContractStep, Contract!Next
  <2> QED BY <2>2, <2>3
<1> QED BY <1>3, <1>4

LEMMA LoseGuestImplements ==
    ASSUME NEW s \in Servers, LoseGuest(s)
    PROVE  ContractStep
<1>1. UNCHANGED <<table, lister, audited>>
  BY DEF LoseGuest
<1>2. Claims' = Claims
  BY <1>1, ClaimsShrink
<1>3. Contract!Lose(s)
  BY <1>1, <1>2 DEF Contract!Lose, LoseGuest
<1> QED BY <1>3 DEF ContractStep, Contract!Next

LEMMA TickImplements ==
    ASSUME IInv, Tick
    PROVE  ContractStep
<1> DEFINE S == {s \in Servers : RecordState(table'[s]) # RecordState(table[s])}
<1>1. /\ table \in Table /\ table' = Aged(table) /\ UNCHANGED <<guest, lister, audited>>
  BY DEF Tick, IInv, TypeOK
<1>2. Claims' = Claims
  BY <1>1, ClaimsShrink
<1>3. \A s \in Servers : \/ RecordState(table'[s]) = RecordState(table[s])
                         \/ RecordState(table[s]) = "pending" /\ RecordState(table'[s]) = "due"
  BY <1>1, AgedRow
<1>4. /\ \A s \in S : RecordState(table[s]) = "pending"
      /\ \A s \in Servers : RecordState(table'[s]) = IF s \in S THEN "due"
                                                     ELSE RecordState(table[s])
      /\ S \in SUBSET Servers
  BY <1>3
<1> HIDE DEF S
<1>5. Contract!Expire(S)
  BY <1>1, <1>2, <1>4 DEF Contract!Expire
<1> QED BY <1>4, <1>5 DEF ContractStep, Contract!Next

LEMMA TransferImplements ==
    ASSUME IInv, NEW u \in Users, NEW v \in Users, TransferServers(u, v)
    PROVE  ContractStep
<1>1. ASSUME NEW s \in Servers PROVE RecordState(table'[s]) = RecordState(table[s])
  <2>1. CASE Exists(table[s]) /\ table[s].owner = u
    <3>1. table[s] \in Row /\ table'[s] = [table[s] EXCEPT !.owner = v]
      BY <2>1, RowFacts DEF TransferServers, WriteNow, IInv, TypeOK, Table
    <3>2. /\ table'[s] \in Row /\ table'[s].failed = table[s].failed
          /\ table'[s].requested = table[s].requested
      BY <3>1 DEF Row
    <3> QED BY <3>1, <3>2, RowFacts DEF RecordState
  <2>2. CASE ~(Exists(table[s]) /\ table[s].owner = u)
    BY <2>2 DEF TransferServers, WriteNow
  <2> QED BY <2>1, <2>2
<1> QED BY <1>1, Stutters DEF TransferServers

LEMMA NextImplements == IInv /\ RInv /\ [Next]_vars => ContractStep
<1> SUFFICES ASSUME IInv, RInv, [Next]_vars PROVE ContractStep
  OBVIOUS
<1>1. ASSUME NEW l \in Listers, Listing(l) \/ SweepStep(l) \/ Rollback(l)
      PROVE  ContractStep
  BY <1>1, ListingImplements, SweepStutters, DestroyImplements, CommitImplements DEF SweepStep
<1>2. ASSUME NEW h \in Handlers, HandlerStep(h) PROVE ContractStep
  <2>1. ASSUME NEW a \in accounts, NEW s \in Servers,
               BeginRequest(h, a, s) \/ BeginCancel(h, a, s) \/ BeginForceRemove(h, a, s)
        PROVE  ContractStep
    BY <2>1, Stutters DEF BeginRequest, BeginCancel, BeginForceRemove, Begins
  <2>2. CASE HandlerTimesOut(h)
    BY <2>2, Stutters DEF HandlerTimesOut
  <2> QED BY <1>2, <2>1, <2>2, WriteScheduleImplements, ForceDestroyImplements,
             ForceDeleteImplements DEF HandlerStep
<1>3. CASE Surroundings
  <2>1. CASE ToggleProvider \/ OthersWrite \/ OthersCommit
    BY <2>1, Stutters DEF ToggleProvider, OthersWrite, OthersCommit
  <2> QED BY <1>3, <2>1, TransferImplements, LoseGuestImplements, TickImplements,
             CrashImplements DEF Surroundings
<1>4. CASE UNCHANGED vars
  BY <1>4, Stutters DEF vars
<1> QED BY <1>1, <1>2, <1>3, <1>4 DEF Next

LEMMA InitImplements == Init => Contract!Init
<1> SUFFICES ASSUME Init PROVE Contract!Init
  OBVIOUS
<1>1. \A s \in Servers : RecordState(table[s]) \in {"live", "unreadable"}
  <2>1. \A s \in Servers : /\ table[s] \in Row /\ ~table[s].failed
                           /\ table[s].requested \in {NotRequested, Unreadable}
    BY DEF Init, Row
  <2> QED BY <2>1, StateFacts
<1>2. Claims = {}
  <2>1. \A l \in Listers, s \in Servers : ~Listed(l, s)
    BY DEF Init, Listed, IdleLister, Exists
  <2> QED BY <2>1, ClaimsFacts
<1> QED BY <1>1, <1>2 DEF Init, Contract!Init

\* However the requests, sweeps, commits and crashes interleave, every step is one the
\* contract allows: only a record seen due lets a sweep destroy a guest, and a record leaves
\* the database only without its guest or with a report.
THEOREM Implements == Spec => MeetsContract
<1>1. Init => Contract!Init
  BY InitImplements
<1>2. IInv /\ RInv /\ [Next]_vars => [Contract!Next]_(Contract!vars)
  BY NextImplements DEF ContractStep
<1> QED BY <1>1, <1>2, RInvHolds, PTL DEF Spec, MeetsContract, Contract!Spec
=============================================================================
