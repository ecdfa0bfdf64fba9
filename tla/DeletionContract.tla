--------------------------- MODULE DeletionContract ---------------------------
(***************************************************************************)
(* What deferred deletion promises about every server, whatever the        *)
(* requests, the sweeps, the database and the hypervisor interleave to.    *)
(* A record waits a whole grace window before a sweep may claim it; only a *)
(* claim lets a sweep destroy the guest or settle the record; a record     *)
(* leaves the database only when its guest is gone, or when an             *)
(* administrator's force-removal reports that it may not be.               *)
(***************************************************************************)
CONSTANT Servers

VARIABLES
    record,     \* what the database says of a server
    guest,      \* the LXC or VM behind it
    claims,     \* <<server, verdict>> pairs some running sweep has listed
    reported    \* servers force-removed without a confirmed destroy

vars == <<record, guest, claims, reported>>

Records  == {"live", "pending", "due", "unreadable", "failed", "removed"}
Guests   == {"none", "present", "swept", "gone"}
Verdicts == {"due", "unreadable"}

TypeOK ==
    /\ record \in [Servers -> Records]
    /\ guest \in [Servers -> Guests]
    /\ claims \subseteq Servers \X Verdicts
    /\ reported \subseteq Servers

Init ==
    /\ record \in [Servers -> {"live", "unreadable"}]
    /\ guest \in [Servers -> {"none", "present"}]
    /\ claims = {}
    /\ reported = {}

-----------------------------------------------------------------------------
(* The people who manage the server.                                       *)

Schedule(s) ==
    /\ record[s] = "live"
    /\ record' = [record EXCEPT ![s] = "pending"]
    /\ UNCHANGED <<guest, claims, reported>>

Cancel(s) ==
    /\ record[s] \in {"pending", "due", "unreadable"}
    /\ record' = [record EXCEPT ![s] = "live"]
    /\ UNCHANGED <<guest, claims, reported>>

ForceRemove(s) ==
    /\ record' = [record EXCEPT ![s] = "removed"]
    /\ \/ guest[s] # "present" /\ reported' = reported
       \/ reported' = reported \cup {s}
    /\ UNCHANGED <<guest, claims>>

\* A force-removal whose record has meanwhile moved to another account
\* still reports the guest it could not destroy.
Report(s) ==
    /\ reported' = reported \cup {s}
    /\ UNCHANGED <<record, guest, claims>>

-----------------------------------------------------------------------------
(* Time, the sweep and the outside world.                                  *)

Expire(S) ==
    /\ \A s \in S : record[s] = "pending"
    /\ record' = [s \in Servers |-> IF s \in S THEN "due" ELSE record[s]]
    /\ UNCHANGED <<guest, claims, reported>>

\* A sweep lists records: each claim is true of the record when it is made.
Claim(C) ==
    /\ \A c \in C : record[c[1]] = c[2]
    /\ claims' = claims \cup C
    /\ UNCHANGED <<record, guest, reported>>

Destroy(s) ==
    /\ <<s, "due">> \in claims
    /\ guest[s] = "present"
    /\ guest' = [guest EXCEPT ![s] = "swept"]
    /\ UNCHANGED <<record, claims, reported>>

\* A guest that goes away by another hand than the sweep's.
Lose(s) ==
    /\ guest[s] = "present"
    /\ guest' = [guest EXCEPT ![s] = "gone"]
    /\ UNCHANGED <<record, claims, reported>>

\* A sweep commits: it removes R, marks F failed and lets go of claims.
Settle(R, F, kept) ==
    /\ \A s \in R : <<s, "due">> \in claims /\ guest[s] # "present"
    /\ \A s \in F : \E v \in Verdicts : <<s, v>> \in claims
    /\ \A s \in F : record[s] # "removed"
    /\ record' = [s \in Servers |-> IF s \in R THEN "removed"
                                    ELSE IF s \in F THEN "failed" ELSE record[s]]
    /\ kept \subseteq claims
    /\ claims' = kept
    /\ UNCHANGED <<guest, reported>>

Next ==
    \/ \E s \in Servers : \/ Schedule(s) \/ Cancel(s) \/ ForceRemove(s)
                          \/ Report(s) \/ Destroy(s) \/ Lose(s)
    \/ \E S \in SUBSET Servers : Expire(S)
    \/ \E C \in SUBSET (Servers \X Verdicts) : Claim(C)
    \/ \E R, F \in SUBSET Servers : \E kept \in SUBSET claims : Settle(R, F, kept)

Spec == Init /\ [][Next]_vars
=============================================================================
