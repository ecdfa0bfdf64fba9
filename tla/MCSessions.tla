------------------------------- MODULE MCSessions -------------------------------
(* A small instance of Sessions for TLC: the administrator, an account, and *)
(* a second account that would have the same address.                       *)
EXTENDS Sessions, TLC

CONSTANTS root, u1, u2, m1, w1, w2, s1, s2, f1

MCUsers   == {root, u1, u2}
MCAdmins  == {root, u1}
MCMails   == {m1}
MCMail    == [u \in {u1, u2} |-> m1]
MCWorkers == {w1, w2}
MCSids    == {s1, s2}
MCFlows   == {f1}

Symmetry == Permutations(MCWorkers) \cup Permutations(MCSids)
=============================================================================
