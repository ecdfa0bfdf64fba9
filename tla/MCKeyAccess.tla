------------------------------ MODULE MCKeyAccess ------------------------------
(* Small instances of KeyAccess for TLC.                                    *)
EXTENDS KeyAccess, TLC

CONSTANTS u1, u2, s1, h1, h2

MCUsers   == {u1, u2}
MCServers == {s1}
MCOwner   == [s \in MCServers |-> u1]
MCThreads == {h1, h2}
MCModes   == {"per_user", "shared"}
MCKinds   == {"server", "regenerate", "reset", "sync", "newUser", "delete", "switch"}
MCSwitch  == {"switch"}
MCSymmetry == Permutations(MCThreads)
=============================================================================
