------------------------------ MODULE MCProxyPush ------------------------------
(* Small instances of ProxyPush for TLC.                                    *)
EXTENDS ProxyPush, TLC

CONSTANTS a1, a2, w1, w2, w3

MCOneApp       == {a1}
MCTwoApps      == {a1, a2}
MCOneWorker    == {w1}
MCTwoWorkers   == {w1, w2}
MCThreeWorkers == {w1, w2, w3}

\* What administrators and self-service users do, nothing waiting for review.
MCPrivileged == {"create", "edit", "retry", "delete"}
\* One request of each way to reach the file.
MCRewrites   == {"create", "submit", "edit", "retype", "approve", "retry", "delete",
                 "purge", "settings"}
MCEdits      == {"edit"}
MCRetypeAndDelete == {"retype", "delete"}
MCOwner           == OwnerEdits \cup {"approve", "reject", "retry"}

AppSymmetry    == Permutations(MCTwoApps)
WorkerSymmetry == Permutations(MCTwoWorkers)
ThreeSymmetry  == Permutations(MCThreeWorkers)
Symmetry       == AppSymmetry \cup WorkerSymmetry
=============================================================================
