-------------------------- MODULE MCDeferredDeletion --------------------------
(* Small instances of DeferredDeletion for TLC.                            *)
EXTENDS DeferredDeletion, TLC

CONSTANTS s1, s2, root, ann, l1, l2, h1, h2

MCOneServer   == {s1}
MCTwoServers  == {s1, s2}
MCAdmins      == {root}
MCTwoUsers    == {root, ann}
MCSelfService == {ann}
MCNoOne       == {}
MCOneLister   == {l1}
MCTwoListers  == {l1, l2}
MCOneHandler  == {h1}
MCTwoHandlers == {h1, h2}

ServerSymmetry  == Permutations(MCTwoServers)
ListerSymmetry  == Permutations(MCTwoListers)
ProcessSymmetry == Permutations(MCTwoListers) \cup Permutations(MCTwoHandlers)
=============================================================================
