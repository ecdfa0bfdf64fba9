-------------------------------- MODULE MCFleet --------------------------------
(* Small instances of Fleet for TLC.                                        *)
EXTENDS Fleet, TLC

CONSTANTS u1, u2, t1, t2, x1, x2, d1, d2, p1, p2

MCAdmins     == {u1}
MCTwoAdmins  == {u1, u2}
MCTwoUsers   == {u1, u2}
MCOneTemplate == {t1}
MCTwoTemplates == {t1, t2}
MCOneSuffix  == {x1}
MCTwoSuffixes == {x1, x2}
MCTwoVmids   == 1 .. 2
MCTwoServers == 1 .. 2
MCThreeServers == 1 .. 3
MCOneDesk    == {d1}
MCTwoDesks   == {d1, d2}
MCOnePortal  == {p1}
MCTwoPortals == {p1, p2}
MCNone       == {}
MCAllKinds   == AdminKinds
MCUpdates    == {"update", "deleteUser"}

Symmetry == Permutations(MCTwoSuffixes) \cup Permutations(MCTwoTemplates)
            \cup Permutations(MCTwoPortals)
=============================================================================
