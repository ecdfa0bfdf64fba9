----------------------------- MODULE MCTrustedMesh -----------------------------
(* Small instances of TrustedMesh for TLC.                                  *)
EXTENDS TrustedMesh, TLC

CONSTANTS g1, g2, g3, a1, a2, a3

MCGuests    == {g1, g2, g3}
MCAddresses == {a1, a2, a3}
MCApart     == g1 :> a1 @@ g2 :> a2 @@ g3 :> a3
MCReused    == g1 :> a1 @@ g2 :> a2 @@ g3 :> a1
=============================================================================
