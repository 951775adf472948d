--------------------------- MODULE MCEkaHandshake ---------------------------
(* Constants of the model-checking runs of EkaHandshake. *)
EXTENDS EkaHandshake, TLC

CONSTANTS i1, i2, r1, r2, p1, p2, e1, e2, e3, e4

TwoInitiators == {i1, i2}
TwoResponders == {r1, r2}
TwoPsks       == {p1, p2}

(* One snapshot for each end. *)
FourSnapshots == {e1, e2, e3, e4}

HandshakeSymmetry ==
    Permutations(TwoInitiators) \cup Permutations(TwoResponders)
        \cup Permutations(TwoPsks) \cup Permutations(FourSnapshots)
=============================================================================
