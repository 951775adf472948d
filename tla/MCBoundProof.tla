---------------------------- MODULE MCBoundProof ----------------------------
(* Constants of the model-checking run of BoundProof. *)
EXTENDS BoundProof, TLC

CONSTANTS n1, n2, b1

TwoNonces == {n1, n2}
OneBody   == {b1}

(* Nonces are only ever compared. *)
NonceSymmetry == Permutations(TwoNonces)
=============================================================================
