---------------------------- MODULE MCEntropyPool ----------------------------
(* Constants of the model-checking run of EntropyPool. *)
EXTENDS EntropyPool, TLC

CONSTANTS d1, d2, s1, s2, s3, s4, s5, s6

TwoDrawers == {d1, d2}

(* Capacity + Cardinality(Drawers) snapshots: a thread that gathers always *)
(* finds one that nobody holds.                                            *)
SixSnapshots   == {s1, s2, s3, s4, s5, s6}
=============================================================================
