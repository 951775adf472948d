------------------------------ MODULE MCRngPool ------------------------------
(* Constants of the model-checking run of RngPool. *)
EXTENDS RngPool, TLC

CONSTANTS t1, t2, s1

TwoThreads == {t1, t2}
OneSeed    == {s1}
SomeLengths == {1, 3}

(* Threads are only ever compared. *)
ThreadSymmetry == Permutations(TwoThreads)
=============================================================================
