---------------------------- MODULE MCRopeSession ----------------------------
(* Constants of the model-checking runs of RopeSession. *)
EXTENDS RopeSession, TLC

CONSTANTS ab, ba, b1, b2, t1, t2, m1

OneContext  == {ab}
TwoContexts == {ab, ba}
TwoBytes    == {b1, b2}
TwoTimes    == {t1, t2}
OneTime     == {t1}
OneBody     == {m1}
=============================================================================
