---------------------------- MODULE KeyAgreement ----------------------------
(***************************************************************************)
(* What a key agreement promises to the applications at its two ends: an   *)
(* initiator ends up with a key nobody had before, and a responder with    *)
(* the key of one initiator that no other responder has.  Ends that never  *)
(* complete have no key.                                                   *)
(***************************************************************************)
CONSTANTS
    Initiators,  \* the ends that start a handshake
    Responders,  \* the ends that answer one
    Keys,        \* the session keys
    NoKey        \* what an end has that has not completed

VARIABLES
    initKey,     \* per initiator, its session key
    respKey      \* per responder, its session key

vars == <<initKey, respKey>>

Init ==
    /\ initKey = [i \in Initiators |-> NoKey]
    /\ respKey = [r \in Responders |-> NoKey]

(* The initiator completes first, with a new key. *)
InitiatorCompletes(i) ==
    /\ initKey[i] = NoKey
    /\ \E k \in Keys :
          /\ \A j \in Initiators : initKey[j] # k
          /\ \A r \in Responders : respKey[r] # k
          /\ initKey' = [initKey EXCEPT ![i] = k]
    /\ UNCHANGED respKey

(* A responder completes with the key of one initiator, and is the only    *)
(* responder to do so.                                                     *)
ResponderCompletes(r) ==
    /\ respKey[r] = NoKey
    /\ \E i \in Initiators :
          /\ initKey[i] # NoKey
          /\ \A s \in Responders : respKey[s] # initKey[i]
          /\ respKey' = [respKey EXCEPT ![r] = initKey[i]]
    /\ UNCHANGED initKey

Next == \/ \E i \in Initiators : InitiatorCompletes(i)
        \/ \E r \in Responders : ResponderCompletes(r)

Spec == Init /\ [][Next]_vars
=============================================================================
