---------------------------- MODULE EkaHandshake ----------------------------
(***************************************************************************)
(* The three-message key agreement (eka.rs) with any number of handshakes  *)
(* running at once over a network that loses, repeats, reorders, misroutes *)
(* and corrupts messages.  Every end is one EkaInitiator or EkaResponder   *)
(* value, and is consumed by the message that completes or fails it.       *)
(*                                                                         *)
(* Hashes, tags and keys are written as what went into them, so two are    *)
(* equal exactly when everything that was hashed, authenticated or derived *)
(* is.  The two tags cover messages of different length (80 and 96 bytes), *)
(* so one is never the other.                                              *)
(***************************************************************************)
EXTENDS Naturals

CONSTANTS
    Initiators,  \* EkaInitiator values, one per handshake started
    Responders,  \* EkaResponder values, one per handshake answered
    Psks,        \* pre-shared keys
    Snapshots,   \* what gather() can return
    None,        \* a field that is not set yet
    Garbled      \* what a corrupted hash or tag has become

VARIABLES
    initiator,   \* per initiator, the fields of EkaInitiator and its result
    responder,   \* per responder, the fields of EkaResponder and its result
    msgs1,       \* every EkaMsg1 sent
    msgs2,       \* every EkaMsg2 sent
    msgs3        \* every EkaMsg3 sent

vars == <<initiator, responder, msgs1, msgs2, msgs3>>

-----------------------------------------------------------------------------
(* Derived values *)

(* kk_hash of a serialized snapshot, or a commitment spoilt on the way. *)
Commit(e) == [hash |-> e]
Commits == [hash : Snapshots] \cup {Garbled}

(* Mutant of AuthB: the commitment is not authenticated. *)
AuthBWithoutCommit(psk, eb, c) == [psk |-> psk, b |-> eb, commit |-> Garbled]

(* kk_mac(psk, entropy_b || commit_a) *)
AuthB(psk, eb, c) == [psk |-> psk, b |-> eb, commit |-> c]
AuthsB == [psk : Psks, b : Snapshots, commit : Commits] \cup {Garbled}

(* Mutant of AuthA: Bob's entropy is not authenticated. *)
AuthAWithoutB(psk, ea, eb) == [psk |-> psk, a |-> ea, b |-> ea]

(* kk_mac(psk, entropy_a || entropy_b) *)
AuthA(psk, ea, eb) == [psk |-> psk, a |-> ea, b |-> eb]
AuthsA == [psk : Psks, a : Snapshots, b : Snapshots] \cup {Garbled}

(* kk_kdf(psk, entropy_a || entropy_b, "KK-EKA-session", 32) *)
SessionKey(psk, ea, eb) == [psk |-> psk, salt_a |-> ea, salt_b |-> eb]
Keys == [psk : Psks, salt_a : Snapshots, salt_b : Snapshots]

Msg1 == [commit : Commits]
Msg2 == [b : Snapshots, auth : AuthsB]
Msg3 == [a : Snapshots, auth : AuthsA]

(* What stands for nothing is nothing else. *)
ASSUME NamesAssumption ==
    /\ None \notin Psks /\ None \notin Snapshots /\ None \notin Keys
    /\ Garbled \notin [hash : Snapshots]
    /\ Garbled \notin [psk : Psks, b : Snapshots, commit : Commits]
    /\ Garbled \notin [psk : Psks, a : Snapshots, b : Snapshots]

(* An end has its fields from the start on, and a key exactly if it is done. *)
NoInitiator == [pc |-> "new", psk |-> None, ent |-> None, key |-> None]
InitiatorStates ==
    {NoInitiator}
    \cup [pc : {"sent", "failed"}, psk : Psks, ent : Snapshots, key : {None}]
    \cup [pc : {"done"}, psk : Psks, ent : Snapshots, key : Keys]

NoResponder == [pc |-> "new", psk |-> None, ent |-> None, commit |-> None, key |-> None]
ResponderStates ==
    {NoResponder}
    \cup [pc : {"sent", "failed"}, psk : Psks, ent : Snapshots, commit : Commits,
          key : {None}]
    \cup [pc : {"done"}, psk : Psks, ent : Snapshots, commit : Commits, key : Keys]

(* gather() returns a snapshot no handshake has: the entropy differs. *)
Used == {initiator[i].ent : i \in Initiators} \cup {responder[r].ent : r \in Responders}
Fresh == Snapshots \ Used

-----------------------------------------------------------------------------
(* What a message can be when it arrives: as sent, or corrupted in a way   *)
(* that still parses.                                                      *)
Arrives1 == msgs1 \cup {[commit |-> Garbled]}
Arrives2 == msgs2 \cup {[m EXCEPT !.b = e] : m \in msgs2, e \in Snapshots}
                  \cup {[m EXCEPT !.auth = Garbled] : m \in msgs2}
Arrives3 == msgs3 \cup {[m EXCEPT !.a = e] : m \in msgs3, e \in Snapshots}
                  \cup {[m EXCEPT !.auth = Garbled] : m \in msgs3}

-----------------------------------------------------------------------------
(* The initiator *)

(* EkaInitiator::new *)
NewInitiator(i, psk) ==
    /\ initiator[i].pc = "new"
    /\ \E e \in Fresh :
          /\ initiator' = [initiator EXCEPT
                 ![i] = [pc |-> "sent", psk |-> psk, ent |-> e, key |-> None]]
          /\ msgs1' = msgs1 \cup {[commit |-> Commit(e)]}
    /\ UNCHANGED <<responder, msgs2, msgs3>>

(* The test of process_msg2. *)
AcceptsMsg2(i, m) ==
    m.auth = AuthB(initiator[i].psk, m.b, Commit(initiator[i].ent))

(* EkaInitiator::process_msg2 succeeds: message 3 and the session key. *)
ProcessMsg2(i, m) ==
    /\ initiator[i].pc = "sent"
    /\ AcceptsMsg2(i, m)
    /\ initiator' = [initiator EXCEPT
           ![i].pc = "done",
           ![i].key = SessionKey(initiator[i].psk, initiator[i].ent, m.b)]
    /\ msgs3' = msgs3 \cup
           {[a |-> initiator[i].ent,
             auth |-> AuthA(initiator[i].psk, initiator[i].ent, m.b)]}
    /\ UNCHANGED <<responder, msgs1, msgs2>>

(* CommitmentMismatch: the initiator is consumed all the same. *)
RejectMsg2(i, m) ==
    /\ initiator[i].pc = "sent"
    /\ ~ AcceptsMsg2(i, m)
    /\ initiator' = [initiator EXCEPT ![i].pc = "failed"]
    /\ UNCHANGED <<responder, msgs1, msgs2, msgs3>>

-----------------------------------------------------------------------------
(* The responder *)

(* Mutant of NewResponder: a snapshot taken once answers every handshake. *)
NewResponderCached(r, psk, m) ==
    /\ responder[r].pc = "new"
    /\ \E e \in Fresh \cup ({responder[s].ent : s \in Responders} \ {None}) :
          /\ responder' = [responder EXCEPT
                 ![r] = [pc |-> "sent", psk |-> psk, ent |-> e,
                         commit |-> m.commit, key |-> None]]
          /\ msgs2' = msgs2 \cup {[b |-> e, auth |-> AuthB(psk, e, m.commit)]}
    /\ UNCHANGED <<initiator, msgs1, msgs3>>

(* EkaResponder::new answers whatever commitment arrives. *)
NewResponder(r, psk, m) ==
    /\ responder[r].pc = "new"
    /\ \E e \in Fresh :
          /\ responder' = [responder EXCEPT
                 ![r] = [pc |-> "sent", psk |-> psk, ent |-> e,
                         commit |-> m.commit, key |-> None]]
          /\ msgs2' = msgs2 \cup {[b |-> e, auth |-> AuthB(psk, e, m.commit)]}
    /\ UNCHANGED <<initiator, msgs1, msgs3>>

(* Mutant of AcceptsMsg3: the two snapshots are authenticated in the wrong *)
(* order.                                                                  *)
AcceptsMsg3Swapped(r, m) ==
    /\ Commit(m.a) = responder[r].commit
    /\ m.auth = AuthA(responder[r].psk, responder[r].ent, m.a)

(* The two tests of process_msg3. *)
AcceptsMsg3(r, m) ==
    /\ Commit(m.a) = responder[r].commit
    /\ m.auth = AuthA(responder[r].psk, m.a, responder[r].ent)

(* EkaResponder::process_msg3 succeeds: the session key. *)
ProcessMsg3(r, m) ==
    /\ responder[r].pc = "sent"
    /\ AcceptsMsg3(r, m)
    /\ responder' = [responder EXCEPT
           ![r].pc = "done",
           ![r].key = SessionKey(responder[r].psk, m.a, responder[r].ent)]
    /\ UNCHANGED <<initiator, msgs1, msgs2, msgs3>>

(* CommitmentMismatch: the responder is consumed all the same. *)
RejectMsg3(r, m) ==
    /\ responder[r].pc = "sent"
    /\ ~ AcceptsMsg3(r, m)
    /\ responder' = [responder EXCEPT ![r].pc = "failed"]
    /\ UNCHANGED <<initiator, msgs1, msgs2, msgs3>>

-----------------------------------------------------------------------------
Init ==
    /\ initiator = [i \in Initiators |-> NoInitiator]
    /\ responder = [r \in Responders |-> NoResponder]
    /\ msgs1 = {} /\ msgs2 = {} /\ msgs3 = {}

Next ==
    \/ \E i \in Initiators :
          \/ \E psk \in Psks : NewInitiator(i, psk)
          \/ \E m \in Arrives2 : ProcessMsg2(i, m) \/ RejectMsg2(i, m)
    \/ \E r \in Responders :
          \/ \E psk \in Psks, m \in Arrives1 : NewResponder(r, psk, m)
          \/ \E m \in Arrives3 : ProcessMsg3(r, m) \/ RejectMsg3(r, m)

Spec == Init /\ [][Next]_vars

-----------------------------------------------------------------------------
(* Properties *)

(* Every end is in a state its struct can be in, and every message is made *)
(* of hashes and tags.                                                     *)
TypeOK ==
    /\ initiator \in [Initiators -> InitiatorStates]
    /\ responder \in [Responders -> ResponderStates]
    /\ msgs1 \subseteq Msg1 /\ msgs2 \subseteq Msg2 /\ msgs3 \subseteq Msg3

(* A responder that completes shares its key with an initiator that has    *)
(* completed: the one whose message 1 it answered, with the same           *)
(* pre-shared key, and that accepted this responder's own message 2.       *)
ResponderAgrees ==
    \A r \in Responders : responder[r].pc = "done" =>
        \E i \in Initiators :
            /\ initiator[i].pc = "done"
            /\ initiator[i].key = responder[r].key
            /\ initiator[i].psk = responder[r].psk
            /\ responder[r].commit = Commit(initiator[i].ent)
            /\ initiator[i].key.salt_a = initiator[i].ent
            /\ initiator[i].key.salt_b = responder[r].ent

(* An initiator that completes was answered by a responder that holds the  *)
(* same pre-shared key and this initiator's own commitment, and whose      *)
(* entropy is in the key.                                                  *)
InitiatorWasAnswered ==
    \A i \in Initiators : initiator[i].pc = "done" =>
        \E r \in Responders :
            /\ responder[r].psk = initiator[i].psk
            /\ responder[r].commit = Commit(initiator[i].ent)
            /\ initiator[i].key.salt_a = initiator[i].ent
            /\ initiator[i].key.salt_b = responder[r].ent

(* A handshake whose initiator has completed can still be completed at the *)
(* other end: as long as the responder has not been consumed by some other *)
(* message, one that was sent is accepted and yields the initiator's key.  *)
CanComplete ==
    \A i \in Initiators, r \in Responders :
        /\ initiator[i].pc = "done" /\ responder[r].pc = "sent"
        /\ initiator[i].key = SessionKey(responder[r].psk, initiator[i].ent,
                                         responder[r].ent)
        => \E m \in msgs3 :
              AcceptsMsg3(r, m) /\ m.a = initiator[i].ent

(* The handshakes implement key agreement: a key pairs one initiator with  *)
(* at most one responder, whatever the network does.                       *)
Abstract == INSTANCE KeyAgreement
    WITH NoKey   <- None,
         initKey <- [i \in Initiators |-> initiator[i].key],
         respKey <- [r \in Responders |-> responder[r].key]

ImplementsKeyAgreement == Abstract!Spec
=============================================================================
