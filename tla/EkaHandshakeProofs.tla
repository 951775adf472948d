------------------------- MODULE EkaHandshakeProofs -------------------------
(* Theorems about EkaHandshake, for every value of its constants. *)
EXTENDS EkaHandshake, TLAPS

-----------------------------------------------------------------------------
(* The inductive invariant *)

(* A message 2 was made by a responder that has started, from its fields. *)
FromResponder(m, r) ==
    /\ responder[r].pc # "new"
    /\ m.b = responder[r].ent
    /\ m.auth = AuthB(responder[r].psk, responder[r].ent, responder[r].commit)

Msgs2Inv == \A m \in msgs2 : \E r \in Responders : FromResponder(m, r)

(* A message 3 was made by an initiator that has completed, from its       *)
(* fields and from the other half of its key.                              *)
FromInitiator(m, i) ==
    /\ initiator[i].pc = "done"
    /\ m.a = initiator[i].ent
    /\ m.auth = AuthA(initiator[i].psk, initiator[i].ent, initiator[i].key.salt_b)

Msgs3Inv == \A m \in msgs3 : \E i \in Initiators : FromInitiator(m, i)

(* A completed initiator has derived its key from its own fields, and sent *)
(* its message 3.                                                          *)
KeyInv ==
    \A i \in Initiators : initiator[i].pc = "done" =>
        /\ initiator[i].key = SessionKey(initiator[i].psk, initiator[i].ent,
                                         initiator[i].key.salt_b)
        /\ \E m \in msgs3 : FromInitiator(m, i)

(* No two ends of a kind have the same entropy. *)
DistinctInv ==
    /\ \A i, j \in Initiators :
          initiator[i].ent = initiator[j].ent /\ initiator[i].pc # "new" => i = j
    /\ \A r, s \in Responders :
          responder[r].ent = responder[s].ent /\ responder[r].pc # "new" => r = s

IInv == TypeOK /\ Msgs2Inv /\ Msgs3Inv /\ KeyInv /\ DistinctInv
               /\ ResponderAgrees /\ InitiatorWasAnswered

-----------------------------------------------------------------------------
(* Lemmas about the fields *)

(* An end that has started has its fields. *)
LEMMA InitiatorFields ==
    ASSUME TypeOK, NEW i \in Initiators
    PROVE  /\ initiator[i].pc = "new" => initiator[i] = NoInitiator
           /\ initiator[i].pc # "new" =>
                 initiator[i].psk \in Psks /\ initiator[i].ent \in Snapshots
           /\ initiator[i].pc = "sent" =>
                 initiator[i] \in [pc : {"sent", "failed"}, psk : Psks,
                                   ent : Snapshots, key : {None}]
           /\ initiator[i].pc = "done" => initiator[i].key \in Keys
           /\ initiator[i].pc # "done" => initiator[i].key = None
<1>1. initiator[i] \in InitiatorStates
  BY DEF TypeOK
<1>2. QED
  BY <1>1 DEF InitiatorStates, NoInitiator

LEMMA ResponderFields ==
    ASSUME TypeOK, NEW r \in Responders
    PROVE  /\ responder[r].pc = "new" => responder[r] = NoResponder
           /\ responder[r].pc # "new" =>
                 /\ responder[r].psk \in Psks /\ responder[r].ent \in Snapshots
                 /\ responder[r].commit \in Commits
           /\ responder[r].pc = "sent" =>
                 responder[r] \in [pc : {"sent", "failed"}, psk : Psks,
                                   ent : Snapshots, commit : Commits, key : {None}]
           /\ responder[r].pc = "done" => responder[r].key \in Keys
           /\ responder[r].pc # "done" => responder[r].key = None
<1>1. responder[r] \in ResponderStates
  BY DEF TypeOK
<1>2. QED
  BY <1>1 DEF ResponderStates, NoResponder

(* A message 2 that an initiator accepts was made by a responder with the  *)
(* same pre-shared key for this initiator's commitment, and arrived as it  *)
(* was sent.                                                               *)
LEMMA Genuine2 ==
    ASSUME IInv, NEW i \in Initiators, NEW m \in Arrives2,
           initiator[i].pc = "sent", AcceptsMsg2(i, m)
    PROVE  /\ m.b \in Snapshots
           /\ \E r \in Responders :
                 /\ responder[r].pc # "new"
                 /\ responder[r].psk = initiator[i].psk
                 /\ responder[r].ent = m.b
                 /\ responder[r].commit = Commit(initiator[i].ent)
<1> DEFINE c == Commit(initiator[i].ent)
<1>1. PICK x \in msgs2 :
          \/ m = x
          \/ \E e \in Snapshots : m = [x EXCEPT !.b = e]
          \/ m = [x EXCEPT !.auth = Garbled]
  BY DEF Arrives2
<1>2. x \in Msg2 /\ m \in [b : Snapshots, auth : AuthsB]
  <2>1. x \in Msg2
    BY DEF IInv, TypeOK
  <2>2. Garbled \in AuthsB
    BY DEF AuthsB
  <2>3. QED
    BY <1>1, <2>1, <2>2 DEF Msg2
<1>3. m.auth # Garbled
  <2>1. /\ initiator[i].psk \in Psks /\ initiator[i].ent \in Snapshots
    BY InitiatorFields DEF IInv
  <2>2. c \in Commits
    BY <2>1 DEF Commit, Commits
  <2>3. AuthB(initiator[i].psk, m.b, c) \in
            [psk : Psks, b : Snapshots, commit : Commits]
    BY <1>2, <2>1, <2>2 DEF AuthB
  <2>4. QED
    BY <2>3, NamesAssumption DEF AcceptsMsg2
<1>4. m.auth = x.auth
  BY <1>1, <1>2, <1>3 DEF Msg2
<1>5. PICK r \in Responders : FromResponder(x, r)
  BY DEF IInv, Msgs2Inv
<1>6. AuthB(responder[r].psk, responder[r].ent, responder[r].commit)
          = AuthB(initiator[i].psk, m.b, c)
  BY <1>4, <1>5 DEF FromResponder, AcceptsMsg2
<1>7. /\ responder[r].psk = initiator[i].psk /\ responder[r].ent = m.b
      /\ responder[r].commit = c
  BY <1>6 DEF AuthB
<1>8. QED
  BY <1>2, <1>5, <1>7 DEF FromResponder

(* A message 3 that a responder accepts was made by an initiator that has  *)
(* completed with this responder's entropy, the same pre-shared key and    *)
(* the commitment this responder answered.                                 *)
LEMMA Genuine3 ==
    ASSUME IInv, NEW r \in Responders, NEW m \in Arrives3,
           responder[r].pc = "sent", AcceptsMsg3(r, m)
    PROVE  /\ m.a \in Snapshots
           /\ \E i \in Initiators :
                 /\ initiator[i].pc = "done"
                 /\ initiator[i].psk = responder[r].psk
                 /\ initiator[i].ent = m.a
                 /\ initiator[i].key.salt_b = responder[r].ent
<1>1. PICK x \in msgs3 :
          \/ m = x
          \/ \E e \in Snapshots : m = [x EXCEPT !.a = e]
          \/ m = [x EXCEPT !.auth = Garbled]
  BY DEF Arrives3
<1>2. x \in Msg3 /\ m \in [a : Snapshots, auth : AuthsA]
  <2>1. x \in Msg3
    BY DEF IInv, TypeOK
  <2>2. Garbled \in AuthsA
    BY DEF AuthsA
  <2>3. QED
    BY <1>1, <2>1, <2>2 DEF Msg3
<1>3. m.auth # Garbled
  <2>1. responder[r].psk \in Psks /\ responder[r].ent \in Snapshots
    BY ResponderFields DEF IInv
  <2>2. AuthA(responder[r].psk, m.a, responder[r].ent) \in
            [psk : Psks, a : Snapshots, b : Snapshots]
    BY <1>2, <2>1 DEF AuthA
  <2>3. QED
    BY <2>2, NamesAssumption DEF AcceptsMsg3
<1>4. m.auth = x.auth
  BY <1>1, <1>2, <1>3 DEF Msg3
<1>5. PICK i \in Initiators : FromInitiator(x, i)
  BY DEF IInv, Msgs3Inv
<1>6. AuthA(initiator[i].psk, initiator[i].ent, initiator[i].key.salt_b)
          = AuthA(responder[r].psk, m.a, responder[r].ent)
  BY <1>4, <1>5 DEF FromInitiator, AcceptsMsg3
<1>7. /\ initiator[i].psk = responder[r].psk /\ initiator[i].ent = m.a
      /\ initiator[i].key.salt_b = responder[r].ent
  BY <1>6 DEF AuthA
<1>8. QED
  BY <1>2, <1>5, <1>7 DEF FromInitiator

-----------------------------------------------------------------------------
(* Steps of the initiator *)

(* A new initiator has entropy nobody has, and disturbs nobody. *)
LEMMA NewInitiatorStep ==
    ASSUME IInv, NEW i \in Initiators, NEW psk \in Psks, NewInitiator(i, psk)
    PROVE  IInv'
<1>1. PICK e \in Fresh :
          /\ initiator' = [initiator EXCEPT
                 ![i] = [pc |-> "sent", psk |-> psk, ent |-> e, key |-> None]]
          /\ msgs1' = msgs1 \cup {[commit |-> Commit(e)]}
  BY DEF NewInitiator
<1>2. e \in Snapshots /\ \A j \in Initiators : initiator[j].ent # e
  BY DEF Fresh, Used
<1>3. /\ initiator[i].pc = "new" /\ UNCHANGED <<responder, msgs2, msgs3>>
      /\ initiator'[i] = [pc |-> "sent", psk |-> psk, ent |-> e, key |-> None]
      /\ \A j \in Initiators : j # i => initiator'[j] = initiator[j]
  BY <1>1 DEF NewInitiator, IInv, TypeOK
<1>4. TypeOK'
  <2>1. initiator'[i] \in InitiatorStates
    BY <1>2, <1>3 DEF InitiatorStates
  <2>2. initiator' \in [Initiators -> InitiatorStates]
    BY <1>1, <1>3, <2>1 DEF IInv, TypeOK
  <2>3. msgs1' \subseteq Msg1
    BY <1>1, <1>2 DEF IInv, TypeOK, Msg1, Commit, Commits
  <2>4. QED
    BY <1>3, <2>2, <2>3 DEF IInv, TypeOK
<1>5. Msgs2Inv'
  BY <1>3 DEF IInv, Msgs2Inv, FromResponder
<1>6. ASSUME NEW m, NEW j \in Initiators, FromInitiator(m, j)
      PROVE  FromInitiator(m, j)'
  BY <1>3, <1>6 DEF FromInitiator
<1>7. Msgs3Inv'
  BY <1>3, <1>6 DEF IInv, Msgs3Inv
<1>8. KeyInv'
  BY <1>3, <1>6 DEF IInv, KeyInv
<1>9. DistinctInv'
  BY <1>2, <1>3 DEF IInv, DistinctInv
<1>10. ResponderAgrees'
  BY <1>3 DEF IInv, ResponderAgrees
<1>11. InitiatorWasAnswered'
  BY <1>3 DEF IInv, InitiatorWasAnswered
<1>12. QED
  BY <1>4, <1>5, <1>7, <1>8, <1>9, <1>10, <1>11 DEF IInv

(* An initiator completes on the message of a responder that holds its     *)
(* commitment.                                                             *)
LEMMA ProcessMsg2Step ==
    ASSUME IInv, NEW i \in Initiators, NEW m \in Arrives2, ProcessMsg2(i, m)
    PROVE  IInv'
<1> DEFINE u == initiator[i]
           k == SessionKey(u.psk, u.ent, m.b)
<1>0. PICK n : n = [a |-> u.ent, auth |-> AuthA(u.psk, u.ent, m.b)]
  OBVIOUS
<1>1. /\ u.pc = "sent" /\ AcceptsMsg2(i, m)
      /\ initiator' = [initiator EXCEPT ![i].pc = "done", ![i].key = k]
      /\ msgs3' = msgs3 \cup {n}
      /\ UNCHANGED <<responder, msgs1, msgs2>>
  BY <1>0 DEF ProcessMsg2
<1>2. /\ u \in [pc : {"sent", "failed"}, psk : Psks, ent : Snapshots, key : {None}]
      /\ m.b \in Snapshots
  BY <1>1, InitiatorFields, Genuine2 DEF IInv
<1>3. PICK r \in Responders :
          /\ responder[r].psk = u.psk /\ responder[r].ent = m.b
          /\ responder[r].commit = Commit(u.ent)
  BY <1>1, Genuine2
<1>4. /\ initiator'[i].pc = "done" /\ initiator'[i].psk = u.psk
      /\ initiator'[i].ent = u.ent /\ initiator'[i].key = k
      /\ initiator'[i] \in [pc : {"done"}, psk : Psks, ent : Snapshots, key : {k}]
      /\ \A j \in Initiators : j # i => initiator'[j] = initiator[j]
      /\ initiator' \in [Initiators -> InitiatorStates \cup {initiator'[i]}]
  BY <1>1, <1>2 DEF IInv, TypeOK
<1>5. k \in Keys /\ n \in Msg3
      /\ k = SessionKey(u.psk, u.ent, k.salt_b) /\ k.salt_a = u.ent /\ k.salt_b = m.b
  BY <1>0, <1>2 DEF SessionKey, Keys, Msg3, AuthA, AuthsA
<1> HIDE DEF k
<1>6. TypeOK'
  <2>1. initiator'[i] \in InitiatorStates
    BY <1>4, <1>5 DEF InitiatorStates
  <2>2. initiator' \in [Initiators -> InitiatorStates]
    BY <1>4, <2>1
  <2>3. msgs3' \subseteq Msg3
    BY <1>1, <1>5 DEF IInv, TypeOK
  <2>4. QED
    BY <1>1, <2>2, <2>3 DEF IInv, TypeOK
<1>7. Msgs2Inv'
  BY <1>1 DEF IInv, Msgs2Inv, FromResponder
<1>8. ASSUME NEW x, NEW j \in Initiators, FromInitiator(x, j)
      PROVE  FromInitiator(x, j)'
  BY <1>1, <1>4, <1>8 DEF FromInitiator
<1>9. FromInitiator(n, i)'
  BY <1>0, <1>4, <1>5 DEF FromInitiator
<1>10. Msgs3Inv'
  <2>1. ASSUME NEW x \in msgs3
        PROVE  \E j \in Initiators : FromInitiator(x, j)'
    BY <1>8 DEF IInv, Msgs3Inv
  <2>2. \E j \in Initiators : FromInitiator(n, j)'
    BY <1>9
  <2>3. msgs3' = msgs3 \cup {n}
    BY <1>1
  <2>4. ASSUME NEW x \in msgs3'
        PROVE  \E j \in Initiators : FromInitiator(x, j)'
    BY <2>1, <2>2, <2>3 DEF FromInitiator
  <2>5. QED
    BY <2>4 DEF Msgs3Inv
<1>11. KeyInv'
  <2>1. ASSUME NEW j \in Initiators, j # i, initiator'[j].pc = "done"
        PROVE  /\ initiator'[j].key = SessionKey(initiator'[j].psk, initiator'[j].ent,
                                                 initiator'[j].key.salt_b)
               /\ \E x \in msgs3' : FromInitiator(x, j)'
    <3>1. initiator'[j] = initiator[j]
      BY <1>4, <2>1
    <3>2. PICK x \in msgs3 : FromInitiator(x, j)
      BY <2>1, <3>1 DEF IInv, KeyInv
    <3>3. x \in msgs3' /\ FromInitiator(x, j)'
      BY <1>1, <1>8, <3>2
    <3>4. QED
      BY <2>1, <3>1, <3>3 DEF IInv, KeyInv
  <2>2. /\ initiator'[i].key = SessionKey(initiator'[i].psk, initiator'[i].ent,
                                          initiator'[i].key.salt_b)
        /\ \E x \in msgs3' : FromInitiator(x, i)'
    BY <1>1, <1>4, <1>5, <1>9
  <2>3. QED
    BY <2>1, <2>2 DEF KeyInv, SessionKey
<1>12. DistinctInv'
  <2>1. \A j \in Initiators : /\ initiator'[j].ent = initiator[j].ent
                              /\ initiator'[j].pc # "new" => initiator[j].pc # "new"
    BY <1>1, <1>4
  <2>2. QED
    BY <1>1, <2>1 DEF IInv, DistinctInv
<1>13. ResponderAgrees'
  <2>1. ASSUME NEW s \in Responders, responder[s].pc = "done"
        PROVE  \E j \in Initiators :
                  /\ j # i
                  /\ initiator[j].pc = "done"
                  /\ initiator[j].key = responder[s].key
                  /\ initiator[j].psk = responder[s].psk
                  /\ responder[s].commit = Commit(initiator[j].ent)
                  /\ initiator[j].key.salt_a = initiator[j].ent
                  /\ initiator[j].key.salt_b = responder[s].ent
    BY <1>1, <2>1 DEF IInv, ResponderAgrees
  <2>2. QED
    BY <1>1, <1>4, <2>1 DEF ResponderAgrees
<1>14. InitiatorWasAnswered'
  <2>1. ASSUME NEW j \in Initiators, initiator'[j].pc = "done"
        PROVE  \E s \in Responders :
                  /\ responder[s].psk = initiator'[j].psk
                  /\ responder[s].commit = Commit(initiator'[j].ent)
                  /\ initiator'[j].key.salt_a = initiator'[j].ent
                  /\ initiator'[j].key.salt_b = responder[s].ent
    <3>1. CASE j = i
      BY <1>3, <1>4, <1>5, <3>1
    <3>2. CASE j # i
      BY <1>4, <2>1, <3>2 DEF IInv, InitiatorWasAnswered
    <3>3. QED
      BY <3>1, <3>2
  <2>2. QED
    BY <1>1, <2>1 DEF InitiatorWasAnswered
<1>15. QED
  BY <1>6, <1>7, <1>10, <1>11, <1>12, <1>13, <1>14 DEF IInv

(* An initiator that rejects is consumed and disturbs nobody. *)
LEMMA RejectMsg2Step ==
    ASSUME IInv, NEW i \in Initiators, NEW m, RejectMsg2(i, m)
    PROVE  IInv'
<1>1. /\ initiator[i].pc = "sent"
      /\ initiator' = [initiator EXCEPT ![i].pc = "failed"]
      /\ UNCHANGED <<responder, msgs1, msgs2, msgs3>>
  BY DEF RejectMsg2
<1>2. initiator[i] \in [pc : {"sent", "failed"}, psk : Psks, ent : Snapshots, key : {None}]
  BY <1>1, InitiatorFields DEF IInv
<1>3. /\ initiator'[i] \in [pc : {"sent", "failed"}, psk : Psks, ent : Snapshots,
                           key : {None}]
      /\ initiator'[i].pc = "failed" /\ initiator'[i].ent = initiator[i].ent
      /\ \A j \in Initiators : j # i => initiator'[j] = initiator[j]
      /\ initiator' \in [Initiators -> InitiatorStates \cup {initiator'[i]}]
  BY <1>1, <1>2 DEF IInv, TypeOK
<1>4. TypeOK'
  <2>1. initiator'[i] \in InitiatorStates
    BY <1>3 DEF InitiatorStates
  <2>2. QED
    BY <1>1, <1>3, <2>1 DEF IInv, TypeOK
<1>5. Msgs2Inv'
  BY <1>1 DEF IInv, Msgs2Inv, FromResponder
<1>6. ASSUME NEW x, NEW j \in Initiators, FromInitiator(x, j)
      PROVE  FromInitiator(x, j)'
  BY <1>1, <1>3, <1>6 DEF FromInitiator
<1>7. Msgs3Inv'
  BY <1>1, <1>6 DEF IInv, Msgs3Inv
<1>8. KeyInv'
  BY <1>1, <1>3, <1>6 DEF IInv, KeyInv
<1>9. DistinctInv'
  BY <1>1, <1>3 DEF IInv, DistinctInv
<1>10. ResponderAgrees'
  <2>1. \A j \in Initiators : initiator[j].pc = "done" => j # i
    BY <1>1
  <2>2. QED
    BY <1>1, <1>3, <2>1 DEF IInv, ResponderAgrees
<1>11. InitiatorWasAnswered'
  BY <1>1, <1>3 DEF IInv, InitiatorWasAnswered
<1>12. QED
  BY <1>4, <1>5, <1>7, <1>8, <1>9, <1>10, <1>11 DEF IInv

-----------------------------------------------------------------------------
(* Steps of the responder *)

(* A new responder has entropy nobody has, and disturbs nobody. *)
LEMMA NewResponderStep ==
    ASSUME IInv, NEW r \in Responders, NEW psk \in Psks, NEW m \in Arrives1,
           NewResponder(r, psk, m)
    PROVE  IInv'
<1>1. PICK e \in Fresh :
          /\ responder' = [responder EXCEPT
                 ![r] = [pc |-> "sent", psk |-> psk, ent |-> e,
                         commit |-> m.commit, key |-> None]]
          /\ msgs2' = msgs2 \cup {[b |-> e, auth |-> AuthB(psk, e, m.commit)]}
  BY DEF NewResponder
<1> DEFINE n == [b |-> e, auth |-> AuthB(psk, e, m.commit)]
<1>2. /\ e \in Snapshots /\ \A s \in Responders : responder[s].ent # e
      /\ m.commit \in Commits
  BY DEF Fresh, Used, Arrives1, IInv, TypeOK, Msg1, Commits
<1>3. /\ responder[r].pc = "new" /\ UNCHANGED <<initiator, msgs1, msgs3>>
      /\ responder'[r] = [pc |-> "sent", psk |-> psk, ent |-> e,
                          commit |-> m.commit, key |-> None]
      /\ \A s \in Responders : s # r => responder'[s] = responder[s]
  BY <1>1 DEF NewResponder, IInv, TypeOK
<1>4. TypeOK'
  <2>1. responder'[r] \in ResponderStates
    BY <1>2, <1>3 DEF ResponderStates
  <2>2. responder' \in [Responders -> ResponderStates]
    BY <1>1, <1>3, <2>1 DEF IInv, TypeOK
  <2>3. n \in Msg2
    BY <1>2 DEF Msg2, AuthB, AuthsB
  <2>4. msgs2' \subseteq Msg2
    BY <1>1, <2>3 DEF IInv, TypeOK
  <2>5. QED
    BY <1>3, <2>2, <2>4 DEF IInv, TypeOK
<1>5. Msgs2Inv'
  <2>1. ASSUME NEW x \in msgs2
        PROVE  \E s \in Responders : FromResponder(x, s)'
    <3>1. PICK s \in Responders : FromResponder(x, s)
      BY DEF IInv, Msgs2Inv
    <3>2. s # r
      BY <1>3, <3>1 DEF FromResponder
    <3>3. QED
      BY <1>3, <3>1, <3>2 DEF FromResponder
  <2>2. FromResponder(n, r)'
    BY <1>3 DEF FromResponder
  <2>3. QED
    BY <1>1, <2>1, <2>2 DEF Msgs2Inv
<1>6. Msgs3Inv' /\ KeyInv'
  BY <1>3 DEF IInv, Msgs3Inv, KeyInv, FromInitiator, SessionKey
<1>7. DistinctInv'
  BY <1>2, <1>3 DEF IInv, DistinctInv
<1>8. ResponderAgrees'
  BY <1>3 DEF IInv, ResponderAgrees
<1>9. InitiatorWasAnswered'
  <2>1. ASSUME NEW i \in Initiators, initiator[i].pc = "done"
        PROVE  \E s \in Responders :
                  /\ responder'[s].psk = initiator[i].psk
                  /\ responder'[s].commit = Commit(initiator[i].ent)
                  /\ initiator[i].key.salt_a = initiator[i].ent
                  /\ initiator[i].key.salt_b = responder'[s].ent
    <3>1. PICK s \in Responders :
                  /\ responder[s].psk = initiator[i].psk
                  /\ responder[s].commit = Commit(initiator[i].ent)
                  /\ initiator[i].key.salt_a = initiator[i].ent
                  /\ initiator[i].key.salt_b = responder[s].ent
      BY <2>1 DEF IInv, InitiatorWasAnswered
    <3>2. initiator[i].psk \in Psks
      BY <2>1, InitiatorFields DEF IInv
    <3>3. s # r
      <4>1. responder[r].psk = None
        BY <1>3, ResponderFields DEF IInv, NoResponder
      <4>2. QED
        BY <3>1, <3>2, <4>1, NamesAssumption
    <3>4. QED
      BY <1>3, <3>1, <3>3
  <2>2. QED
    BY <1>3, <2>1 DEF InitiatorWasAnswered
<1>10. QED
  BY <1>4, <1>5, <1>6, <1>7, <1>8, <1>9 DEF IInv

(* When only the progress of one responder changes, the rest stays as it   *)
(* is.                                                                     *)
LEMMA ResponderFrame ==
    ASSUME IInv, NEW r \in Responders, responder[r].pc = "sent",
           UNCHANGED <<initiator, msgs1, msgs2, msgs3>>,
           responder'[r].pc # "new", responder'[r].psk = responder[r].psk,
           responder'[r].ent = responder[r].ent,
           responder'[r].commit = responder[r].commit,
           \A s \in Responders : s # r => responder'[s] = responder[s]
    PROVE  Msgs2Inv' /\ Msgs3Inv' /\ KeyInv' /\ DistinctInv' /\ InitiatorWasAnswered'
<1>1. ASSUME NEW m, NEW s \in Responders, FromResponder(m, s)
      PROVE  FromResponder(m, s)'
  <2>1. /\ responder'[s].pc # "new" /\ responder'[s].psk = responder[s].psk
        /\ responder'[s].ent = responder[s].ent
        /\ responder'[s].commit = responder[s].commit
    BY <1>1 DEF FromResponder
  <2>2. QED
    BY <1>1, <2>1 DEF FromResponder
<1>2. Msgs2Inv'
  BY <1>1 DEF IInv, Msgs2Inv
<1>3. Msgs3Inv' /\ KeyInv'
  BY DEF IInv, Msgs3Inv, KeyInv, FromInitiator, SessionKey
<1>4. DistinctInv'
  BY DEF IInv, DistinctInv
<1>5. InitiatorWasAnswered'
  <2>1. \A s \in Responders :
           /\ responder'[s].psk = responder[s].psk
           /\ responder'[s].ent = responder[s].ent
           /\ responder'[s].commit = responder[s].commit
    OBVIOUS
  <2>2. QED
    BY <2>1 DEF IInv, InitiatorWasAnswered
<1>6. QED
  BY <1>2, <1>3, <1>4, <1>5

(* A responder completes on the message of the initiator it answered. *)
LEMMA ProcessMsg3Step ==
    ASSUME IInv, NEW r \in Responders, NEW m \in Arrives3, ProcessMsg3(r, m)
    PROVE  IInv'
<1> DEFINE u == responder[r]
           k == SessionKey(u.psk, m.a, u.ent)
<1>1. /\ u.pc = "sent" /\ AcceptsMsg3(r, m)
      /\ responder' = [responder EXCEPT ![r].pc = "done", ![r].key = k]
      /\ UNCHANGED <<initiator, msgs1, msgs2, msgs3>>
  BY DEF ProcessMsg3
<1>2. /\ u \in [pc : {"sent", "failed"}, psk : Psks, ent : Snapshots,
                commit : Commits, key : {None}]
      /\ m.a \in Snapshots
  BY <1>1, ResponderFields, Genuine3 DEF IInv
<1>3. PICK i \in Initiators :
          /\ initiator[i].pc = "done"
          /\ initiator[i].psk = u.psk
          /\ initiator[i].ent = m.a
          /\ initiator[i].key.salt_b = u.ent
  BY <1>1, Genuine3
<1>4. /\ responder'[r].pc = "done" /\ responder'[r].psk = u.psk
      /\ responder'[r].ent = u.ent /\ responder'[r].commit = u.commit
      /\ responder'[r].key = k
      /\ responder'[r] \in [pc : {"done"}, psk : Psks, ent : Snapshots,
                            commit : Commits, key : {k}]
      /\ \A s \in Responders : s # r => responder'[s] = responder[s]
      /\ responder' \in [Responders -> ResponderStates \cup {responder'[r]}]
  BY <1>1, <1>2 DEF IInv, TypeOK
<1>5. /\ k \in Keys /\ k.salt_a = m.a /\ k.salt_b = u.ent
      /\ initiator[i].key = k
      /\ u.commit = Commit(m.a)
  BY <1>1, <1>2, <1>3 DEF SessionKey, Keys, IInv, KeyInv, AcceptsMsg3
<1> HIDE DEF k
<1>6. TypeOK'
  <2>1. responder'[r] \in ResponderStates
    BY <1>4, <1>5 DEF ResponderStates
  <2>2. responder' \in [Responders -> ResponderStates]
    BY <1>4, <2>1
  <2>3. QED
    BY <1>1, <2>2 DEF IInv, TypeOK
<1>7. Msgs2Inv' /\ Msgs3Inv' /\ KeyInv' /\ DistinctInv' /\ InitiatorWasAnswered'
  BY <1>1, <1>4, ResponderFrame
<1>8. ResponderAgrees'
  <2>1. ASSUME NEW s \in Responders, responder'[s].pc = "done"
        PROVE  \E j \in Initiators :
                  /\ initiator[j].pc = "done"
                  /\ initiator[j].key = responder'[s].key
                  /\ initiator[j].psk = responder'[s].psk
                  /\ responder'[s].commit = Commit(initiator[j].ent)
                  /\ initiator[j].key.salt_a = initiator[j].ent
                  /\ initiator[j].key.salt_b = responder'[s].ent
    <3>1. CASE s = r
      BY <1>3, <1>4, <1>5, <3>1
    <3>2. CASE s # r
      BY <1>4, <2>1, <3>2 DEF IInv, ResponderAgrees
    <3>3. QED
      BY <3>1, <3>2
  <2>2. QED
    BY <1>1, <2>1 DEF ResponderAgrees
<1>9. QED
  BY <1>6, <1>7, <1>8 DEF IInv

(* A responder that rejects is consumed and disturbs nobody. *)
LEMMA RejectMsg3Step ==
    ASSUME IInv, NEW r \in Responders, NEW m, RejectMsg3(r, m)
    PROVE  IInv'
<1>1. /\ responder[r].pc = "sent"
      /\ responder' = [responder EXCEPT ![r].pc = "failed"]
      /\ UNCHANGED <<initiator, msgs1, msgs2, msgs3>>
  BY DEF RejectMsg3
<1>2. responder[r] \in [pc : {"sent", "failed"}, psk : Psks, ent : Snapshots,
                        commit : Commits, key : {None}]
  BY <1>1, ResponderFields DEF IInv
<1>3. /\ responder'[r] \in [pc : {"sent", "failed"}, psk : Psks, ent : Snapshots,
                           commit : Commits, key : {None}]
      /\ responder'[r].pc = "failed" /\ responder'[r].psk = responder[r].psk
      /\ responder'[r].ent = responder[r].ent
      /\ responder'[r].commit = responder[r].commit
      /\ \A s \in Responders : s # r => responder'[s] = responder[s]
      /\ responder' \in [Responders -> ResponderStates \cup {responder'[r]}]
  BY <1>1, <1>2 DEF IInv, TypeOK
<1>4. TypeOK'
  <2>1. responder'[r] \in ResponderStates
    BY <1>3 DEF ResponderStates
  <2>2. QED
    BY <1>1, <1>3, <2>1 DEF IInv, TypeOK
<1>5. Msgs2Inv' /\ Msgs3Inv' /\ KeyInv' /\ DistinctInv' /\ InitiatorWasAnswered'
  BY <1>1, <1>3, ResponderFrame
<1>6. ResponderAgrees'
  BY <1>1, <1>3 DEF IInv, ResponderAgrees
<1>7. QED
  BY <1>4, <1>5, <1>6 DEF IInv

-----------------------------------------------------------------------------
(* The invariant *)

(* Every step preserves the inductive invariant. *)
LEMMA InvariantStep == IInv /\ [Next]_vars => IInv'
<1> SUFFICES ASSUME IInv, [Next]_vars PROVE IInv'
  OBVIOUS
<1>1. CASE UNCHANGED vars
  BY <1>1
     DEF vars, IInv, TypeOK, Msgs2Inv, FromResponder, Msgs3Inv, FromInitiator, KeyInv,
         DistinctInv, ResponderAgrees, InitiatorWasAnswered, SessionKey
<1>2. QED
  BY <1>1, NewInitiatorStep, ProcessMsg2Step, RejectMsg2Step, NewResponderStep,
     ProcessMsg3Step, RejectMsg3Step DEF Next

(* The inductive invariant holds initially. *)
LEMMA InvariantInit == Init => IInv
<1> SUFFICES ASSUME Init PROVE IInv
  OBVIOUS
<1>1. /\ \A i \in Initiators : initiator[i] = NoInitiator
      /\ \A r \in Responders : responder[r] = NoResponder
      /\ msgs1 = {} /\ msgs2 = {} /\ msgs3 = {}
  BY DEF Init
<1>2. NoInitiator.pc = "new" /\ NoResponder.pc = "new"
  BY DEF NoInitiator, NoResponder
<1>3. TypeOK
  BY <1>1 DEF Init, TypeOK, InitiatorStates, ResponderStates
<1>4. Msgs2Inv /\ Msgs3Inv /\ KeyInv /\ DistinctInv
  BY <1>1, <1>2 DEF Msgs2Inv, Msgs3Inv, KeyInv, DistinctInv
<1>5. ResponderAgrees /\ InitiatorWasAnswered
  BY <1>1, <1>2 DEF ResponderAgrees, InitiatorWasAnswered
<1>6. QED
  BY <1>3, <1>4, <1>5 DEF IInv

(* The inductive invariant holds in every reachable state. *)
THEOREM Invariant == Spec => []IInv
BY InvariantInit, InvariantStep, PTL DEF Spec

(* Every end and every message keeps its type. *)
THEOREM TypeCorrect == Spec => []TypeOK
<1>1. IInv => TypeOK
  BY DEF IInv
<1>2. QED
  BY <1>1, Invariant, PTL

(* A responder that completes shares its key with the initiator it         *)
(* answered, which has completed as well.                                  *)
THEOREM ResponderAgreement == Spec => []ResponderAgrees
<1>1. IInv => ResponderAgrees
  BY DEF IInv
<1>2. QED
  BY <1>1, Invariant, PTL

(* An initiator that completes was answered by a responder that holds its  *)
(* commitment, under the same pre-shared key.                              *)
THEOREM InitiatorAgreement == Spec => []InitiatorWasAnswered
<1>1. IInv => InitiatorWasAnswered
  BY DEF IInv
<1>2. QED
  BY <1>1, Invariant, PTL

(* The responder of a completed initiator can always be completed by a     *)
(* message that is on the network.                                         *)
THEOREM Completable == Spec => []CanComplete
<1>1. ASSUME IInv, NEW i \in Initiators, NEW r \in Responders,
             initiator[i].pc = "done", responder[r].pc = "sent",
             initiator[i].key = SessionKey(responder[r].psk, initiator[i].ent,
                                           responder[r].ent)
      PROVE  \E m \in msgs3 : AcceptsMsg3(r, m) /\ m.a = initiator[i].ent
  <2>1. PICK m \in msgs3 : FromInitiator(m, i)
    BY <1>1 DEF IInv, KeyInv
  <2>2. /\ initiator[i].key = SessionKey(initiator[i].psk, initiator[i].ent,
                                         initiator[i].key.salt_b)
    BY <1>1 DEF IInv, KeyInv
  <2>3. /\ initiator[i].psk = responder[r].psk
        /\ initiator[i].key.salt_b = responder[r].ent
    BY <1>1, <2>2 DEF SessionKey
  <2>4. PICK s \in Responders :
            /\ responder[s].commit = Commit(initiator[i].ent)
            /\ initiator[i].key.salt_b = responder[s].ent
    BY <1>1 DEF IInv, InitiatorWasAnswered
  <2>5. s = r
    BY <1>1, <2>3, <2>4 DEF IInv, DistinctInv
  <2>6. QED
    BY <2>1, <2>3, <2>4, <2>5 DEF FromInitiator, AcceptsMsg3
<1>2. IInv => CanComplete
  BY <1>1 DEF CanComplete
<1>3. QED
  BY <1>2, Invariant, PTL

-----------------------------------------------------------------------------
(* The handshakes implement KeyAgreement *)

InitKey == [i \in Initiators |-> initiator[i].key]
RespKey == [r \in Responders |-> responder[r].key]

(* An initiator that completes has a key nobody had. *)
LEMMA InitiatorRefines ==
    ASSUME IInv, NEW i \in Initiators, NEW m \in Arrives2, ProcessMsg2(i, m)
    PROVE  Abstract!InitiatorCompletes(i)
<1> DEFINE u == initiator[i]
           k == SessionKey(u.psk, u.ent, m.b)
<1>1. /\ u.pc = "sent" /\ AcceptsMsg2(i, m)
      /\ initiator' = [initiator EXCEPT ![i].pc = "done", ![i].key = k]
      /\ responder' = responder
  BY DEF ProcessMsg2
<1>2. /\ u \in [pc : {"sent", "failed"}, psk : Psks, ent : Snapshots, key : {None}]
      /\ m.b \in Snapshots
  BY <1>1, InitiatorFields, Genuine2 DEF IInv
<1>3. k \in Keys /\ k.salt_a = u.ent /\ u.key = None
  BY <1>2 DEF SessionKey, Keys
<1>4. \A j \in Initiators : initiator'[j].key = IF j = i THEN k ELSE initiator[j].key
  BY <1>1, <1>2 DEF IInv, TypeOK
<1> HIDE DEF k
<1>5. ASSUME NEW j \in Initiators
      PROVE  initiator[j].key # k
  <2>1. CASE initiator[j].pc = "done"
    <3>1. initiator[j].key.salt_a = initiator[j].ent
      BY <2>1 DEF IInv, InitiatorWasAnswered
    <3>2. j # i
      BY <1>1, <2>1
    <3>3. initiator[j].ent # u.ent
      BY <1>1, <3>2 DEF IInv, DistinctInv
    <3>4. QED
      BY <1>3, <3>1, <3>3
  <2>2. CASE initiator[j].pc # "done"
    BY <1>3, <2>2, InitiatorFields, NamesAssumption DEF IInv
  <2>3. QED
    BY <2>1, <2>2
<1>6. ASSUME NEW r \in Responders
      PROVE  responder[r].key # k
  <2>1. CASE responder[r].pc = "done"
    BY <1>5, <2>1 DEF IInv, ResponderAgrees
  <2>2. CASE responder[r].pc # "done"
    BY <1>3, <2>2, ResponderFields, NamesAssumption DEF IInv
  <2>3. QED
    BY <2>1, <2>2
<1>7. InitKey' = [InitKey EXCEPT ![i] = k] /\ RespKey' = RespKey
  BY <1>1, <1>4 DEF InitKey, RespKey
<1>8. QED
  BY <1>3, <1>5, <1>6, <1>7 DEF Abstract!InitiatorCompletes, InitKey, RespKey

(* A responder that completes has the key of one initiator and of no other *)
(* responder.                                                              *)
LEMMA ResponderRefines ==
    ASSUME IInv, NEW r \in Responders, NEW m \in Arrives3, ProcessMsg3(r, m)
    PROVE  Abstract!ResponderCompletes(r)
<1> DEFINE u == responder[r]
           k == SessionKey(u.psk, m.a, u.ent)
<1>1. /\ u.pc = "sent" /\ AcceptsMsg3(r, m)
      /\ responder' = [responder EXCEPT ![r].pc = "done", ![r].key = k]
      /\ initiator' = initiator
  BY DEF ProcessMsg3
<1>2. /\ u \in [pc : {"sent", "failed"}, psk : Psks, ent : Snapshots,
                commit : Commits, key : {None}]
      /\ m.a \in Snapshots
  BY <1>1, ResponderFields, Genuine3 DEF IInv
<1>3. k \in Keys /\ k.salt_b = u.ent /\ u.key = None
  BY <1>2 DEF SessionKey, Keys
<1>4. \A s \in Responders : responder'[s].key = IF s = r THEN k ELSE responder[s].key
  BY <1>1, <1>2 DEF IInv, TypeOK
<1>5. PICK i \in Initiators : initiator[i].key = k
  <2>1. PICK i \in Initiators :
            /\ initiator[i].pc = "done"
            /\ initiator[i].psk = u.psk
            /\ initiator[i].ent = m.a
            /\ initiator[i].key.salt_b = u.ent
    BY <1>1, Genuine3
  <2>2. QED
    BY <2>1 DEF IInv, KeyInv
<1> HIDE DEF k
<1>6. ASSUME NEW s \in Responders
      PROVE  responder[s].key # k
  <2>1. CASE responder[s].pc = "done"
    <3>1. s # r
      BY <1>1, <2>1
    <3>2. responder[s].ent # u.ent
      BY <1>1, <3>1 DEF IInv, DistinctInv
    <3>3. responder[s].key.salt_b = responder[s].ent
      BY <2>1 DEF IInv, ResponderAgrees
    <3>4. QED
      BY <1>3, <3>2, <3>3
  <2>2. CASE responder[s].pc # "done"
    BY <1>3, <2>2, ResponderFields, NamesAssumption DEF IInv
  <2>3. QED
    BY <2>1, <2>2
<1>7. RespKey' = [RespKey EXCEPT ![r] = k] /\ InitKey' = InitKey
  BY <1>1, <1>4 DEF InitKey, RespKey
<1>8. k # None
  BY <1>3, NamesAssumption
<1>9. QED
  BY <1>3, <1>5, <1>6, <1>7, <1>8 DEF Abstract!ResponderCompletes, InitKey, RespKey

(* Every other step is invisible to the applications. *)
LEMMA RefinementStep == IInv /\ [Next]_vars => [Abstract!Next]_(Abstract!vars)
<1> SUFFICES ASSUME IInv, [Next]_vars PROVE [Abstract!Next]_(Abstract!vars)
  OBVIOUS
<1>1. ASSUME \A i \in Initiators : initiator'[i].key = initiator[i].key,
             \A r \in Responders : responder'[r].key = responder[r].key
      PROVE  UNCHANGED Abstract!vars
  BY <1>1 DEF Abstract!vars
<1>2. ASSUME NEW i \in Initiators, NEW psk \in Psks, NewInitiator(i, psk)
      PROVE  UNCHANGED Abstract!vars
  <2>1. PICK e \in Fresh : initiator' = [initiator EXCEPT
                 ![i] = [pc |-> "sent", psk |-> psk, ent |-> e, key |-> None]]
    BY <1>2 DEF NewInitiator
  <2>2. initiator[i].key = None /\ responder' = responder
    BY <1>2, InitiatorFields DEF NewInitiator, IInv
  <2>3. QED
    BY <1>1, <2>1, <2>2 DEF IInv, TypeOK
<1>3. ASSUME NEW r \in Responders, NEW psk \in Psks, NEW m \in Arrives1,
             NewResponder(r, psk, m)
      PROVE  UNCHANGED Abstract!vars
  <2>1. PICK e \in Fresh : responder' = [responder EXCEPT
                 ![r] = [pc |-> "sent", psk |-> psk, ent |-> e,
                         commit |-> m.commit, key |-> None]]
    BY <1>3 DEF NewResponder
  <2>2. responder[r].key = None /\ initiator' = initiator
    BY <1>3, ResponderFields DEF NewResponder, IInv
  <2>3. QED
    BY <1>1, <2>1, <2>2 DEF IInv, TypeOK
<1>4. ASSUME NEW i \in Initiators, NEW m, RejectMsg2(i, m)
      PROVE  UNCHANGED Abstract!vars
  <2>1. initiator[i] \in [pc : {"sent", "failed"}, psk : Psks, ent : Snapshots,
                          key : {None}]
    BY <1>4, InitiatorFields DEF RejectMsg2, IInv
  <2>2. QED
    BY <1>1, <1>4, <2>1 DEF RejectMsg2, IInv, TypeOK
<1>5. ASSUME NEW r \in Responders, NEW m, RejectMsg3(r, m)
      PROVE  UNCHANGED Abstract!vars
  <2>1. responder[r] \in [pc : {"sent", "failed"}, psk : Psks, ent : Snapshots,
                          commit : Commits, key : {None}]
    BY <1>5, ResponderFields DEF RejectMsg3, IInv
  <2>2. QED
    BY <1>1, <1>5, <2>1 DEF RejectMsg3, IInv, TypeOK
<1>6. CASE UNCHANGED vars
  BY <1>1, <1>6 DEF vars
<1>7. QED
  BY <1>2, <1>3, <1>4, <1>5, <1>6, InitiatorRefines, ResponderRefines
     DEF Next, Abstract!Next

(* Whatever the network does, the handshakes implement key agreement.      *)
THEOREM Refinement == Spec => ImplementsKeyAgreement
<1>1. Init => Abstract!Init
  BY DEF Init, Abstract!Init, NoInitiator, NoResponder
<1>2. QED
  BY <1>1, RefinementStep, Invariant, PTL DEF Spec, Abstract!Spec, ImplementsKeyAgreement
=============================================================================
