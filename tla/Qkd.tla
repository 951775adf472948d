---------------------------------- MODULE Qkd ----------------------------------
(* The simulated BB84 exchange of src/qkd.rs, and the snapshot of a split    *)
(* message encrypted under its key: the second channel of the codec.         *)
(*                                                                           *)
(* The exchange comes before the call of encode_split, in one thread, as in  *)
(* the repository's test and demo.  Its outcome is in the hands of OsRng.    *)
EXTENDS Codec

CONSTANTS
    Prepared,  \* what alice_prepare may return: sequences of qubits
    MinSifted, \* 64
    CheckPart, \* one bit in 4 is compared
    MinCheck,  \* 16
    Threshold  \* EVE_DETECTION_THRESHOLD, in percent

Basis == {"+", "x"}
Qubit == [bit : BOOLEAN, basis : Basis]

ASSUME QkdAssumption ==
    /\ Prepared \subseteq Seq(Qubit)
    /\ MinSifted \in Nat /\ CheckPart \in Nat \ {0} /\ MinCheck \in Nat \ {0}
    /\ MinCheck < MinSifted /\ CheckPart >= 2
    /\ Threshold \in 0..100

VARIABLES
    phase,  \* "off", "sent", "measured", "ready" or "refused"
    alice,  \* the qubits that Alice prepared
    flying, \* the qubits on the channel, Eve's when she has intercepted
    eve,    \* history: Eve has intercepted
    bob,    \* Bob's bases and results, as qubits
    keys    \* what distill_key returns

qvars == <<phase, alice, flying, eve, bob, keys>>

Qubits(n) == [1..n -> Qubit]

\* Qubit::measure in the right basis gives the bit, in the wrong one a coin.
Measured(q, result) == result.basis = q.basis => result.bit = q.bit

SystemInit ==
    /\ Init
    /\ alice \in Prepared
    /\ phase = IF \E c \in DOMAIN jobs : Form(c) = "split" THEN "sent" ELSE "off"
    /\ flying = alice
    /\ eve = FALSE
    /\ bob = <<>>
    /\ keys = None

EveIntercept ==
    /\ phase = "sent" /\ ~eve
    /\ eve' = TRUE
    /\ flying' \in {r \in Qubits(Len(flying)) : \A i \in DOMAIN r : Measured(flying[i], r[i])}
    /\ UNCHANGED <<phase, alice, bob, keys>> /\ UNCHANGED vars

BobMeasure ==
    /\ phase = "sent"
    /\ phase' = "measured"
    /\ bob' \in {r \in Qubits(Len(flying)) : \A i \in DOMAIN r : Measured(flying[i], r[i])}
    /\ UNCHANGED <<alice, flying, eve, keys>> /\ UNCHANGED vars

-----------------------------------------------------------------------------
(* distill_key *)

\* Mutant of Sifted: positions are kept whatever the bases.
SiftedAll == [i \in 1..Len(alice) |-> i]

\* The positions where the bases matched, pushed one after the other.
Sifted ==
    LET upTo[i \in 0..Len(alice)] ==
          IF i = 0 THEN <<>>
          ELSE IF alice[i].basis = bob[i].basis THEN Append(upTo[i - 1], i) ELSE upTo[i - 1]
    IN  upTo[Len(alice)]

Larger(a, b) == IF a >= b THEN a ELSE b

CheckCount(n) == Larger(n \div CheckPart, MinCheck)

\* Mutant of RawFrom: the key begins with the bits that were compared.
RawFromStart(check) == 1

\* The first position of the sifted key that is not compared in public.
RawFrom(check) == check + 1

Errors(n) == Cardinality({k \in 1..n : alice[Sifted[k]].bit # bob[Sifted[k]].bit})

\* The bits, the bases and the qubits are of no use afterwards: they are
\* dropped here, at the end of the exchange.
Distill ==
    /\ phase = "measured"
    /\ LET n == Len(Sifted)
           check == CheckCount(n)
           raw == SubSeq(Sifted, RawFrom(check), n)
       IN  IF n < MinSifted
           THEN phase' = "refused" /\ UNCHANGED keys
           ELSE /\ phase' = "ready"
                /\ keys' = [alice |-> [k \in DOMAIN raw |-> alice[raw[k]].bit],
                            bob   |-> [k \in DOMAIN raw |-> bob[raw[k]].bit],
                            secret |-> {raw[k] : k \in DOMAIN raw},
                            public |-> {Sifted[k] : k \in 1..check},
                            detected |-> Errors(check) * 100 > Threshold * check]
    /\ flying' = <<>> /\ bob' = <<>> /\ alice' = <<>>
    /\ UNCHANGED eve /\ UNCHANGED vars

-----------------------------------------------------------------------------
(* The second channel *)

\* encrypt_epsilon and decrypt_epsilon: a keystream from the key; under another
\* key the bytes still parse as a snapshot, but not as this one.
EncryptEpsilon(key, snap) == [key |-> key, snap |-> snap]
DecryptEpsilon(key, sent) == IF key = sent.key THEN sent.snap ELSE None

\* Bob decrypts the snapshot and decodes, whether Eve was noticed or not:
\* distill_key returns its keys all the same.
DecodeQkd(c) ==
    /\ phase = "ready" /\ Returned(c) /\ Form(c) = "split"
    /\ LET p == PacketOf(work[c][1])
           snap == DecryptEpsilon(keys.bob, EncryptEpsilon(keys.alice, p.snap))
       IN  Receives(work[c][1].text, work[c][1].text, keys.alice = keys.bob,
                    Opened([p EXCEPT !.snap = snap]))
    /\ UNCHANGED qvars

\* The codec runs when there is no exchange or once it has a key.
CodecRuns == phase \in {"off", "ready"} /\ Next /\ UNCHANGED qvars

Refuses == phase = "refused" /\ UNCHANGED vars /\ UNCHANGED qvars

SystemNext ==
    \/ EveIntercept \/ BobMeasure \/ Distill \/ CodecRuns \/ Refuses
    \/ \E c \in DOMAIN jobs : DecodeQkd(c)

SystemSpec == SystemInit /\ [][SystemNext]_<<vars, qvars>>
-----------------------------------------------------------------------------
(* Properties *)

\* On a channel nobody touched both ends distil the same key and nobody is
\* suspected ("In a clean channel (no Eve), this equals shared_key_alice",
\* qkd.rs:151); whoever is suspected was there.
CleanChannelAgrees == keys # None /\ ~eve => keys.alice = keys.bob /\ ~keys.detected

\* The bits compared in public are sacrificed: none of them is in the key,
\* some are compared, and something is left for the key (qkd.rs:288-303).
ComparedBitsDiscarded == keys # None =>
    keys.public \cap keys.secret = {} /\ Cardinality(keys.public) >= MinCheck /\ keys.secret # {}
=============================================================================
