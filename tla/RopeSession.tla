----------------------------- MODULE RopeSession -----------------------------
(***************************************************************************)
(* The Rope Ratchet session (session.rs): per direction one sending and    *)
(* one receiving ratchet built from the same (secret, context) pair, and   *)
(* a transport that may lose, duplicate, reorder, misroute and corrupt     *)
(* packets.                                                                *)
(*                                                                         *)
(* Key derivation is symbolic.  Each derived value is written as what went *)
(* into it, so two values are equal exactly when everything mixed into     *)
(* them is.  A strand is its root (secret and context) together with the   *)
(* sequence of inputs folded into it.                                      *)
(***************************************************************************)
EXTENDS Naturals, Sequences

CONSTANTS
    Contexts,    \* direction contexts of the ratchets, such as b"alice-to-bob"
    Bytes,       \* entropy bytes a gather can return; they may repeat
    Times,       \* timestamps a gather can return; they may repeat and go back
    Bodies,      \* the non-empty plaintexts (with their AAD, for the AEAD form)
    MaxCounter,  \* bound: how often a sender advances
    MaxFaults    \* bound: how many corrupted or misrouted packets are presented

ASSUME BoundsAssumption == MaxCounter \in Nat /\ MaxFaults \in Nat

VARIABLES
    send,        \* per context, the sender's RopeRatchet
    recv,        \* per context, the receiver's RopeRatchet
    wire,        \* per context, every RopePacket ever emitted
    faults,      \* how many corrupted or misrouted packets were presented
    trail,       \* history: the sender's ratchet after each of its steps
    delivered    \* history: what decode_session returned, in order

vars == <<send, recv, wire, faults, trail, delivered>>

-----------------------------------------------------------------------------
(* Data *)

(* An EntropySnapshot: mixed bytes and the time they were gathered. *)
Snapshot == [bytes : Bytes, ts : Times]

(* What one step mixes into the chain strand: the evolved entropy and      *)
(* temporal strands, the counter, and the snapshot bytes used as salt.     *)
Link == [ent : Seq(Bytes), tmp : Seq(Times), ctr : 1 .. MaxCounter, salt : Bytes]

(* The ratchet: three strands grown from one root, and the counter. *)
Ratchet == [root : Contexts, ent : Seq(Bytes), tmp : Seq(Times),
            chn : Seq(Link), counter : 0 .. MaxCounter]

(* A message key is the second half of the output whose first half becomes *)
(* the chain strand: it is determined by the same inputs.                  *)
MessageKey == [root : Contexts, chn : Seq(Link)]

(* RopePacket: step metadata, and the inner packet sealed under a message  *)
(* key.  "intact" is FALSE once anything the commitment covers was altered *)
(* on the way.                                                             *)
Packet == [step  : [counter : 1 .. MaxCounter, snapshot : Snapshot],
           inner : [key : MessageKey, body : Bodies, intact : BOOLEAN]]

(* What the receiver hands to the application, and under which counter. *)
Message == [counter : 1 .. MaxCounter, body : Bodies]

-----------------------------------------------------------------------------
(* The ratchet *)

(* Mutant of NewRatchet: the context does not reach the strands. *)
NewRatchetNoContext(d) ==
    [root |-> CHOOSE c \in Contexts : TRUE, ent |-> << >>, tmp |-> << >>,
     chn |-> << >>, counter |-> 0]

(* RopeRatchet::new *)
NewRatchet(d) ==
    [root |-> d, ent |-> << >>, tmp |-> << >>, chn |-> << >>, counter |-> 0]

(* Mutant of Mixed: the temporal strand is left out of the mix. *)
MixedWithoutTime(chn, ent, tmp, ctr, salt) ==
    Append(chn, [ent |-> ent, tmp |-> << >>, ctr |-> ctr, salt |-> salt])

(* The output of the final mix: all strands, the counter and the salt go   *)
(* into both the new chain strand and the message key.                     *)
Mixed(chn, ent, tmp, ctr, salt) ==
    Append(chn, [ent |-> ent, tmp |-> tmp, ctr |-> ctr, salt |-> salt])

(* Mutant of Evolved: the strands are rebuilt from the newest inputs alone. *)
EvolvedWithoutMemory(r, s) ==
    LET n == r.counter + 1
    IN  [root |-> r.root, ent |-> <<s.bytes>>, tmp |-> <<s.ts>>, counter |-> n,
         chn |-> Mixed(<< >>, <<s.bytes>>, <<s.ts>>, n, s.bytes)]

(* RopeRatchet::step: the ratchet after mixing in snapshot s. *)
Evolved(r, s) ==
    LET e == Append(r.ent, s.bytes)
        t == Append(r.tmp, s.ts)
        n == r.counter + 1
    IN  [root |-> r.root, ent |-> e, tmp |-> t,
         chn |-> Mixed(r.chn, e, t, n, s.bytes), counter |-> n]

(* The message key returned by the step that led to ratchet r. *)
KeyOf(r) == [root |-> r.root, chn |-> r.chn]

(* Mutants of ExpectsCounter: any later counter will do; the old counter is *)
(* expected.                                                                *)
ExpectsLaterCounter(r, counter) == counter > r.counter
ExpectsOldCounter(r, counter) == counter = r.counter

(* The strict ordering test of RopeRatchet::receive. *)
ExpectsCounter(r, counter) == counter = r.counter + 1

(* codec::encode under a message key, and the commitment test of decode. *)
Sealed(key, body) == [key |-> key, body |-> body, intact |-> TRUE]
Opens(key, inner) == inner.intact /\ inner.key = key

-----------------------------------------------------------------------------
(* The sender: encode_session and encode_session_aead *)

(* RopeRatchet::advance with a gathered snapshot s. *)
Advance(d, s) ==
    /\ send[d].counter < MaxCounter
    /\ send'  = [send  EXCEPT ![d] = Evolved(send[d], s)]
    /\ trail' = [trail EXCEPT ![d] = Append(@, Evolved(send[d], s))]

(* Both steps succeed: the packet goes on the wire. *)
EncodeSession(d, s, body) ==
    /\ Advance(d, s)
    /\ wire' = [wire EXCEPT ![d] = @ \cup
           {[step  |-> [counter |-> Evolved(send[d], s).counter, snapshot |-> s],
             inner |-> Sealed(KeyOf(Evolved(send[d], s)), body)]}]
    /\ UNCHANGED <<recv, faults, delivered>>

(* The ratchet has advanced and the codec then fails, on an empty          *)
(* plaintext or because its own gather fails: there is no packet.          *)
EncodeFails(d, s) ==
    /\ Advance(d, s)
    /\ UNCHANGED <<recv, wire, faults, delivered>>

(* The gather in advance fails: the error comes before any change. *)
AdvanceFails(d) == UNCHANGED vars

-----------------------------------------------------------------------------
(* The receiver: decode_session and decode_session_aead *)

(* Out of sequence: an error, and the ratchet stays where it is. *)
DecodeRejects(d, p) ==
    /\ ~ ExpectsCounter(recv[d], p.step.counter)
    /\ UNCHANGED <<recv, delivered>>

(* Mutant of DecodeAdvances: the stepped ratchet is not written back. *)
DecodeForgets(d, p) ==
    /\ ExpectsCounter(recv[d], p.step.counter)
    /\ UNCHANGED recv
    /\ IF Opens(KeyOf(Evolved(recv[d], p.step.snapshot)), p.inner)
       THEN delivered' = [delivered EXCEPT ![d] =
                Append(@, [counter |-> p.step.counter, body |-> p.inner.body])]
       ELSE UNCHANGED delivered

(* The ratchet steps with the packet's snapshot, and only then is the      *)
(* inner packet authenticated.                                             *)
DecodeAdvances(d, p) ==
    /\ ExpectsCounter(recv[d], p.step.counter)
    /\ recv' = [recv EXCEPT ![d] = Evolved(recv[d], p.step.snapshot)]
    /\ \/ /\ Opens(KeyOf(Evolved(recv[d], p.step.snapshot)), p.inner)
          /\ delivered' = [delivered EXCEPT ![d] =
                 Append(@, [counter |-> p.step.counter, body |-> p.inner.body])]
       \/ /\ ~ Opens(KeyOf(Evolved(recv[d], p.step.snapshot)), p.inner)
          /\ UNCHANGED delivered

DecodeSession(d, p) ==
    /\ DecodeRejects(d, p) \/ DecodeAdvances(d, p)
    /\ UNCHANGED <<send, wire, trail>>

-----------------------------------------------------------------------------
(* The transport *)

(* The packets p can have become after one corruption that still parses. *)
Corrupted(p) ==
    {[p EXCEPT !.step.counter = c] : c \in 1 .. MaxCounter} \cup
    {[p EXCEPT !.step.snapshot = s] : s \in Snapshot} \cup
    {[p EXCEPT !.inner.intact = FALSE]}

(* A packet of the receiver's own direction is presented unaltered: for    *)
(* the first time, again, or ahead of others.                              *)
Present(d) ==
    \E p \in wire[d] : DecodeSession(d, p) /\ UNCHANGED faults

(* A corrupted packet, or one of another direction, is presented. *)
PresentFaulty(d) ==
    \E e \in Contexts : \E p \in wire[e] :
    \E q \in Corrupted(p) \cup {p} :
        /\ ~ (d = e /\ p = q)
        /\ faults < MaxFaults
        /\ faults' = faults + 1
        /\ DecodeSession(d, q)

-----------------------------------------------------------------------------
Init ==
    /\ send      = [d \in Contexts |-> NewRatchet(d)]
    /\ recv      = [d \in Contexts |-> NewRatchet(d)]
    /\ wire      = [d \in Contexts |-> {}]
    /\ faults    = 0
    /\ trail     = [d \in Contexts |-> << >>]
    /\ delivered = [d \in Contexts |-> << >>]

Next ==
    \E d \in Contexts :
        \/ \E s \in Snapshot, body \in Bodies : EncodeSession(d, s, body)
        \/ \E s \in Snapshot : EncodeFails(d, s)
        \/ AdvanceFails(d)
        \/ Present(d)
        \/ PresentFaulty(d)

Spec == Init /\ [][Next]_vars

(* The packet the receiver waits for is presented unaltered. *)
PresentNext(d) ==
    \E p \in wire[d] :
        /\ ExpectsCounter(recv[d], p.step.counter)
        /\ DecodeSession(d, p)
        /\ UNCHANGED faults

(* A transport that keeps retransmitting: if the packet the receiver waits *)
(* for exists, it is presented sooner or later.                            *)
FairSpec == Spec /\ \A d \in Contexts : WF_vars(PresentNext(d))

-----------------------------------------------------------------------------
(* Properties *)

(* Every variable has its type: counters stay within bounds, and every     *)
(* strand is a sequence of what gather can return.                         *)
TypeOK ==
    /\ send \in [Contexts -> Ratchet]
    /\ recv \in [Contexts -> Ratchet]
    /\ wire \in [Contexts -> SUBSET Packet]
    /\ faults \in 0 .. MaxFaults
    /\ trail \in [Contexts -> Seq(Ratchet)]
    /\ delivered \in [Contexts -> Seq(Message)]

(* The counters the sender of d used up without a packet coming out. *)
Burnt(d) == (1 .. send[d].counter) \ {p.step.counter : p \in wire[d]}

(* The receiver's ratchet equals what the sender's was at the same counter *)
(* - all three strands, not only the key.                                  *)
InSync(d) ==
    \/ recv[d] = NewRatchet(d)
    \/ recv[d].counter \in 1 .. Len(trail[d]) /\ recv[d] = trail[d][recv[d].counter]

(* Sender and receiver mixed different things into the chain strand at a   *)
(* counter both have passed.                                               *)
Diverged(d) ==
    \E i \in 1 .. Len(recv[d].chn) :
        i <= Len(send[d].chn) /\ recv[d].chn[i] # send[d].chn[i]

(* Whatever decode_session returns was encoded by the sender of the same   *)
(* direction under that counter, and it is returned once and in the order  *)
(* of encoding, under loss, duplication, reordering, misrouting and        *)
(* corruption ("Messages must be processed in order", session.rs:56).      *)
DeliveredInOrder ==
    \A d \in Contexts :
        /\ \A i, j \in 1 .. Len(delivered[d]) :
               i < j => delivered[d][i].counter < delivered[d][j].counter
        /\ \A i \in 1 .. Len(delivered[d]) : \E p \in wire[d] :
               delivered[d][i] = [counter |-> p.step.counter, body |-> p.inner.body]

(* No two packets of the session, in one direction or in two, are sealed   *)
(* under the same message key, even when gather repeats itself.            *)
KeysNeverReused ==
    \A d, e \in Contexts : \A p \in wire[d], q \in wire[e] :
        p.inner.key = q.inner.key => d = e /\ p = q

(* Loss, duplication and reordering alone never take a receiver out of     *)
(* step: it either rejects a packet untouched or follows the sender        *)
(* exactly (the strict counter test comes before any strand evolves).      *)
SyncedWithoutFaults ==
    faults = 0 => \A d \in Contexts : InSync(d)

(* An encode that fails after the ratchet advanced burns a counter, and    *)
(* no loss, duplication or reordering ever gets the receiver past it:      *)
(* nothing later is delivered.  (A packet whose counter field was          *)
(* corrupted may step the receiver beyond the gap; it is then out of step, *)
(* and DivergenceIsPermanent says what follows.)                           *)
GapStopsReceiver ==
    faults = 0 => \A d \in Contexts : \A n \in Burnt(d) : recv[d].counter < n

(* A message that is accepted proves that the whole ratchet agrees with    *)
(* the sender's: no earlier snapshot was corrupted unnoticed.              *)
AcceptedMeansSynced ==
    [][\A d \in Contexts : delivered'[d] # delivered[d] => InSync(d)']_vars

(* A receiver whose ratchet left the sender's path never finds back, and   *)
(* decodes nothing any more: there is no resynchronisation in session.rs.  *)
DivergenceIsPermanent ==
    [][\A d \in Contexts :
         Diverged(d) => Diverged(d)' /\ delivered'[d] = delivered[d]]_vars

(* A packet with no burnt counter before it is delivered, provided the     *)
(* transport keeps presenting what the receiver waits for and presents     *)
(* nothing faulty.                                                         *)
PacketsArrive ==
    \A d \in Contexts, n \in 1 .. MaxCounter :
        ( \E p \in wire[d] : p.step.counter = n /\ (1 .. n) \cap Burnt(d) = {} )
        ~> ( faults > 0 \/ \E i \in 1 .. Len(delivered[d]) : delivered[d][i].counter = n )

(* The session implements ordered delivery: a packet on the wire is an     *)
(* offered message, and what decode_session returned is what was taken.    *)
Offered == [d \in Contexts |->
    {[counter |-> p.step.counter, body |-> p.inner.body] : p \in wire[d]}]

Abstract == INSTANCE OrderedDelivery
    WITH Counters <- 1 .. MaxCounter, offered <- Offered, taken <- delivered

ImplementsOrderedDelivery == Abstract!Spec
=============================================================================
