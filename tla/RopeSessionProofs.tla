-------------------------- MODULE RopeSessionProofs --------------------------
(* Theorems about RopeSession, for every value of its constants. *)
EXTENDS RopeSession, TLAPS

-----------------------------------------------------------------------------
(* Lemmas about the ratchet *)

(* A new ratchet is a ratchet. *)
LEMMA NewRatchetType ==
    ASSUME NEW d \in Contexts
    PROVE  NewRatchet(d) \in Ratchet
BY BoundsAssumption DEF NewRatchet, Ratchet

(* Below the bound a step leads from a ratchet to a ratchet. *)
LEMMA EvolvedType ==
    ASSUME NEW r \in Ratchet, NEW s \in Snapshot, r.counter < MaxCounter
    PROVE  Evolved(r, s) \in Ratchet
<1> DEFINE e == Append(r.ent, s.bytes)
           t == Append(r.tmp, s.ts)
           n == r.counter + 1
           l == [ent |-> e, tmp |-> t, ctr |-> n, salt |-> s.bytes]
<1>1. e \in Seq(Bytes) /\ t \in Seq(Times) /\ s.bytes \in Bytes
  BY DEF Ratchet, Snapshot
<1>2. n \in 1 .. MaxCounter
  BY BoundsAssumption DEF Ratchet
<1>3. l \in Link
  BY <1>1, <1>2 DEF Link
<1>4. Append(r.chn, l) \in Seq(Link)
  BY <1>3 DEF Ratchet
<1>5. Evolved(r, s) = [root |-> r.root, ent |-> e, tmp |-> t,
                       chn |-> Append(r.chn, l), counter |-> n]
  BY DEF Evolved, Mixed
<1>6. r.root \in Contexts /\ n \in 0 .. MaxCounter
  BY <1>2 DEF Ratchet
<1>7. QED
  BY <1>1, <1>4, <1>5, <1>6 DEF Ratchet

(* The key of a ratchet is a message key. *)
LEMMA KeyOfType ==
    ASSUME NEW r \in Ratchet
    PROVE  KeyOf(r) \in MessageKey
BY DEF KeyOf, Ratchet, MessageKey

(* A corrupted packet that still parses is a packet. *)
LEMMA CorruptedType ==
    ASSUME NEW p \in Packet, NEW q \in Corrupted(p) \cup {p}
    PROVE  q \in Packet
<1>1. CASE q = p
  BY <1>1
<1>2. ASSUME NEW c \in 1 .. MaxCounter, q = [p EXCEPT !.step.counter = c]
      PROVE  q \in Packet
  BY <1>2 DEF Packet
<1>3. ASSUME NEW s \in Snapshot, q = [p EXCEPT !.step.snapshot = s]
      PROVE  q \in Packet
  BY <1>3 DEF Packet
<1>4. CASE q = [p EXCEPT !.inner.intact = FALSE]
  BY <1>4 DEF Packet
<1>5. QED
  BY <1>1, <1>2, <1>3, <1>4 DEF Corrupted

-----------------------------------------------------------------------------
(* Type correctness *)

(* Decoding any packet, faulty or not, keeps the receiver's types. *)
LEMMA DecodeType ==
    ASSUME TypeOK, NEW d \in Contexts, NEW p \in Packet, DecodeSession(d, p)
    PROVE  /\ recv' \in [Contexts -> Ratchet]
           /\ delivered' \in [Contexts -> Seq(Message)]
           /\ UNCHANGED <<send, wire, trail>>
<1>1. CASE DecodeRejects(d, p)
  BY <1>1 DEF DecodeSession, DecodeRejects, TypeOK
<1>2. CASE DecodeAdvances(d, p)
  <2> DEFINE m == [counter |-> p.step.counter, body |-> p.inner.body]
  <2>1. recv[d] \in Ratchet /\ p.step.snapshot \in Snapshot
    BY DEF TypeOK, Packet
  <2>2. recv[d].counter < MaxCounter
    BY <1>2, <2>1, BoundsAssumption DEF DecodeAdvances, ExpectsCounter, Packet, Ratchet
  <2>3. Evolved(recv[d], p.step.snapshot) \in Ratchet
    BY <2>1, <2>2, EvolvedType
  <2>4. recv' \in [Contexts -> Ratchet]
    BY <1>2, <2>3 DEF DecodeAdvances, TypeOK
  <2>5. m \in Message
    BY DEF Packet, Message
  <2>6. Append(delivered[d], m) \in Seq(Message)
    BY <2>5 DEF TypeOK
  <2>7. delivered' \in [Contexts -> Seq(Message)]
    BY <1>2, <2>6 DEF DecodeAdvances, TypeOK
  <2>8. QED
    BY <2>4, <2>7 DEF DecodeSession
<1>3. QED
  BY <1>1, <1>2 DEF DecodeSession

(* Advancing a sender keeps the types of its ratchet and of its trail. *)
LEMMA AdvanceType ==
    ASSUME TypeOK, NEW d \in Contexts, NEW s \in Snapshot, Advance(d, s)
    PROVE  /\ send' \in [Contexts -> Ratchet]
           /\ trail' \in [Contexts -> Seq(Ratchet)]
<1>1. Evolved(send[d], s) \in Ratchet
  BY EvolvedType DEF Advance, TypeOK
<1>2. Append(trail[d], Evolved(send[d], s)) \in Seq(Ratchet)
  BY <1>1 DEF TypeOK
<1>3. QED
  BY <1>1, <1>2 DEF Advance, TypeOK

(* Every step preserves the type invariant. *)
LEMMA TypeStep == TypeOK /\ [Next]_vars => TypeOK'
<1> SUFFICES ASSUME TypeOK, [Next]_vars PROVE TypeOK'
  OBVIOUS
<1>1. ASSUME NEW d \in Contexts, NEW s \in Snapshot, NEW body \in Bodies,
             EncodeSession(d, s, body)
      PROVE  TypeOK'
  <2> DEFINE r == Evolved(send[d], s)
             p == [step |-> [counter |-> r.counter, snapshot |-> s],
                   inner |-> Sealed(KeyOf(r), body)]
  <2>1. r \in Ratchet
    BY <1>1, EvolvedType DEF EncodeSession, Advance, TypeOK
  <2>2. r.counter \in 1 .. MaxCounter
    BY <1>1, <2>1, BoundsAssumption DEF EncodeSession, Advance, Evolved, TypeOK, Ratchet
  <2>3. p \in Packet
    BY <2>1, <2>2, KeyOfType DEF Packet, Sealed
  <2>4. wire' = [wire EXCEPT ![d] = @ \cup {p}]
    BY <1>1 DEF EncodeSession
  <2>5. wire' \in [Contexts -> SUBSET Packet]
    BY <2>3, <2>4 DEF TypeOK
  <2>6. QED
    BY <1>1, <2>5, AdvanceType DEF EncodeSession, TypeOK
<1>2. ASSUME NEW d \in Contexts, NEW s \in Snapshot, EncodeFails(d, s)
      PROVE  TypeOK'
  BY <1>2, AdvanceType DEF EncodeFails, TypeOK
<1>3. ASSUME NEW d \in Contexts, Present(d)
      PROVE  TypeOK'
  <2>1. PICK p \in wire[d] : DecodeSession(d, p) /\ UNCHANGED faults
    BY <1>3 DEF Present
  <2>2. p \in Packet
    BY DEF TypeOK
  <2>3. QED
    BY <2>1, <2>2, DecodeType DEF TypeOK
<1>4. ASSUME NEW d \in Contexts, PresentFaulty(d)
      PROVE  TypeOK'
  <2>a. PICK e \in Contexts :
           \E p \in wire[e] : \E q \in Corrupted(p) \cup {p} :
               faults < MaxFaults /\ faults' = faults + 1 /\ DecodeSession(d, q)
    BY <1>4 DEF PresentFaulty
  <2>b. PICK p \in wire[e] : \E q \in Corrupted(p) \cup {p} :
            faults < MaxFaults /\ faults' = faults + 1 /\ DecodeSession(d, q)
    BY <2>a
  <2>1. PICK q \in Corrupted(p) \cup {p} :
            faults < MaxFaults /\ faults' = faults + 1 /\ DecodeSession(d, q)
    BY <2>b
  <2>2. q \in Packet
    BY <2>1, CorruptedType DEF TypeOK
  <2>3. faults' \in 0 .. MaxFaults
    BY <2>1, BoundsAssumption DEF TypeOK
  <2>4. QED
    BY <2>1, <2>2, <2>3, DecodeType DEF TypeOK
<1>5. CASE UNCHANGED vars
  BY <1>5 DEF vars, TypeOK
<1>6. QED
  BY <1>1, <1>2, <1>3, <1>4, <1>5 DEF Next, AdvanceFails

(* Type correctness: in every reachable state of every instance, counters  *)
(* stay within bounds and strands, packets and histories are well formed.  *)
THEOREM TypeCorrect == Spec => []TypeOK
<1>1. Init => TypeOK
  BY NewRatchetType, BoundsAssumption DEF Init, TypeOK
<1>2. QED
  BY <1>1, TypeStep, PTL DEF Spec

-----------------------------------------------------------------------------
(* The inductive invariant.                                                *)
(*                                                                         *)
(* The properties of the session follow from the genuine packets alone     *)
(* being sealed under the keys on the sender's path, and from a ratchet    *)
(* being determined by its root and its chain strand.  Neither is visible  *)
(* in the properties themselves, so the invariant states them.             *)

(* The chain strand has one link per step and the newest link records the  *)
(* other strands and the counter.                                          *)
ChainDetermines(r) ==
    /\ Len(r.chn) = r.counter
    /\ r.counter > 0 => /\ r.chn[r.counter].ent = r.ent
                        /\ r.chn[r.counter].tmp = r.tmp
    /\ r.counter = 0 => r = NewRatchet(r.root)

(* The sender's ratchet after n steps, given the trail of its direction. *)
PathAt(d, path, n) == IF n = 0 THEN NewRatchet(d) ELSE path[n]

(* The trail is the path of the sender's ratchet, one entry per counter. *)
SenderInv ==
    \A d \in Contexts :
        /\ Len(trail[d]) = send[d].counter
        /\ send[d] = PathAt(d, trail[d], send[d].counter)
        /\ \A i \in 1 .. Len(trail[d]) :
               /\ trail[d][i].root = d
               /\ trail[d][i].counter = i
               /\ ChainDetermines(trail[d][i])
               /\ \A k \in 1 .. i : trail[d][i].chn[k] = send[d].chn[k]

(* A packet on the wire is sealed under the key of the sender's path at    *)
(* its counter, and carries the snapshot of that step; a counter has at    *)
(* most one packet.                                                        *)
WireInv ==
    \A d \in Contexts : \A p \in wire[d] :
        /\ p.step.counter \in 1 .. Len(trail[d])
        /\ p.inner = Sealed(KeyOf(trail[d][p.step.counter]), p.inner.body)
        /\ trail[d][p.step.counter] =
               Evolved(PathAt(d, trail[d], p.step.counter - 1), p.step.snapshot)
        /\ \A q \in wire[d] : q.step.counter = p.step.counter => q = p

(* The receiver's ratchet has its direction's root. *)
RecvInv ==
    \A d \in Contexts : recv[d].root = d /\ ChainDetermines(recv[d])

(* What was delivered came from the wire, in order, and the receiver has   *)
(* passed its counter.                                                     *)
DeliveredInv ==
    \A d \in Contexts :
        /\ \A i \in 1 .. Len(delivered[d]) :
               /\ delivered[d][i].counter <= recv[d].counter
               /\ delivered[d][i] \in Offered[d]
        /\ \A i, j \in 1 .. Len(delivered[d]) :
               i < j => delivered[d][i].counter < delivered[d][j].counter

IInv == TypeOK /\ SenderInv /\ WireInv /\ RecvInv /\ DeliveredInv
             /\ SyncedWithoutFaults /\ GapStopsReceiver

-----------------------------------------------------------------------------
(* Lemmas about the invariant's parts *)

(* A step extends the chain by one link, which determines the ratchet. *)
LEMMA EvolvedChain ==
    ASSUME NEW r \in Ratchet, NEW s \in Snapshot, Len(r.chn) = r.counter
    PROVE  /\ ChainDetermines(Evolved(r, s))
           /\ Evolved(r, s).counter = r.counter + 1
           /\ Evolved(r, s).root = r.root
           /\ \A i \in 1 .. r.counter : Evolved(r, s).chn[i] = r.chn[i]
<1> DEFINE e == Append(r.ent, s.bytes)
           t == Append(r.tmp, s.ts)
           n == r.counter + 1
           l == [ent |-> e, tmp |-> t, ctr |-> n, salt |-> s.bytes]
<1>1. Evolved(r, s) = [root |-> r.root, ent |-> e, tmp |-> t,
                       chn |-> Append(r.chn, l), counter |-> n]
  BY DEF Evolved, Mixed
<1>2. r.chn \in Seq(Link) /\ r.counter \in Nat
  BY BoundsAssumption DEF Ratchet
<1> HIDE DEF l
<1>3. /\ Len(Append(r.chn, l)) = n
      /\ Append(r.chn, l)[n] = l
      /\ \A i \in 1 .. r.counter : Append(r.chn, l)[i] = r.chn[i]
  BY <1>2
<1>4. l.ent = e /\ l.tmp = t
  BY DEF l
<1>5. QED
  BY <1>1, <1>2, <1>3, <1>4 DEF ChainDetermines

(* Two ratchets with the same root and the same chain strand are equal. *)
LEMMA SameKeySameRatchet ==
    ASSUME NEW r \in Ratchet, NEW u \in Ratchet,
           ChainDetermines(r), ChainDetermines(u), KeyOf(r) = KeyOf(u)
    PROVE  r = u
<1>1. r.root = u.root /\ r.chn = u.chn
  BY DEF KeyOf
<1>2. r.counter = u.counter
  BY <1>1 DEF ChainDetermines
<1>3. CASE r.counter = 0
  BY <1>1, <1>2, <1>3 DEF ChainDetermines
<1>4. CASE r.counter > 0
  <2>1. r.ent = u.ent /\ r.tmp = u.tmp
    BY <1>1, <1>2, <1>4 DEF ChainDetermines
  <2>2. QED
    BY <1>1, <1>2, <2>1 DEF Ratchet
<1>5. QED
  BY <1>2, <1>3, <1>4, BoundsAssumption DEF Ratchet

(* The sender's path consists of ratchets. *)
LEMMA PathType ==
    ASSUME TypeOK, SenderInv, NEW d \in Contexts, NEW n \in 0 .. Len(trail[d])
    PROVE  /\ PathAt(d, trail[d], n) \in Ratchet
           /\ PathAt(d, trail[d], n).counter = n
           /\ PathAt(d, trail[d], n).root = d
           /\ ChainDetermines(PathAt(d, trail[d], n))
<1>1. CASE n = 0
  <2>1. PathAt(d, trail[d], n) = NewRatchet(d)
    BY <1>1 DEF PathAt
  <2>2. QED
    BY <1>1, <2>1, NewRatchetType DEF NewRatchet, ChainDetermines
<1>2. CASE n > 0
  <2>1. PathAt(d, trail[d], n) = trail[d][n] /\ n \in 1 .. Len(trail[d])
    BY <1>2 DEF PathAt
  <2>2. QED
    BY <2>1 DEF SenderInv, TypeOK
<1>3. QED
  BY <1>1, <1>2

(* Advancing appends one entry to the sender's path and changes no other. *)
LEMMA AdvancePath ==
    ASSUME IInv, NEW d \in Contexts, NEW s \in Snapshot, Advance(d, s)
    PROVE  /\ SenderInv'
           /\ \A x \in Contexts : \A n \in 1 .. Len(trail[x]) :
                  n \in 1 .. Len(trail'[x]) /\ trail'[x][n] = trail[x][n]
           /\ Len(trail'[d]) = send[d].counter + 1
           /\ trail'[d][send[d].counter + 1] = Evolved(send[d], s)
<1> DEFINE r == Evolved(send[d], s)
           n == send[d].counter
<1>1. /\ send[d] \in Ratchet /\ n < MaxCounter /\ n \in Nat
      /\ trail[d] \in Seq(Ratchet) /\ Len(trail[d]) = n
  <2>1. send[d] \in Ratchet /\ trail[d] \in Seq(Ratchet)
    BY DEF IInv, TypeOK
  <2>2. n \in Nat
    BY <2>1, BoundsAssumption DEF Ratchet
  <2>3. n < MaxCounter
    BY DEF Advance
  <2>4. Len(trail[d]) = n
    BY DEF IInv, SenderInv
  <2>5. QED
    BY <2>1, <2>2, <2>3, <2>4
<1>2. r \in Ratchet
  BY <1>1, EvolvedType
<1>3. /\ ChainDetermines(send[d]) /\ send[d].root = d
  BY <1>1, PathType DEF IInv, SenderInv
<1>4. /\ ChainDetermines(r) /\ r.counter = n + 1 /\ r.root = d
      /\ \A i \in 1 .. n : r.chn[i] = send[d].chn[i]
  BY <1>1, <1>3, EvolvedChain DEF ChainDetermines
<1>5. /\ send' = [send EXCEPT ![d] = r]
      /\ trail' = [trail EXCEPT ![d] = Append(@, r)]
  BY DEF Advance
<1> HIDE DEF r
<1>6. /\ send'[d] = r /\ trail'[d] = Append(trail[d], r)
      /\ \A x \in Contexts \ {d} : send'[x] = send[x] /\ trail'[x] = trail[x]
  BY <1>5 DEF IInv, TypeOK
<1>7. /\ Len(trail'[d]) = n + 1 /\ trail'[d][n + 1] = r
      /\ \A i \in 1 .. n : trail'[d][i] = trail[d][i]
  BY <1>1, <1>2, <1>6
<1>8. \A x \in Contexts : \A i \in 1 .. Len(trail[x]) :
         i \in 1 .. Len(trail'[x]) /\ trail'[x][i] = trail[x][i]
  <2> SUFFICES ASSUME NEW x \in Contexts, NEW i \in 1 .. Len(trail[x])
               PROVE  i \in 1 .. Len(trail'[x]) /\ trail'[x][i] = trail[x][i]
    OBVIOUS
  <2>1. CASE x = d
    BY <1>1, <1>7, <2>1
  <2>2. CASE x # d
    BY <1>6, <2>2
  <2>3. QED
    BY <2>1, <2>2
<1>9. SenderInv'
  <2> SUFFICES ASSUME NEW x \in Contexts
               PROVE  /\ Len(trail'[x]) = send'[x].counter
                      /\ send'[x] = PathAt(x, trail'[x], send'[x].counter)
                      /\ \A i \in 1 .. Len(trail'[x]) :
                            /\ trail'[x][i].root = x
                            /\ trail'[x][i].counter = i
                            /\ ChainDetermines(trail'[x][i])
                            /\ \A k \in 1 .. i : trail'[x][i].chn[k] = send'[x].chn[k]
    BY DEF SenderInv, ChainDetermines, NewRatchet
  <2>1. CASE x = d
    <3>1. send'[x] = PathAt(x, trail'[x], send'[x].counter)
      BY <1>1, <1>4, <1>6, <1>7, <2>1 DEF PathAt
    <3>2. ASSUME NEW i \in 1 .. n
          PROVE  /\ trail'[d][i].root = d
                 /\ trail'[d][i].counter = i
                 /\ ChainDetermines(trail'[d][i])
                 /\ \A k \in 1 .. i : trail'[d][i].chn[k] = send'[d].chn[k]
      BY <1>1, <1>4, <1>6, <1>7 DEF IInv, SenderInv
    <3>3. /\ trail'[d][n + 1].root = d
          /\ trail'[d][n + 1].counter = n + 1
          /\ ChainDetermines(trail'[d][n + 1])
          /\ \A k \in 1 .. n + 1 : trail'[d][n + 1].chn[k] = send'[d].chn[k]
      BY <1>4, <1>6, <1>7
    <3>4. Len(trail'[d]) = send'[d].counter
      BY <1>4, <1>6, <1>7
    <3>5. \A i \in 1 .. n + 1 : i \in 1 .. n \/ i = n + 1
      BY <1>1
    <3>6. QED
      BY <1>7, <2>1, <3>1, <3>2, <3>3, <3>4, <3>5
  <2>2. CASE x # d
    <3>1. send'[x] = send[x] /\ trail'[x] = trail[x]
      BY <1>6, <2>2
    <3>2. QED
      BY <3>1 DEF IInv, SenderInv, PathAt
  <2>3. QED
    BY <2>1, <2>2
<1>10. QED
  BY <1>7, <1>8, <1>9 DEF r

(* A packet that decodes is a genuine packet of the receiver's direction,  *)
(* unaltered in its counter and its body, and the receiver's new ratchet   *)
(* is the sender's at that counter.                                        *)
LEMMA OpensMeansGenuine ==
    ASSUME IInv, NEW d \in Contexts, NEW e \in Contexts, NEW p \in wire[e],
           NEW q \in Corrupted(p) \cup {p},
           ExpectsCounter(recv[d], q.step.counter),
           Opens(KeyOf(Evolved(recv[d], q.step.snapshot)), q.inner)
    PROVE  /\ e = d
           /\ q.step.counter = p.step.counter
           /\ q.inner.body = p.inner.body
           /\ Evolved(recv[d], q.step.snapshot) = trail[d][q.step.counter]
           /\ q.step.counter \in 1 .. Len(trail[d])
<1> DEFINE r == Evolved(recv[d], q.step.snapshot)
           k == p.step.counter
<1>1. p \in Packet /\ q \in Packet /\ recv[d] \in Ratchet
  BY CorruptedType DEF IInv, TypeOK
<1>2. recv[d].counter < MaxCounter /\ q.step.snapshot \in Snapshot
  BY <1>1, BoundsAssumption DEF ExpectsCounter, Packet, Ratchet
<1>3. r \in Ratchet
  BY <1>1, <1>2, EvolvedType
<1>4. ChainDetermines(r) /\ r.counter = q.step.counter /\ r.root = d
  BY <1>1, <1>2, EvolvedChain DEF IInv, RecvInv, ChainDetermines, ExpectsCounter
<1>5. q.inner.intact /\ q.inner.key = KeyOf(r)
  BY DEF Opens
<1>6. q.inner = p.inner
  <2>1. q # [p EXCEPT !.inner.intact = FALSE]
    BY <1>1, <1>5 DEF Packet
  <2>2. ASSUME NEW c \in 1 .. MaxCounter, q = [p EXCEPT !.step.counter = c]
        PROVE  q.inner = p.inner
    BY <1>1, <2>2 DEF Packet
  <2>3. ASSUME NEW s \in Snapshot, q = [p EXCEPT !.step.snapshot = s]
        PROVE  q.inner = p.inner
    BY <1>1, <2>3 DEF Packet
  <2>4. QED
    BY <2>1, <2>2, <2>3 DEF Corrupted
<1>7. k \in 1 .. Len(trail[e]) /\ p.inner.key = KeyOf(trail[e][k])
  <2>1. /\ k \in 1 .. Len(trail[e])
        /\ p.inner = Sealed(KeyOf(trail[e][k]), p.inner.body)
    BY DEF IInv, WireInv
  <2>2. QED
    BY <2>1 DEF Sealed
<1>8. /\ trail[e][k] \in Ratchet /\ ChainDetermines(trail[e][k])
      /\ trail[e][k].root = e /\ trail[e][k].counter = k
  BY <1>7 DEF IInv, TypeOK, SenderInv
<1>9. r = trail[e][k]
  BY <1>3, <1>4, <1>5, <1>6, <1>7, <1>8, SameKeySameRatchet
<1>10. QED
  BY <1>4, <1>6, <1>7, <1>8, <1>9

-----------------------------------------------------------------------------
(* The invariant is preserved *)

(* Advancing the sender leaves the receiver's side of the invariant true. *)
LEMMA AdvanceKeepsReceiver ==
    ASSUME IInv, NEW d \in Contexts, NEW s \in Snapshot, Advance(d, s),
           UNCHANGED <<recv, faults>>
    PROVE  RecvInv' /\ SyncedWithoutFaults'
<1>1. RecvInv'
  BY DEF IInv, RecvInv, ChainDetermines, NewRatchet
<1>2. ASSUME NEW x \in Contexts, InSync(x)
      PROVE  InSync(x)'
  <2>1. CASE recv[x] = NewRatchet(x)
    BY <2>1 DEF InSync, NewRatchet
  <2>2. CASE recv[x].counter \in 1 .. Len(trail[x]) /\ recv[x] = trail[x][recv[x].counter]
    BY <2>2, AdvancePath DEF InSync
  <2>3. QED
    BY <1>2, <2>1, <2>2 DEF InSync
<1>3. QED
  BY <1>1, <1>2 DEF IInv, SyncedWithoutFaults

(* A receiver in sync is not ahead of the sender. *)
LEMMA InSyncCounter ==
    ASSUME IInv, NEW d \in Contexts, InSync(d)
    PROVE  /\ recv[d].counter \in 0 .. send[d].counter
           /\ recv[d] = PathAt(d, trail[d], recv[d].counter)
<1>1. /\ Len(trail[d]) = send[d].counter /\ send[d].counter \in Nat
      /\ recv[d].counter \in Nat
  BY BoundsAssumption DEF IInv, SenderInv, TypeOK, Ratchet
<1>2. CASE recv[d] = NewRatchet(d)
  BY <1>1, <1>2 DEF PathAt, NewRatchet
<1>3. CASE recv[d].counter \in 1 .. Len(trail[d]) /\ recv[d] = trail[d][recv[d].counter]
  BY <1>1, <1>3 DEF PathAt
<1>4. QED
  BY <1>2, <1>3 DEF InSync

(* The next path entry of every other direction, and every earlier entry,  *)
(* is what it was.                                                         *)
LEMMA PathKept ==
    ASSUME IInv, NEW d \in Contexts, NEW s \in Snapshot, Advance(d, s),
           NEW x \in Contexts, NEW n \in 0 .. Len(trail[x])
    PROVE  PathAt(x, trail'[x], n) = PathAt(x, trail[x], n)
<1>1. n = 0 \/ n \in 1 .. Len(trail[x])
  OBVIOUS
<1>2. QED
  BY <1>1, AdvancePath DEF PathAt, NewRatchet

(* What encode_session puts on the wire fits the sender's path. *)
LEMMA EncodeKeepsWire ==
    ASSUME IInv, NEW d \in Contexts, NEW s \in Snapshot, NEW body \in Bodies,
           EncodeSession(d, s, body)
    PROVE  WireInv' /\ (\A x \in Contexts : wire[x] \subseteq wire'[x])
<1>0. PICK m \in Nat : m = send[d].counter
  BY BoundsAssumption DEF IInv, TypeOK, Ratchet
<1> DEFINE r == Evolved(send[d], s)
           n == m + 1
           new == [step |-> [counter |-> n, snapshot |-> s],
                   inner |-> Sealed(KeyOf(r), body)]
<1>1. Advance(d, s) /\ r.counter = n /\ Len(trail[d]) = m
  BY <1>0 DEF EncodeSession, Evolved, IInv, SenderInv
<1>2. /\ wire'[d] = wire[d] \cup {new}
      /\ \A x \in Contexts \ {d} : wire'[x] = wire[x]
  BY <1>1 DEF EncodeSession, IInv, TypeOK
<1>3. /\ Len(trail'[d]) = n /\ trail'[d][n] = r
      /\ PathAt(d, trail[d], m) = send[d]
  BY <1>0, <1>1, AdvancePath DEF IInv, SenderInv
<1>4. ASSUME NEW x \in Contexts, NEW p \in wire[x]
      PROVE  /\ p.step.counter \in 1 .. Len(trail'[x])
             /\ p.inner = Sealed(KeyOf(trail'[x][p.step.counter]), p.inner.body)
             /\ trail'[x][p.step.counter] =
                    Evolved(PathAt(x, trail'[x], p.step.counter - 1), p.step.snapshot)
             /\ p.step.counter <= Len(trail[x])
  <2>1. /\ p.step.counter \in 1 .. Len(trail[x])
        /\ p.inner = Sealed(KeyOf(trail[x][p.step.counter]), p.inner.body)
        /\ trail[x][p.step.counter] =
               Evolved(PathAt(x, trail[x], p.step.counter - 1), p.step.snapshot)
    BY DEF IInv, WireInv
  <2>2. /\ p.step.counter \in 1 .. Len(trail'[x])
        /\ trail'[x][p.step.counter] = trail[x][p.step.counter]
    BY <1>1, <2>1, AdvancePath
  <2>3. p.step.counter - 1 \in 0 .. Len(trail[x])
    BY <2>1
  <2>4. PathAt(x, trail'[x], p.step.counter - 1) = PathAt(x, trail[x], p.step.counter - 1)
    <3> DEFINE k == p.step.counter - 1
    <3>1. k \in 0 .. Len(trail[x])
      BY <2>3
    <3>2. QED
      BY <1>1, <3>1, PathKept
  <2>5. QED
    BY <2>1, <2>2, <2>4
<1>5. /\ n \in 1 .. Len(trail'[d])
      /\ trail'[d][n] = Evolved(PathAt(d, trail'[d], m), s)
  <2>1. PathAt(d, trail'[d], m) = PathAt(d, trail[d], m)
    BY <1>0, <1>1, PathKept
  <2>2. QED
    BY <1>1, <1>3, <2>1
<1>6. /\ new.step.counter = n /\ new.step.snapshot = s
      /\ new.inner = Sealed(KeyOf(trail'[d][n]), new.inner.body)
  BY <1>3 DEF Sealed
<1> HIDE DEF new
<1>7. ASSUME NEW x \in Contexts, NEW p \in wire'[x], NEW q \in wire'[x],
             q.step.counter = p.step.counter
      PROVE  q = p
  <2>1. ASSUME NEW y \in wire[d] PROVE y.step.counter # n
    BY <1>1, <1>4
  <2>2. CASE p \in wire[x] /\ q \in wire[x]
    BY <1>7, <2>2 DEF IInv, WireInv
  <2>3. CASE x = d /\ p = new
    BY <1>2, <1>6, <1>7, <2>1, <2>3
  <2>4. CASE x = d /\ q = new
    BY <1>2, <1>6, <1>7, <2>1, <2>4
  <2>5. QED
    BY <1>2, <2>2, <2>3, <2>4
<1>8. ASSUME NEW x \in Contexts, NEW p \in wire'[x]
      PROVE  /\ p.step.counter \in 1 .. Len(trail'[x])
             /\ p.inner = Sealed(KeyOf(trail'[x][p.step.counter]), p.inner.body)
             /\ trail'[x][p.step.counter] =
                   Evolved(PathAt(x, trail'[x], p.step.counter - 1), p.step.snapshot)
  <2>1. CASE p \in wire[x]
    BY <1>4, <2>1
  <2>2. CASE x = d /\ p = new
    <3>1. n - 1 = m
      BY <1>0
    <3>2. QED
      BY <1>5, <1>6, <2>2, <3>1
  <2>3. QED
    BY <1>2, <2>1, <2>2
<1>9. WireInv'
  BY <1>7, <1>8 DEF WireInv, PathAt, NewRatchet, Evolved, Mixed, Sealed, KeyOf
<1>10. QED
  BY <1>2, <1>9

(* A sender's step keeps the gap property: the counter it may burn lies    *)
(* ahead of a receiver in sync.                                            *)
LEMMA AdvanceKeepsGap ==
    ASSUME IInv, NEW d \in Contexts, NEW s \in Snapshot, Advance(d, s),
           UNCHANGED <<recv, faults>>, \A x \in Contexts : wire[x] \subseteq wire'[x]
    PROVE  GapStopsReceiver'
<1> SUFFICES ASSUME faults = 0, NEW x \in Contexts, NEW n \in Burnt(x)'
             PROVE  recv[x].counter < n
  BY DEF GapStopsReceiver
<1>1. /\ n \in 1 .. send'[x].counter
      /\ \A p \in wire[x] : p.step.counter # n
  BY DEF Burnt
<1>2. recv[x].counter \in 0 .. send[x].counter /\ send[x].counter \in Nat
  <2>1. InSync(x)
    BY DEF IInv, SyncedWithoutFaults
  <2>2. send[x].counter \in Nat
    BY BoundsAssumption DEF IInv, TypeOK, Ratchet
  <2>3. QED
    BY <2>1, <2>2, InSyncCounter
<1>3. send'[x].counter = send[x].counter \/ send'[x].counter = send[x].counter + 1
  BY DEF Advance, Evolved, IInv, TypeOK
<1>4. CASE n \in 1 .. send[x].counter
  BY <1>1, <1>4 DEF Burnt, IInv, GapStopsReceiver
<1>5. CASE n = send[x].counter + 1
  BY <1>2, <1>5
<1>6. QED
  BY <1>1, <1>2, <1>3, <1>4, <1>5

(* What a packet can be when decode_session is called with it: genuine and *)
(* counted as no fault, or faulty and counted.                             *)
Presented(d, e, p, q) ==
    /\ p \in wire[e]
    /\ q \in Corrupted(p) \cup {p}
    /\ DecodeSession(d, q)
    /\ \/ e = d /\ q = p /\ faults' = faults
       \/ faults' = faults + 1

(* decode_session keeps the receiver's side of the invariant. *)
LEMMA DecodeKeepsReceiver ==
    ASSUME IInv, NEW d \in Contexts, NEW e \in Contexts, NEW p, NEW q,
           Presented(d, e, p, q)
    PROVE  RecvInv' /\ DeliveredInv'
<1>1. UNCHANGED <<send, wire, trail>> /\ q \in Packet /\ recv[d] \in Ratchet
  BY CorruptedType DEF Presented, DecodeSession, IInv, TypeOK
<1>2. CASE UNCHANGED <<recv, delivered>>
  BY <1>1, <1>2 DEF IInv, RecvInv, DeliveredInv, ChainDetermines, NewRatchet, Offered
<1>3. CASE DecodeAdvances(d, q)
  <2> DEFINE r == Evolved(recv[d], q.step.snapshot)
  <2>1. q.step.snapshot \in Snapshot /\ Len(recv[d].chn) = recv[d].counter
    BY <1>1 DEF Packet, IInv, RecvInv, ChainDetermines
  <2>2. ChainDetermines(r) /\ r.counter = recv[d].counter + 1 /\ r.root = recv[d].root
    BY <1>1, <2>1, EvolvedChain
  <2>3. /\ recv' = [recv EXCEPT ![d] = r]
        /\ q.step.counter = r.counter
    BY <1>3, <2>2 DEF DecodeAdvances, ExpectsCounter
  <2> HIDE DEF r
  <2>4. recv'[d] = r /\ \A x \in Contexts \ {d} : recv'[x] = recv[x]
    BY <2>3 DEF IInv, TypeOK
  <2>5. RecvInv'
    BY <2>2, <2>4 DEF IInv, RecvInv, ChainDetermines, NewRatchet
  <2>6. recv[d].counter \in Nat
    BY <1>1, BoundsAssumption DEF Ratchet
  <2>7. CASE UNCHANGED delivered
    <3>1. ASSUME NEW x \in Contexts, NEW i \in 1 .. Len(delivered[x])
          PROVE  delivered[x][i].counter <= recv'[x].counter
      <4>1. delivered[x][i] \in Message
        BY DEF IInv, TypeOK
      <4>2. delivered[x][i].counter \in Nat
        BY <4>1 DEF Message
      <4>3. delivered[x][i].counter <= recv[x].counter
        BY DEF IInv, DeliveredInv
      <4>4. CASE x = d
        BY <2>2, <2>4, <2>6, <4>2, <4>3, <4>4
      <4>5. CASE x # d
        BY <2>4, <4>3, <4>5
      <4>6. QED
        BY <4>4, <4>5
    <3>2. Offered' = Offered /\ delivered' = delivered
      BY <1>1, <2>7 DEF Offered
    <3>3. QED
      BY <2>5, <3>1, <3>2 DEF IInv, DeliveredInv
  <2>8. CASE delivered' # delivered
    <3> DEFINE m == [counter |-> q.step.counter, body |-> q.inner.body]
               k == Len(delivered[d])
    <3>1. /\ Opens(KeyOf(Evolved(recv[d], q.step.snapshot)), q.inner)
          /\ delivered' = [delivered EXCEPT ![d] = Append(@, m)]
      BY <1>3, <2>8 DEF DecodeAdvances
    <3>2. p \in wire[e] /\ q \in Corrupted(p) \cup {p}
      BY DEF Presented
    <3>3. ExpectsCounter(recv[d], q.step.counter)
      BY <1>3 DEF DecodeAdvances
    <3>4. /\ e = d /\ q.step.counter = p.step.counter
          /\ q.inner.body = p.inner.body
      BY <3>1, <3>2, <3>3, OpensMeansGenuine
    <3>5. m \in Offered[d] /\ m.counter = recv[d].counter + 1
      BY <2>2, <2>3, <3>2, <3>4 DEF Offered
    <3> HIDE DEF m
    <3>6. m \in Message /\ delivered[d] \in Seq(Message)
      <4>1. m \in Message
        BY <1>1 DEF m, Packet, Message
      <4>2. QED
        BY <4>1 DEF IInv, TypeOK
    <3>7. /\ delivered'[d] = Append(delivered[d], m)
          /\ \A x \in Contexts \ {d} : delivered'[x] = delivered[x]
      BY <3>1 DEF IInv, TypeOK
    <3>8. /\ k \in Nat /\ Len(delivered'[d]) = k + 1
          /\ delivered'[d][k + 1] = m
          /\ \A i \in 1 .. k : delivered'[d][i] = delivered[d][i]
      BY <3>6, <3>7
    <3> DEFINE Good(x) ==
          /\ \A i \in 1 .. Len(delivered'[x]) :
                 /\ delivered'[x][i].counter <= recv'[x].counter
                 /\ delivered'[x][i] \in Offered[x]
          /\ \A i, j \in 1 .. Len(delivered'[x]) :
                 i < j => delivered'[x][i].counter < delivered'[x][j].counter
    <3>9. ASSUME NEW x \in Contexts, x # d
          PROVE  Good(x)
      BY <2>4, <3>7, <3>9 DEF IInv, DeliveredInv
    <3>10. ASSUME NEW i \in 1 .. k
           PROVE  /\ delivered[d][i].counter \in Nat
                  /\ delivered[d][i].counter <= recv[d].counter
                  /\ delivered[d][i] \in Offered[d]
      <4>1. delivered[d][i] \in Message
        BY <3>6
      <4>2. QED
        BY <4>1 DEF IInv, DeliveredInv, Message
    <3>11. ASSUME NEW i \in 1 .. k + 1
           PROVE  /\ delivered'[d][i].counter <= recv'[d].counter
                  /\ delivered'[d][i] \in Offered[d]
      <4>1. CASE i \in 1 .. k
        BY <2>2, <2>4, <2>6, <3>8, <3>10, <4>1
      <4>2. CASE i = k + 1
        BY <2>2, <2>4, <2>6, <3>5, <3>8, <4>2
      <4>3. QED
        BY <3>8, <4>1, <4>2
    <3>12. ASSUME NEW i \in 1 .. k + 1, NEW j \in 1 .. k + 1, i < j
           PROVE  delivered'[d][i].counter < delivered'[d][j].counter
      <4>1. i \in 1 .. k
        BY <3>8, <3>12
      <4>2. CASE j \in 1 .. k
        BY <3>8, <3>12, <4>1, <4>2 DEF IInv, DeliveredInv
      <4>3. CASE j = k + 1
        <5>1. /\ delivered'[d][i] = delivered[d][i]
              /\ delivered'[d][j] = m
          BY <3>8, <4>1, <4>3
        <5>2. /\ delivered[d][i].counter \in Nat
              /\ delivered[d][i].counter <= recv[d].counter
          BY <3>10, <4>1
        <5>3. QED
          BY <2>6, <3>5, <5>1, <5>2
      <4>4. j \in 1 .. k \/ j = k + 1
        BY <3>8
      <4>5. QED
        BY <4>2, <4>3, <4>4
    <3>13. Good(d)
      BY <3>8, <3>11, <3>12
    <3>14. Offered' = Offered
      BY <1>1 DEF Offered
    <3>15. QED
      BY <2>5, <3>9, <3>13, <3>14 DEF DeliveredInv
  <2>9. QED
    BY <2>5, <2>7, <2>8
<1>4. QED
  BY <1>2, <1>3 DEF Presented, DecodeSession, DecodeRejects

(* Without faults, decode_session keeps a receiver in sync and behind any  *)
(* burnt counter.                                                          *)
LEMMA DecodeKeepsSync ==
    ASSUME IInv, NEW d \in Contexts, NEW e \in Contexts, NEW p, NEW q,
           Presented(d, e, p, q)
    PROVE  SyncedWithoutFaults' /\ GapStopsReceiver'
<1> SUFFICES ASSUME faults' = 0
             PROVE  /\ \A x \in Contexts : InSync(x)'
                    /\ \A x \in Contexts : \A n \in Burnt(x)' : recv'[x].counter < n
  BY DEF SyncedWithoutFaults, GapStopsReceiver
<1>1. /\ faults = 0 /\ e = d /\ q = p /\ p \in wire[d]
      /\ UNCHANGED <<send, wire, trail>>
  BY DEF Presented, DecodeSession, IInv, TypeOK
<1>2. \A x \in Contexts : InSync(x)
  BY <1>1 DEF IInv, SyncedWithoutFaults
<1>3. \A x \in Contexts : \A n \in Burnt(x) : recv[x].counter < n
  BY <1>1 DEF IInv, GapStopsReceiver
<1>4. \A x \in Contexts : Burnt(x)' = Burnt(x)
  BY <1>1 DEF Burnt
<1>5. CASE UNCHANGED recv
  BY <1>1, <1>2, <1>3, <1>4, <1>5 DEF InSync, NewRatchet
<1>6. CASE DecodeAdvances(d, p)
  <2> DEFINE c == p.step.counter
             r == Evolved(recv[d], p.step.snapshot)
  <2>1. /\ c = recv[d].counter + 1
        /\ recv' = [recv EXCEPT ![d] = r]
    BY <1>6 DEF DecodeAdvances, ExpectsCounter
  <2>2. recv[d].counter \in Nat /\ c - 1 = recv[d].counter
    BY <2>1, BoundsAssumption DEF IInv, TypeOK, Ratchet
  <2>3. recv[d] = PathAt(d, trail[d], c - 1)
    BY <1>2, <2>2, InSyncCounter
  <2>4. /\ c \in 1 .. Len(trail[d])
        /\ trail[d][c] = Evolved(PathAt(d, trail[d], c - 1), p.step.snapshot)
    BY <1>1 DEF IInv, WireInv
  <2>5. /\ recv'[d] = trail[d][c]
        /\ \A x \in Contexts \ {d} : recv'[x] = recv[x]
    BY <2>1, <2>3, <2>4 DEF IInv, TypeOK
  <2>6. recv'[d].counter = c
    BY <2>4, <2>5 DEF IInv, SenderInv
  <2>7. ASSUME NEW x \in Contexts
        PROVE  InSync(x)'
    BY <1>1, <1>2, <2>4, <2>5, <2>6 DEF InSync, NewRatchet
  <2>8. ASSUME NEW x \in Contexts, NEW n \in Burnt(x)
        PROVE  recv'[x].counter < n
    <3>1. CASE x = d
      <4>1. n # c /\ recv[d].counter < n /\ n \in Nat
        BY <1>1, <1>3, <3>1 DEF Burnt
      <4>2. QED
        BY <2>1, <2>2, <2>6, <3>1, <4>1
    <3>2. CASE x # d
      BY <1>3, <2>5, <3>2
    <3>3. QED
      BY <3>1, <3>2
  <2>9. QED
    BY <1>4, <2>7, <2>8
<1>7. QED
  BY <1>1, <1>5, <1>6 DEF Presented, DecodeSession, DecodeRejects

(* A step that leaves the sender and the wire alone keeps their invariants. *)
LEMMA SenderSideFrame ==
    ASSUME SenderInv, WireInv, UNCHANGED <<send, wire, trail>>
    PROVE  SenderInv' /\ WireInv'
<1>1. SenderInv'
  BY DEF SenderInv
<1>2. WireInv'
  BY DEF WireInv
<1>3. QED
  BY <1>1, <1>2

(* Every step preserves the inductive invariant. *)
LEMMA InvariantStep == IInv /\ [Next]_vars => IInv'
<1> SUFFICES ASSUME IInv, [Next]_vars PROVE IInv'
  OBVIOUS
<1>0. TypeOK'
  BY TypeStep DEF IInv
<1>1. ASSUME NEW d \in Contexts, NEW s \in Snapshot, NEW body \in Bodies,
             EncodeSession(d, s, body)
      PROVE  IInv'
  <2>1. Advance(d, s) /\ UNCHANGED <<recv, faults, delivered>>
    BY <1>1 DEF EncodeSession
  <2>2. WireInv' /\ \A x \in Contexts : wire[x] \subseteq wire'[x]
    BY <1>1, EncodeKeepsWire
  <2>3. DeliveredInv'
    BY <2>1, <2>2 DEF IInv, DeliveredInv, Offered
  <2>4. SenderInv' /\ RecvInv' /\ SyncedWithoutFaults' /\ GapStopsReceiver'
    BY <2>1, <2>2, AdvancePath, AdvanceKeepsReceiver, AdvanceKeepsGap
  <2>5. QED
    BY <1>0, <2>2, <2>3, <2>4 DEF IInv
<1>2. ASSUME NEW d \in Contexts, NEW s \in Snapshot, EncodeFails(d, s)
      PROVE  IInv'
  <2>1. Advance(d, s) /\ UNCHANGED <<recv, wire, faults, delivered>>
    BY <1>2 DEF EncodeFails
  <2>2. ASSUME NEW x \in Contexts, NEW p \in wire[x]
        PROVE  /\ p.step.counter \in 1 .. Len(trail'[x])
               /\ trail'[x][p.step.counter] = trail[x][p.step.counter]
               /\ PathAt(x, trail'[x], p.step.counter - 1) =
                      PathAt(x, trail[x], p.step.counter - 1)
    <3>1. p.step.counter \in 1 .. Len(trail[x])
      BY DEF IInv, WireInv
    <3>2. PICK k \in 0 .. Len(trail[x]) : k = p.step.counter - 1
      BY <3>1
    <3>3. PathAt(x, trail'[x], k) = PathAt(x, trail[x], k)
      BY <2>1, PathKept
    <3>4. QED
      BY <2>1, <3>1, <3>2, <3>3, AdvancePath
  <2>3. WireInv'
    <3> SUFFICES ASSUME NEW x \in Contexts, NEW p \in wire[x]
                 PROVE  /\ p.step.counter \in 1 .. Len(trail'[x])
                        /\ p.inner = Sealed(KeyOf(trail'[x][p.step.counter]), p.inner.body)
                        /\ trail'[x][p.step.counter] =
                              Evolved(PathAt(x, trail'[x], p.step.counter - 1), p.step.snapshot)
                        /\ \A q \in wire[x] : q.step.counter = p.step.counter => q = p
      BY <2>1 DEF WireInv, PathAt, NewRatchet, Evolved, Mixed, Sealed, KeyOf
    <3>1. QED
      BY <2>2 DEF IInv, WireInv
  <2>4. DeliveredInv'
    BY <2>1 DEF IInv, DeliveredInv, Offered
  <2>5. SenderInv' /\ RecvInv' /\ SyncedWithoutFaults' /\ GapStopsReceiver'
    BY <2>1, AdvancePath, AdvanceKeepsReceiver, AdvanceKeepsGap
  <2>6. QED
    BY <1>0, <2>3, <2>4, <2>5 DEF IInv
<1>3. ASSUME NEW d \in Contexts, NEW e \in Contexts, NEW p, NEW q,
             Presented(d, e, p, q)
      PROVE  IInv'
  <2>1. UNCHANGED <<send, wire, trail>>
    BY <1>3 DEF Presented, DecodeSession
  <2>2. SenderInv' /\ WireInv'
    BY <2>1, SenderSideFrame DEF IInv
  <2>3. QED
    BY <1>0, <1>3, <2>2, DecodeKeepsReceiver, DecodeKeepsSync DEF IInv
<1>4. ASSUME NEW d \in Contexts, Present(d)
      PROVE  IInv'
  <2>1. PICK p \in wire[d] : DecodeSession(d, p) /\ UNCHANGED faults
    BY <1>4 DEF Present
  <2>2. Presented(d, d, p, p)
    BY <2>1 DEF Presented
  <2>3. QED
    BY <1>3, <2>2
<1>5. ASSUME NEW d \in Contexts, PresentFaulty(d)
      PROVE  IInv'
  <2>1. PICK e \in Contexts : \E p \in wire[e] : \E q \in Corrupted(p) \cup {p} :
           faults' = faults + 1 /\ DecodeSession(d, q)
    BY <1>5 DEF PresentFaulty
  <2>2. PICK p \in wire[e] : \E q \in Corrupted(p) \cup {p} :
           faults' = faults + 1 /\ DecodeSession(d, q)
    BY <2>1
  <2>3. PICK q \in Corrupted(p) \cup {p} : faults' = faults + 1 /\ DecodeSession(d, q)
    BY <2>2
  <2>4. Presented(d, e, p, q)
    BY <2>3 DEF Presented
  <2>5. QED
    BY <1>3, <2>4
<1>6. CASE UNCHANGED vars
  <2>1. SenderInv' /\ WireInv'
    BY <1>6, SenderSideFrame DEF vars, IInv
  <2>2. RecvInv'
    BY <1>6 DEF vars, IInv, RecvInv, ChainDetermines, NewRatchet
  <2>3. DeliveredInv'
    BY <1>6 DEF vars, IInv, DeliveredInv, Offered
  <2>4. SyncedWithoutFaults'
    BY <1>6 DEF vars, IInv, SyncedWithoutFaults, InSync, NewRatchet
  <2>5. GapStopsReceiver'
    BY <1>6 DEF vars, IInv, GapStopsReceiver, Burnt
  <2>6. QED
    BY <1>0, <2>1, <2>2, <2>3, <2>4, <2>5 DEF IInv
<1>7. QED
  BY <1>1, <1>2, <1>4, <1>5, <1>6 DEF Next, AdvanceFails

(* The inductive invariant holds initially. *)
LEMMA InvariantInit == Init => IInv
<1> SUFFICES ASSUME Init PROVE IInv
  OBVIOUS
<1>1. TypeOK
  BY NewRatchetType, BoundsAssumption DEF Init, TypeOK
<1>2. ASSUME NEW d \in Contexts
      PROVE  /\ send[d] = NewRatchet(d) /\ recv[d] = NewRatchet(d)
             /\ wire[d] = {} /\ trail[d] = << >> /\ delivered[d] = << >>
  BY DEF Init
<1>3. ASSUME NEW d \in Contexts
      PROVE  /\ NewRatchet(d).counter = 0 /\ NewRatchet(d).root = d
             /\ ChainDetermines(NewRatchet(d))
  BY DEF NewRatchet, ChainDetermines
<1>4. SenderInv /\ RecvInv
  BY <1>2, <1>3 DEF SenderInv, RecvInv, PathAt
<1>5. WireInv /\ DeliveredInv
  BY <1>2 DEF WireInv, DeliveredInv
<1>6. SyncedWithoutFaults
  BY <1>2 DEF SyncedWithoutFaults, InSync
<1>7. GapStopsReceiver
  BY <1>2, <1>3 DEF GapStopsReceiver, Burnt
<1>8. QED
  BY <1>1, <1>4, <1>5, <1>6, <1>7 DEF IInv

(* The inductive invariant holds in every reachable state. *)
THEOREM Invariant == Spec => []IInv
BY InvariantInit, InvariantStep, PTL DEF Spec

-----------------------------------------------------------------------------
(* What follows for the session *)

(* Ordered delivery: whatever the transport loses, repeats, reorders,      *)
(* misroutes or corrupts, decode_session returns messages the sender of    *)
(* that direction encoded, each once and in order.                         *)
THEOREM DeliveryOrdered == Spec => []DeliveredInOrder
<1>1. IInv => DeliveredInOrder
  BY DEF IInv, DeliveredInv, DeliveredInOrder, Offered
<1>2. QED
  BY <1>1, Invariant, PTL

(* Loss, repetition and reordering alone never take a receiver out of step *)
(* with its sender.                                                        *)
THEOREM ReceiverSynced == Spec => []SyncedWithoutFaults
<1>1. IInv => SyncedWithoutFaults
  BY DEF IInv
<1>2. QED
  BY <1>1, Invariant, PTL

(* As long as no packet is corrupted, a counter burnt by a failed encode   *)
(* is a barrier that no receiver passes.                                   *)
THEOREM GapIsBarrier == Spec => []GapStopsReceiver
<1>1. IInv => GapStopsReceiver
  BY DEF IInv
<1>2. QED
  BY <1>1, Invariant, PTL

(* Two packets on the wire, of the same direction or of two, are sealed    *)
(* under different message keys.                                           *)
THEOREM KeysUnique == Spec => []KeysNeverReused
<1>1. ASSUME IInv, NEW d \in Contexts, NEW e \in Contexts,
             NEW p \in wire[d], NEW q \in wire[e], p.inner.key = q.inner.key
      PROVE  d = e /\ p = q
  <2> DEFINE u == trail[d][p.step.counter]
             v == trail[e][q.step.counter]
  <2>1. /\ p.step.counter \in 1 .. Len(trail[d])
        /\ q.step.counter \in 1 .. Len(trail[e])
        /\ p.inner = Sealed(KeyOf(u), p.inner.body)
        /\ q.inner = Sealed(KeyOf(v), q.inner.body)
    BY <1>1 DEF IInv, WireInv
  <2>2. p.inner.key = KeyOf(u) /\ q.inner.key = KeyOf(v)
    BY <2>1 DEF Sealed
  <2>3. /\ u \in Ratchet /\ ChainDetermines(u)
        /\ u.root = d /\ u.counter = p.step.counter
    BY <1>1, <2>1 DEF IInv, TypeOK, SenderInv
  <2>4. /\ v \in Ratchet /\ ChainDetermines(v)
        /\ v.root = e /\ v.counter = q.step.counter
    BY <1>1, <2>1 DEF IInv, TypeOK, SenderInv
  <2>5. u = v
    BY <1>1, <2>2, <2>3, <2>4, SameKeySameRatchet
  <2>6. d = e /\ p.step.counter = q.step.counter
    BY <2>3, <2>4, <2>5
  <2>7. QED
    BY <1>1, <2>6 DEF IInv, WireInv
<1>2. IInv => KeysNeverReused
  BY <1>1 DEF KeysNeverReused
<1>3. QED
  BY <1>2, Invariant, PTL

(* In one step, what is delivered was offered by the same direction, under *)
(* a counter above all that was delivered before, and leaves the receiver  *)
(* with the sender's ratchet at that counter.                              *)
LEMMA DeliveryStep ==
    ASSUME IInv, NEW d \in Contexts, NEW e \in Contexts, NEW p, NEW q,
           Presented(d, e, p, q), delivered' # delivered
    PROVE  /\ p \in wire[d]
           /\ delivered' = [delivered EXCEPT ![d] =
                  Append(@, [counter |-> p.step.counter, body |-> p.inner.body])]
           /\ recv' = [recv EXCEPT ![d] = trail[d][p.step.counter]]
           /\ p.step.counter \in 1 .. Len(trail[d])
           /\ p.step.counter = recv[d].counter + 1
<1>1. DecodeAdvances(d, q)
  BY DEF Presented, DecodeSession, DecodeRejects
<1>2. /\ ExpectsCounter(recv[d], q.step.counter)
      /\ recv' = [recv EXCEPT ![d] = Evolved(recv[d], q.step.snapshot)]
      /\ Opens(KeyOf(Evolved(recv[d], q.step.snapshot)), q.inner)
      /\ delivered' = [delivered EXCEPT ![d] =
             Append(@, [counter |-> q.step.counter, body |-> q.inner.body])]
  BY <1>1 DEF DecodeAdvances
<1>3. p \in wire[e] /\ q \in Corrupted(p) \cup {p}
  BY DEF Presented
<1>4. /\ e = d /\ q.step.counter = p.step.counter
      /\ q.inner.body = p.inner.body
      /\ Evolved(recv[d], q.step.snapshot) = trail[d][q.step.counter]
      /\ q.step.counter \in 1 .. Len(trail[d])
  BY <1>2, <1>3, OpensMeansGenuine
<1>5. QED
  BY <1>2, <1>3, <1>4 DEF ExpectsCounter

(* Every step either leaves the receivers alone or presents a packet.      *)
LEMMA StepKinds ==
    ASSUME [Next]_vars
    PROVE  \/ UNCHANGED <<recv, delivered>> /\
              \/ UNCHANGED vars
              \/ \E d \in Contexts, s \in Snapshot : EncodeFails(d, s)
              \/ \E d \in Contexts, s \in Snapshot, body \in Bodies :
                     EncodeSession(d, s, body)
           \/ \E d, e \in Contexts : \E p, q : Presented(d, e, p, q)
<1>1. ASSUME NEW d \in Contexts, Present(d)
      PROVE  \E p : Presented(d, d, p, p)
  BY <1>1 DEF Present, Presented
<1>2. ASSUME NEW d \in Contexts, PresentFaulty(d)
      PROVE  \E e \in Contexts : \E p, q : Presented(d, e, p, q)
  BY <1>2 DEF PresentFaulty, Presented
<1>3. ASSUME NEW d \in Contexts, NEW s \in Snapshot, NEW body \in Bodies,
             EncodeSession(d, s, body)
      PROVE  UNCHANGED <<recv, delivered>>
  BY <1>3 DEF EncodeSession
<1>4. ASSUME NEW d \in Contexts, NEW s \in Snapshot, EncodeFails(d, s)
      PROVE  UNCHANGED <<recv, delivered>>
  BY <1>4 DEF EncodeFails
<1>5. UNCHANGED vars => UNCHANGED <<recv, delivered>>
  BY DEF vars
<1>6. QED
  BY <1>1, <1>2, <1>3, <1>4, <1>5 DEF Next, AdvanceFails

(* A message that decodes leaves the receiver's whole ratchet equal to the *)
(* sender's at that message: nothing that came before was corrupted.       *)
THEOREM AcceptanceSyncs == Spec => AcceptedMeansSynced
<1>1. ASSUME IInv, [Next]_vars, NEW d \in Contexts, delivered'[d] # delivered[d]
      PROVE  InSync(d)'
  <2>1. PICK x \in Contexts, e \in Contexts : \E p, q : Presented(x, e, p, q)
    BY <1>1, StepKinds
  <2>2. PICK p, q : Presented(x, e, p, q)
    BY <2>1
  <2>3. /\ delivered' = [delivered EXCEPT ![x] =
               Append(@, [counter |-> p.step.counter, body |-> p.inner.body])]
        /\ recv' = [recv EXCEPT ![x] = trail[x][p.step.counter]]
        /\ p.step.counter \in 1 .. Len(trail[x])
    BY <1>1, <2>2, DeliveryStep
  <2>4. x = d
    BY <1>1, <2>3 DEF IInv, TypeOK
  <2>5. recv'[d] = trail[d][p.step.counter]
    BY <1>1, <2>3, <2>4 DEF IInv, TypeOK
  <2>6. trail' = trail
    BY <2>2 DEF Presented, DecodeSession
  <2>7. trail[d][p.step.counter].counter = p.step.counter
    BY <1>1, <2>3, <2>4 DEF IInv, SenderInv
  <2>8. QED
    BY <2>3, <2>4, <2>5, <2>6, <2>7 DEF InSync
<1>2. IInv /\ [Next]_vars =>
          [\A d \in Contexts : delivered'[d] # delivered[d] => InSync(d)']_vars
  BY <1>1
<1>3. QED
  BY <1>2, Invariant, PTL DEF Spec, AcceptedMeansSynced

(* Neither end ever rewrites a link of its chain strand. *)
LEMMA ChainsGrow ==
    ASSUME IInv, [Next]_vars, NEW d \in Contexts
    PROVE  /\ \A i \in 1 .. Len(send[d].chn) :
                  i <= Len(send'[d].chn) /\ send'[d].chn[i] = send[d].chn[i]
           /\ \A i \in 1 .. Len(recv[d].chn) :
                  i <= Len(recv'[d].chn) /\ recv'[d].chn[i] = recv[d].chn[i]
<1>1. /\ send[d] \in Ratchet /\ recv[d] \in Ratchet
      /\ Len(send[d].chn) = send[d].counter
      /\ Len(recv[d].chn) = recv[d].counter
  <2>1. send[d] \in Ratchet /\ recv[d] \in Ratchet
    BY DEF IInv, TypeOK
  <2>2. Len(trail[d]) = send[d].counter /\ send[d].counter \in 0 .. Len(trail[d])
    BY <2>1, BoundsAssumption DEF IInv, SenderInv, Ratchet
  <2>3. ChainDetermines(send[d])
    BY <2>2, PathType DEF IInv, SenderInv
  <2>4. QED
    BY <2>1, <2>3 DEF ChainDetermines, IInv, RecvInv
<1>2. ASSUME NEW r \in Ratchet, NEW s \in Snapshot, Len(r.chn) = r.counter,
             r.counter < MaxCounter
      PROVE  \A i \in 1 .. Len(r.chn) :
                 i <= Len(Evolved(r, s).chn) /\ Evolved(r, s).chn[i] = r.chn[i]
  <2>1. /\ Len(Evolved(r, s).chn) = r.counter + 1
        /\ \A i \in 1 .. r.counter : Evolved(r, s).chn[i] = r.chn[i]
    BY <1>2, EvolvedChain DEF ChainDetermines
  <2>2. r.counter \in Nat
    BY BoundsAssumption DEF Ratchet
  <2>3. QED
    BY <1>2, <2>1, <2>2
<1>3. \/ send'[d] = send[d]
      \/ \E s \in Snapshot : send'[d] = Evolved(send[d], s) /\ send[d].counter < MaxCounter
  <2>1. ASSUME NEW x \in Contexts, NEW s \in Snapshot, Advance(x, s)
        PROVE  \/ send'[d] = send[d]
               \/ send'[d] = Evolved(send[d], s) /\ send[d].counter < MaxCounter
    BY <2>1 DEF Advance, IInv, TypeOK
  <2>2. ASSUME NEW x \in Contexts, NEW q, DecodeSession(x, q)
        PROVE  send'[d] = send[d]
    BY <2>2 DEF DecodeSession
  <2>3. UNCHANGED vars => send'[d] = send[d]
    BY DEF vars
  <2>4. QED
    BY <2>1, <2>2, <2>3
       DEF Next, EncodeSession, EncodeFails, AdvanceFails, Present, PresentFaulty
<1>4. \/ recv'[d] = recv[d]
      \/ \E s \in Snapshot : recv'[d] = Evolved(recv[d], s) /\ recv[d].counter < MaxCounter
  <2>1. ASSUME NEW x \in Contexts, NEW e \in Contexts, NEW p, NEW q, Presented(x, e, p, q)
        PROVE  \/ recv'[d] = recv[d]
               \/ \E s \in Snapshot : recv'[d] = Evolved(recv[d], s)
                                      /\ recv[d].counter < MaxCounter
    <3>1. q \in Packet
      BY <2>1, CorruptedType DEF Presented, IInv, TypeOK
    <3>2. CASE DecodeRejects(x, q)
      BY <3>2 DEF DecodeRejects
    <3>3. CASE DecodeAdvances(x, q)
      <4>1. q.step.snapshot \in Snapshot /\ q.step.counter \in 1 .. MaxCounter
        BY <3>1 DEF Packet
      <4>2. /\ recv' = [recv EXCEPT ![x] = Evolved(recv[x], q.step.snapshot)]
            /\ q.step.counter = recv[x].counter + 1
        BY <3>3 DEF DecodeAdvances, ExpectsCounter
      <4>3. CASE x = d
        <5>1. recv[d].counter < MaxCounter
          BY <1>1, <4>1, <4>2, <4>3, BoundsAssumption DEF Ratchet
        <5>2. recv'[d] = Evolved(recv[d], q.step.snapshot)
          BY <4>2, <4>3 DEF IInv, TypeOK
        <5>3. QED
          BY <4>1, <5>1, <5>2
      <4>4. CASE x # d
        BY <4>2, <4>4 DEF IInv, TypeOK
      <4>5. QED
        BY <4>3, <4>4
    <3>4. QED
      BY <2>1, <3>2, <3>3 DEF Presented, DecodeSession
  <2>2. UNCHANGED <<recv, delivered>> => recv'[d] = recv[d]
    OBVIOUS
  <2>3. QED
    BY <2>1, <2>2, StepKinds
<1>5. \A i \in 1 .. Len(send[d].chn) :
          i <= Len(send'[d].chn) /\ send'[d].chn[i] = send[d].chn[i]
  <2>1. ASSUME send'[d] = send[d]
        PROVE  \A i \in 1 .. Len(send[d].chn) :
                   i <= Len(send'[d].chn) /\ send'[d].chn[i] = send[d].chn[i]
    <3>1. Len(send[d].chn) \in Nat
      BY <1>1 DEF Ratchet
    <3>2. QED
      BY <2>1, <3>1
  <2>2. ASSUME NEW s \in Snapshot, send'[d] = Evolved(send[d], s),
               send[d].counter < MaxCounter
        PROVE  \A i \in 1 .. Len(send[d].chn) :
                   i <= Len(send'[d].chn) /\ send'[d].chn[i] = send[d].chn[i]
    BY <1>1, <1>2, <2>2
  <2>3. QED
    BY <1>3, <2>1, <2>2
<1>6. \A i \in 1 .. Len(recv[d].chn) :
          i <= Len(recv'[d].chn) /\ recv'[d].chn[i] = recv[d].chn[i]
  <2>1. ASSUME recv'[d] = recv[d]
        PROVE  \A i \in 1 .. Len(recv[d].chn) :
                   i <= Len(recv'[d].chn) /\ recv'[d].chn[i] = recv[d].chn[i]
    <3>1. Len(recv[d].chn) \in Nat
      BY <1>1 DEF Ratchet
    <3>2. QED
      BY <2>1, <3>1
  <2>2. ASSUME NEW s \in Snapshot, recv'[d] = Evolved(recv[d], s),
               recv[d].counter < MaxCounter
        PROVE  \A i \in 1 .. Len(recv[d].chn) :
                   i <= Len(recv'[d].chn) /\ recv'[d].chn[i] = recv[d].chn[i]
    BY <1>1, <1>2, <2>2
  <2>3. QED
    BY <1>4, <2>1, <2>2
<1>7. QED
  BY <1>5, <1>6

(* A receiver that has mixed a corrupted snapshot in stays apart from its  *)
(* sender and decodes nothing ever after.                                  *)
THEOREM DivergenceStays == Spec => DivergenceIsPermanent
<1>1. ASSUME IInv, [Next]_vars, NEW d \in Contexts, Diverged(d)
      PROVE  Diverged(d)' /\ delivered'[d] = delivered[d]
  <2>1. PICK i \in 1 .. Len(recv[d].chn) :
            i <= Len(send[d].chn) /\ recv[d].chn[i] # send[d].chn[i]
    BY <1>1 DEF Diverged
  <2>2. /\ send[d] \in Ratchet /\ recv[d] \in Ratchet
        /\ send[d].chn \in Seq(Link) /\ recv[d].chn \in Seq(Link)
        /\ Len(recv[d].chn) = recv[d].counter
    BY <1>1 DEF IInv, TypeOK, RecvInv, ChainDetermines, Ratchet
  <2>3. /\ i <= Len(send'[d].chn) /\ send'[d].chn[i] = send[d].chn[i]
        /\ i <= Len(recv'[d].chn) /\ recv'[d].chn[i] = recv[d].chn[i]
    <3>1. i \in 1 .. Len(send[d].chn)
      BY <2>1, <2>2
    <3>2. QED
      BY <1>1, <2>1, <3>1, ChainsGrow
  <2>4. Diverged(d)'
    <3>1. TypeOK'
      BY <1>1, TypeStep DEF IInv
    <3>2. recv'[d].chn \in Seq(Link)
      BY <3>1 DEF TypeOK, Ratchet
    <3>3. i \in 1 .. Len(recv'[d].chn)
      BY <2>1, <2>2, <2>3, <3>2
    <3>4. QED
      BY <2>1, <2>3, <3>3 DEF Diverged
  <2>5. ASSUME delivered'[d] # delivered[d]
        PROVE  FALSE
    <3>1. PICK x \in Contexts, e \in Contexts : \E p, q : Presented(x, e, p, q)
      BY <1>1, <2>5, StepKinds
    <3>2. PICK p, q : Presented(x, e, p, q)
      BY <3>1
    <3>3. /\ delivered' = [delivered EXCEPT ![x] =
                 Append(@, [counter |-> p.step.counter, body |-> p.inner.body])]
          /\ recv' = [recv EXCEPT ![x] = trail[x][p.step.counter]]
          /\ p.step.counter \in 1 .. Len(trail[x])
          /\ p.step.counter = recv[x].counter + 1
      BY <1>1, <2>5, <3>2, DeliveryStep
    <3>4. x = d
      BY <1>1, <2>5, <3>3 DEF IInv, TypeOK
    <3>5. recv'[d] = trail[d][p.step.counter]
      BY <1>1, <3>3, <3>4 DEF IInv, TypeOK
    <3>6. recv[d].counter \in Nat
      BY <2>2, BoundsAssumption DEF Ratchet
    <3>7. i \in 1 .. p.step.counter
      BY <2>1, <2>2, <3>3, <3>4, <3>6
    <3>8. recv'[d].chn[i] = send[d].chn[i]
      BY <1>1, <3>3, <3>4, <3>5, <3>7 DEF IInv, SenderInv
    <3>9. QED
      BY <2>1, <2>3, <3>8
  <2>6. QED
    BY <2>4, <2>5
<1>2. IInv /\ [Next]_vars =>
          [\A d \in Contexts :
              Diverged(d) => Diverged(d)' /\ delivered'[d] = delivered[d]]_vars
  BY <1>1
<1>3. QED
  BY <1>2, Invariant, PTL DEF Spec, DivergenceIsPermanent

-----------------------------------------------------------------------------
(* The session implements OrderedDelivery *)

(* Every encode is an Offer, every successful decode a Take, and every     *)
(* other step is invisible to the application.                             *)
LEMMA RefinementStep == IInv /\ [Next]_vars => [Abstract!Next]_(Abstract!vars)
<1> SUFFICES ASSUME IInv, [Next]_vars PROVE [Abstract!Next]_(Abstract!vars)
  OBVIOUS
<1>1. ASSUME wire' = wire PROVE Offered' = Offered
  BY <1>1 DEF Offered
<1>2. ASSUME UNCHANGED <<wire, delivered>> PROVE UNCHANGED Abstract!vars
  BY <1>1, <1>2 DEF Abstract!vars
<1>3. ASSUME NEW d \in Contexts, NEW s \in Snapshot, NEW body \in Bodies,
             EncodeSession(d, s, body)
      PROVE  Abstract!Offer(d)
  <2> DEFINE r == Evolved(send[d], s)
             m == [counter |-> r.counter, body |-> body]
             new == [step |-> [counter |-> r.counter, snapshot |-> s],
                     inner |-> Sealed(KeyOf(r), body)]
  <2>1. /\ wire' = [wire EXCEPT ![d] = @ \cup {new}]
        /\ Advance(d, s) /\ delivered' = delivered
    BY <1>3 DEF EncodeSession
  <2>2. /\ send[d] \in Ratchet /\ send[d].counter < MaxCounter
        /\ send[d].counter \in Nat
        /\ Len(trail[d]) = send[d].counter
    BY <2>1, BoundsAssumption DEF IInv, TypeOK, SenderInv, Advance, Ratchet
  <2>3. r.counter = send[d].counter + 1
    BY DEF Evolved
  <2>4. m \in Abstract!Message
    BY <2>2, <2>3, BoundsAssumption DEF Abstract!Message
  <2>5. \A o \in Offered[d] : o.counter < m.counter
    BY <2>2, <2>3 DEF Offered, IInv, WireInv
  <2>6. new.step.counter = m.counter /\ new.inner.body = m.body
    BY DEF Sealed
  <2> HIDE DEF m, new
  <2>7. wire'[d] = wire[d] \cup {new} /\ \A x \in Contexts \ {d} : wire'[x] = wire[x]
    BY <2>1 DEF IInv, TypeOK
  <2>8. m = [counter |-> new.step.counter, body |-> new.inner.body]
    BY <2>6 DEF m
  <2>9. Offered' = [Offered EXCEPT ![d] = @ \cup {m}]
    <3>1. {[counter |-> p.step.counter, body |-> p.inner.body] : p \in wire'[d]}
              = Offered[d] \cup {m}
      BY <2>7, <2>8 DEF Offered
    <3>2. ASSUME NEW x \in Contexts \ {d}
          PROVE  {[counter |-> p.step.counter, body |-> p.inner.body] : p \in wire'[x]}
                    = Offered[x]
      BY <2>7 DEF Offered
    <3>3. QED
      BY <3>1, <3>2 DEF Offered
  <2>10. QED
    BY <2>1, <2>4, <2>5, <2>9 DEF Abstract!Offer
<1>4. ASSUME NEW d \in Contexts, NEW e \in Contexts, NEW p, NEW q,
             Presented(d, e, p, q), delivered' # delivered
      PROVE  Abstract!Take(d)
  <2> DEFINE m == [counter |-> p.step.counter, body |-> p.inner.body]
  <2>1. /\ p \in wire[d]
        /\ delivered' = [delivered EXCEPT ![d] = Append(@, m)]
        /\ p.step.counter = recv[d].counter + 1
    BY <1>4, DeliveryStep
  <2>2. m \in Offered[d]
    BY <2>1 DEF Offered
  <2>3. recv[d].counter \in Nat
    BY BoundsAssumption DEF IInv, TypeOK, Ratchet
  <2>4. \A i \in 1 .. Len(delivered[d]) : delivered[d][i].counter < m.counter
    <3>1. ASSUME NEW i \in 1 .. Len(delivered[d])
          PROVE  delivered[d][i].counter < m.counter
      <4>1. delivered[d][i].counter <= recv[d].counter
        BY DEF IInv, DeliveredInv
      <4>2. delivered[d][i].counter \in Nat
        <5>1. delivered[d] \in Seq(Message)
          BY DEF IInv, TypeOK
        <5>2. delivered[d][i] \in Message
          BY <5>1
        <5>3. QED
          BY <5>2, BoundsAssumption DEF Message
      <4>3. QED
        BY <2>1, <2>3, <4>1, <4>2
    <3>2. QED
      BY <3>1
  <2>5. Offered' = Offered
    BY <1>1, <1>4 DEF Presented, DecodeSession
  <2>6. QED
    BY <2>1, <2>2, <2>4, <2>5 DEF Abstract!Take
<1>5. ASSUME NEW d \in Contexts, NEW e \in Contexts, NEW p, NEW q,
             Presented(d, e, p, q), delivered' = delivered
      PROVE  UNCHANGED Abstract!vars
  BY <1>2, <1>5 DEF Presented, DecodeSession
<1>6. ASSUME NEW d \in Contexts, NEW s \in Snapshot, EncodeFails(d, s)
      PROVE  UNCHANGED Abstract!vars
  BY <1>2, <1>6 DEF EncodeFails
<1>7. UNCHANGED vars => UNCHANGED Abstract!vars
  BY <1>2 DEF vars
<1>8. QED
  BY <1>3, <1>4, <1>5, <1>6, <1>7, StepKinds DEF Abstract!Next

(* The session, whatever the transport does, implements ordered delivery.  *)
THEOREM Refinement == Spec => ImplementsOrderedDelivery
<1>1. Init => Abstract!Init
  BY DEF Init, Abstract!Init, Offered
<1>2. QED
  BY <1>1, RefinementStep, Invariant, PTL DEF Spec, Abstract!Spec, ImplementsOrderedDelivery
=============================================================================
