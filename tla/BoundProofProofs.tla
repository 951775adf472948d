-------------------------- MODULE BoundProofProofs --------------------------
(* Theorems about BoundProof, for every value of its constants. *)
EXTENDS BoundProof, TLAPS

-----------------------------------------------------------------------------
(* The inductive invariant *)

(* What holds of every proof made: its timestamp is off by no more than a  *)
(* clock is, it answers a nonce issued before (or an altered one), and it  *)
(* continues from a proof made before.                                     *)
MadeInv ==
    \A k \in 1 .. Len(made) :
        /\ made[k].at <= now
        /\ made[k].ts <= made[k].at + MaxSkew
        /\ made[k].at - MaxSkew <= made[k].ts
        /\ made[k].asked \subseteq issued
        /\ made[k].nonce \in made[k].asked \cup {Altered}
        /\ made[k].prev < k

IInv == TypeOK /\ MadeInv /\ AcceptedFresh /\ AcceptedRecent /\ AcceptedInOrder

-----------------------------------------------------------------------------
(* Lemmas about the operators *)

(* What was made and what was accepted have their types. *)
LEMMA MadeType ==
    ASSUME TypeOK, NEW k \in 1 .. Len(made)
    PROVE  /\ made[k] \in Proof
           /\ made[k].at \in 0 .. MaxTime /\ made[k].ts \in 0 .. MaxTime + MaxSkew
<1>1. made[k] \in Proof
  BY DEF TypeOK
<1>2. QED
  BY <1>1 DEF Proof

LEMMA AcceptedType ==
    ASSUME TypeOK, AcceptedFresh, NEW i \in 1 .. Len(accepted)
    PROVE  accepted[i].mac \in 1 .. Len(made)
<1>1. accepted[i] \in Acceptance
  BY DEF TypeOK
<1>2. accepted[i].mac \in 1 .. MaxProofs /\ Len(made) \in Nat
  BY <1>1 DEF TypeOK, Acceptance
<1>3. accepted[i].mac <= Len(made)
  BY DEF AcceptedFresh
<1>4. QED
  BY <1>2, <1>3, BoundAssumption

(* A clock shows real time up to the skew, and nothing before the epoch. *)
LEMMA ReadingsBounds ==
    ASSUME now \in 0 .. MaxTime, NEW c \in Readings
    PROVE  /\ c \in 0 .. MaxTime + MaxSkew
           /\ c <= now + MaxSkew /\ now - MaxSkew <= c
<1>1. PICK o \in - MaxSkew .. MaxSkew : c = Reading(now + o)
  BY DEF Readings
<1>2. o \in Int /\ - MaxSkew <= o /\ o <= MaxSkew
  BY <1>1, BoundAssumption
<1>3. CASE now + o < 0
  BY <1>1, <1>2, <1>3, BoundAssumption DEF Reading
<1>4. CASE ~ (now + o < 0)
  BY <1>1, <1>2, <1>4, BoundAssumption DEF Reading
<1>5. QED
  BY <1>3, <1>4

(* An authentic packet agrees with the proof its MAC was made for. *)
LEMMA AuthenticFields ==
    ASSUME NEW p, Authentic(p)
    PROVE  /\ p.mac \in 1 .. Len(made)
           /\ p.nonce = made[p.mac].nonce /\ p.prev = made[p.mac].prev
           /\ p.ts = made[p.mac].ts /\ p.body = made[p.mac].body
BY DEF Authentic, Covered

(* What it takes to be verified. *)
LEMMA VerdictOk ==
    ASSUME NEW p, NEW nonce, NEW clock
    PROVE  Verdict(p, nonce, clock) = "Ok" <=>
               p.nonce = nonce /\ ~ (Drift(clock, p.ts) > MaxDrift) /\ Authentic(p)
BY DEF Verdict

(* A proof as old as the clocks and the tolerance allow. *)
LEMMA AgeBound ==
    ASSUME NEW t \in Nat, NEW at \in Nat, NEW ts \in Nat, NEW c \in Nat,
           NEW s \in Nat, NEW d \in Nat,
           t - s <= c, ts <= at + s, c - ts <= d
    PROVE  t - at <= d + 2 * s
OBVIOUS

(* The distance of two clock readings is what abs_diff computes. *)
LEMMA DriftBounds ==
    ASSUME NEW c \in Nat, NEW t \in Nat
    PROVE  /\ Drift(c, t) \in Nat
           /\ c - t <= Drift(c, t) /\ t - c <= Drift(c, t)
           /\ \A b \in Nat : c - t <= b /\ t - c <= b => Drift(c, t) <= b
BY DEF Drift

-----------------------------------------------------------------------------
(* The steps *)

(* Time passes: the proofs made so far are no younger for it. *)
LEMMA TickStep == IInv /\ Tick => IInv'
<1> SUFFICES ASSUME IInv, Tick PROVE IInv'
  OBVIOUS
<1>1. /\ now' = now + 1 /\ now < MaxTime
      /\ UNCHANGED <<issued, pending, made, accepted>>
  BY DEF Tick
<1>2. TypeOK'
  BY <1>1, BoundAssumption DEF IInv, TypeOK
<1>3. MadeInv'
  <2> SUFFICES ASSUME NEW k \in 1 .. Len(made)
               PROVE  made[k].at <= now + 1
    BY <1>1 DEF MadeInv, IInv
  <2>1. made[k].at \in 0 .. MaxTime /\ now \in 0 .. MaxTime
    BY MadeType DEF IInv, TypeOK
  <2>2. QED
    BY <2>1, BoundAssumption DEF IInv, MadeInv
<1>4. AcceptedFresh' /\ AcceptedRecent' /\ AcceptedInOrder'
  BY <1>1 DEF IInv, AcceptedFresh, AcceptedRecent, AcceptedInOrder
<1>5. QED
  BY <1>2, <1>3, <1>4 DEF IInv

(* A nonce is issued that nothing was made or accepted under. *)
LEMMA ChallengeStep == IInv /\ GenerateChallenge => IInv'
<1> SUFFICES ASSUME IInv, GenerateChallenge PROVE IInv'
  OBVIOUS
<1>1. PICK n \in Nonces \ issued :
          /\ issued' = issued \cup {n} /\ pending' = pending \cup {n}
          /\ UNCHANGED <<now, made, accepted>>
  BY DEF GenerateChallenge
<1>2. TypeOK'
  BY <1>1 DEF IInv, TypeOK
<1>3. MadeInv'
  BY <1>1 DEF IInv, MadeInv
<1>4. AcceptedFresh'
  <2> SUFFICES ASSUME NEW i \in 1 .. Len(accepted)
               PROVE  accepted[i].nonce \notin pending \cup {n}
    BY <1>1 DEF IInv, AcceptedFresh
  <2>1. accepted[i].mac \in 1 .. Len(made)
    BY AcceptedType DEF IInv
  <2>2. accepted[i].nonce \in issued
    BY <2>1 DEF IInv, AcceptedFresh, MadeInv
  <2>3. QED
    BY <2>2, <1>1 DEF IInv, AcceptedFresh
<1>5. AcceptedRecent' /\ AcceptedInOrder'
  BY <1>1 DEF IInv, AcceptedRecent, AcceptedInOrder
<1>6. QED
  BY <1>2, <1>3, <1>4, <1>5 DEF IInv

(* A proof is made; what was accepted refers to earlier ones. *)
LEMMA EncodeStep ==
    ASSUME IInv, NEW n \in issued \cup {Altered}, NEW m \in 0 .. Len(made),
           NEW b \in Bodies, EncodeBound(n, m, b)
    PROVE  IInv'
<1>1. PICK c \in Readings :
          made' = Append(made, [nonce |-> n, prev |-> m, ts |-> c, body |-> b,
                                asked |-> issued, at |-> now])
  BY DEF EncodeBound
<1> DEFINE new == [nonce |-> n, prev |-> m, ts |-> c, body |-> b,
                   asked |-> issued, at |-> now]
<1>2. Len(made) < MaxProofs /\ UNCHANGED <<now, issued, pending, accepted>>
  BY DEF EncodeBound
<1>3. /\ c \in 0 .. MaxTime + MaxSkew
      /\ c <= now + MaxSkew /\ now - MaxSkew <= c
  BY ReadingsBounds DEF IInv, TypeOK
<1>4. made \in Seq(Proof) /\ Len(made) \in Nat /\ now \in 0 .. MaxTime
      /\ issued \subseteq Nonces
  BY DEF IInv, TypeOK
<1>5. new \in Proof
  BY <1>2, <1>3, <1>4, BoundAssumption DEF Proof
<1>6. made' \in Seq(Proof) /\ Len(made') = Len(made) + 1
  BY <1>1, <1>4, <1>5
<1>7. /\ \A k \in 1 .. Len(made) : made'[k] = made[k]
      /\ made'[Len(made) + 1] = new
  BY <1>1, <1>4
<1>8. TypeOK'
  BY <1>2, <1>4, <1>6, BoundAssumption DEF IInv, TypeOK
<1>9. MadeInv'
  <2> SUFFICES ASSUME NEW k \in 1 .. Len(made) + 1
               PROVE  /\ made'[k].at <= now
                      /\ made'[k].ts <= made'[k].at + MaxSkew
                      /\ made'[k].at - MaxSkew <= made'[k].ts
                      /\ made'[k].asked \subseteq issued
                      /\ made'[k].nonce \in made'[k].asked \cup {Altered}
                      /\ made'[k].prev < k
    BY <1>2, <1>6 DEF MadeInv
  <2>1. CASE k \in 1 .. Len(made)
    BY <2>1, <1>7 DEF IInv, MadeInv
  <2>2. CASE k = Len(made) + 1
    BY <2>2, <1>3, <1>4, <1>7
  <2>3. QED
    BY <2>1, <2>2, <1>4
<1>10. \A i \in 1 .. Len(accepted) :
           accepted[i].mac \in 1 .. Len(made) /\ made'[accepted[i].mac] = made[accepted[i].mac]
  BY <1>7, AcceptedType DEF IInv
<1>11. AcceptedFresh'
  BY <1>2, <1>4, <1>6, <1>10 DEF IInv, AcceptedFresh
<1>12. AcceptedRecent' /\ AcceptedInOrder'
  BY <1>2, <1>10 DEF IInv, AcceptedRecent, AcceptedInOrder
<1>13. QED
  BY <1>8, <1>9, <1>11, <1>12 DEF IInv

(* A packet is accepted: it is authentic, so it is the proof that was made *)
(* under its MAC.                                                          *)
LEMMA DecodeStep ==
    ASSUME IInv, NEW p, NEW n \in pending, NEW c \in Readings, DecodeBound(p, n, c)
    PROVE  IInv'
<1> DEFINE new == [mac |-> p.mac, nonce |-> n, body |-> p.body, time |-> now]
<1>1. /\ Verdict(p, n, c) = "Ok" /\ p.prev = Tip
      /\ accepted' = Append(accepted, new) /\ pending' = pending \ {n}
      /\ UNCHANGED <<now, issued, made>>
  BY DEF DecodeBound
<1>2. p.nonce = n /\ ~ (Drift(c, p.ts) > MaxDrift) /\ Authentic(p)
  BY <1>1, VerdictOk
<1>3. /\ p.mac \in 1 .. Len(made)
      /\ p.nonce = made[p.mac].nonce /\ p.prev = made[p.mac].prev
      /\ p.ts = made[p.mac].ts /\ p.body = made[p.mac].body
  BY <1>2, AuthenticFields
<1> DEFINE q == made[p.mac]
<1>4. q \in Proof /\ Len(made) \in Nat /\ Len(made) <= MaxProofs /\ now \in 0 .. MaxTime
  BY <1>3 DEF IInv, TypeOK
<1>5. n \in q.asked /\ n \in Nonces
  <2>1. n \in issued /\ n # Altered
    BY BoundAssumption DEF IInv, TypeOK
  <2>2. q.nonce \in q.asked \cup {Altered}
    BY <1>3 DEF IInv, MadeInv
  <2>3. QED
    BY <1>2, <1>3, <2>1, <2>2 DEF IInv, TypeOK
<1>6. new \in Acceptance
  BY <1>3, <1>4, <1>5, BoundAssumption DEF Proof, Acceptance
<1>7. /\ Len(accepted) \in Nat /\ Len(accepted') = Len(accepted) + 1
      /\ \A i \in 1 .. Len(accepted) : accepted'[i] = accepted[i]
      /\ accepted'[Len(accepted) + 1] = new
  BY <1>1 DEF IInv, TypeOK
<1>8. TypeOK'
  <2>1. accepted' \in Seq(Acceptance)
    BY <1>1, <1>6 DEF IInv, TypeOK
  <2>2. QED
    BY <1>1, <2>1 DEF IInv, TypeOK
<1>9. MadeInv'
  BY <1>1 DEF IInv, MadeInv
<1>10. AcceptedFresh'
  <2>1. \A i \in 1 .. Len(accepted) : accepted[i].nonce # n
    BY DEF IInv, AcceptedFresh
  <2>2. ASSUME NEW i \in 1 .. Len(accepted) + 1
        PROVE  /\ accepted'[i].mac <= Len(made)
               /\ accepted'[i].nonce \in made[accepted'[i].mac].asked
               /\ accepted'[i].body = made[accepted'[i].mac].body
               /\ accepted'[i].nonce \notin pending \ {n}
               /\ \A j \in 1 .. Len(accepted) + 1 :
                      accepted'[i].nonce = accepted'[j].nonce => i = j
    <3>1. CASE i \in 1 .. Len(accepted)
      BY <3>1, <1>7, <2>1 DEF IInv, AcceptedFresh
    <3>2. CASE i = Len(accepted) + 1
      BY <3>2, <1>3, <1>4, <1>5, <1>7, <2>1
    <3>3. QED
      BY <3>1, <3>2, <1>7
  <2>3. QED
    BY <2>2, <1>1, <1>7 DEF AcceptedFresh
<1>11. AcceptedRecent'
  <2>1. now - q.at <= MaxDrift + 2 * MaxSkew
    <3>1. c \in Nat /\ now - MaxSkew <= c
      BY <1>4, ReadingsBounds, BoundAssumption
    <3>2. q.ts \in Nat /\ q.at \in Nat /\ q.ts <= q.at + MaxSkew
      BY <1>3, <1>4, BoundAssumption DEF Proof, IInv, MadeInv
    <3>3. Drift(c, q.ts) \in Nat /\ c - q.ts <= Drift(c, q.ts)
      BY <3>1, <3>2, DriftBounds
    <3>4. c - q.ts <= MaxDrift
      BY <3>1, <3>2, <3>3, <1>2, <1>3, BoundAssumption
    <3>5. now \in Nat
      BY <1>4, BoundAssumption
    <3>6. QED
      BY <3>1, <3>2, <3>4, <3>5, AgeBound, BoundAssumption
  <2>2. ASSUME NEW i \in 1 .. Len(accepted) + 1
        PROVE  accepted'[i].time - made[accepted'[i].mac].at <= MaxDrift + 2 * MaxSkew
    <3>1. CASE i \in 1 .. Len(accepted)
      BY <3>1, <1>7 DEF IInv, AcceptedRecent
    <3>2. CASE i = Len(accepted) + 1
      BY <3>2, <1>7, <2>1
    <3>3. QED
      BY <3>1, <3>2, <1>7
  <2>3. QED
    BY <2>2, <1>1, <1>7 DEF AcceptedRecent
<1>12. AcceptedInOrder'
  <2>1. q.prev < p.mac
    BY <1>3 DEF IInv, MadeInv
  <2>2. Tip = IF Len(accepted) + 1 = 1 THEN 0 ELSE accepted[Len(accepted)].mac
    <3>1. CASE accepted = << >>
      BY <3>1 DEF Tip
    <3>2. CASE accepted # << >>
      <4>1. Len(accepted) # 0
        BY <3>2 DEF IInv, TypeOK
      <4>2. QED
        BY <3>2, <4>1, <1>7 DEF Tip
    <3>3. QED
      BY <3>1, <3>2
  <2>3. ASSUME NEW i \in 1 .. Len(accepted) + 1
        PROVE  /\ made[accepted'[i].mac].prev = IF i = 1 THEN 0 ELSE accepted'[i - 1].mac
               /\ (IF i = 1 THEN 0 ELSE accepted'[i - 1].mac) < accepted'[i].mac
    <3>1. CASE i \in 1 .. Len(accepted)
      <4>1. accepted'[i] = accepted[i]
        BY <3>1, <1>7
      <4>2. i # 1 => accepted'[i - 1] = accepted[i - 1]
        BY <3>1, <1>7
      <4>3. QED
        BY <3>1, <4>1, <4>2 DEF IInv, AcceptedInOrder
    <3>2. CASE i = Len(accepted) + 1
      <4>1. accepted'[i] = new
        BY <3>2, <1>7
      <4>2. i # 1 => accepted'[i - 1] = accepted[Len(accepted)]
        BY <3>2, <1>7
      <4>3. (IF i = 1 THEN 0 ELSE accepted'[i - 1].mac) = Tip
        BY <3>2, <4>2, <2>2
      <4>4. QED
        BY <4>1, <4>3, <2>1, <1>1, <1>3
    <3>3. QED
      BY <3>1, <3>2, <1>7
  <2>4. QED
    BY <2>3, <1>1, <1>7 DEF AcceptedInOrder
<1>13. QED
  BY <1>8, <1>9, <1>10, <1>11, <1>12 DEF IInv

-----------------------------------------------------------------------------
(* Every step preserves the invariant. *)
LEMMA InvariantStep == IInv /\ [Next]_vars => IInv'
<1> SUFFICES ASSUME IInv, [Next]_vars PROVE IInv'
  OBVIOUS
<1>1. CASE UNCHANGED vars
  BY <1>1 DEF vars, IInv, TypeOK, MadeInv, AcceptedFresh, AcceptedRecent, AcceptedInOrder
<1>2. CASE Tick
  BY <1>2, TickStep
<1>3. CASE GenerateChallenge
  BY <1>3, ChallengeStep
<1>4. ASSUME NEW n \in issued \cup {Altered}, NEW m \in 0 .. Len(made), NEW b \in Bodies,
             EncodeBound(n, m, b)
      PROVE  IInv'
  BY <1>4, EncodeStep
<1>5. ASSUME NEW k \in 1 .. Len(made), NEW p \in Arrives(k), NEW n \in pending,
             NEW c \in Readings, DecodeBound(p, n, c)
      PROVE  IInv'
  BY <1>5, DecodeStep
<1>6. QED
  BY <1>1, <1>2, <1>3, <1>4, <1>5 DEF Next, EncodeFails, DecodeFails

LEMMA InvariantInit == Init => IInv
BY BoundAssumption
   DEF Init, IInv, TypeOK, MadeInv, AcceptedFresh, AcceptedRecent, AcceptedInOrder

(* The inductive invariant holds in every reachable state. *)
THEOREM Invariant == Spec => []IInv
BY InvariantInit, InvariantStep, PTL DEF Spec

(* Types are kept; no timestamp is before the epoch or far in the future. *)
THEOREM TypeCorrect == Spec => []TypeOK
<1>1. IInv => TypeOK
  BY DEF IInv
<1>2. QED
  BY <1>1, Invariant, PTL

(* Whatever the network does, what verify_bound accepts is an answer to    *)
(* the nonce it was accepted under, made after that nonce was issued.      *)
THEOREM Freshness == Spec => []AcceptedFresh
<1>1. IInv => AcceptedFresh
  BY DEF IInv
<1>2. QED
  BY <1>1, Invariant, PTL

(* The drift test of verify_bound bounds the real age of what it accepts. *)
THEOREM Recency == Spec => []AcceptedRecent
<1>1. IInv => AcceptedRecent
  BY DEF IInv
<1>2. QED
  BY <1>1, Invariant, PTL

(* The chain of MACs gives accepted proofs the order they were made in. *)
THEOREM Ordering == Spec => []AcceptedInOrder
<1>1. IInv => AcceptedInOrder
  BY DEF IInv
<1>2. QED
  BY <1>1, Invariant, PTL

(* verify_bound never turns down an unaltered answer that is prompt by     *)
(* either reading of the boundary, whatever                                *)
(* the clocks of both sides show.                                          *)
THEOREM NoFalseAlarm == Spec => []PromptIsVerified
<1>1. IInv => PromptIsVerified
  <2> SUFFICES ASSUME IInv, NEW k \in 1 .. Len(made), NEW c \in Readings,
                      made[k].nonce \in pending,
                      now - made[k].at + 2 * MaxSkew < MaxDrift
               PROVE  Verdict(Sent(k), made[k].nonce, c) = "Ok"
    BY DEF PromptIsVerified
  <2>1. Authentic(Sent(k))
    BY DEF Authentic, Sent, Covered
  <2>2. made[k] \in Proof /\ now \in 0 .. MaxTime
    BY DEF IInv, TypeOK
  <2>3. /\ made[k].at \in Nat /\ made[k].ts \in Nat /\ made[k].at <= now
        /\ made[k].ts <= made[k].at + MaxSkew /\ made[k].at - MaxSkew <= made[k].ts
    BY <2>2, BoundAssumption DEF Proof, IInv, MadeInv
  <2>4. c \in Nat /\ c <= now + MaxSkew /\ now - MaxSkew <= c
    BY <2>2, ReadingsBounds, BoundAssumption
  <2>5. c - made[k].ts <= MaxDrift /\ made[k].ts - c <= MaxDrift
    BY <2>2, <2>3, <2>4, BoundAssumption
  <2>6. Drift(c, made[k].ts) \in Nat /\ Drift(c, made[k].ts) <= MaxDrift
    BY <2>3, <2>4, <2>5, DriftBounds, BoundAssumption
  <2>7. ~ (Drift(c, Sent(k).ts) > MaxDrift) /\ Sent(k).nonce = made[k].nonce
    BY <2>6, BoundAssumption DEF Sent
  <2>8. QED
    BY <2>1, <2>7, VerdictOk
<1>2. QED
  BY <1>1, Invariant, PTL
=============================================================================
