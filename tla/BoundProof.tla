----------------------------- MODULE BoundProof -----------------------------
(***************************************************************************)
(* Challenge-response proofs (temporal.rs, and encode_bound/decode_bound   *)
(* of codec.rs): a verifier issues nonces, any number of provers that      *)
(* share its secret answer them with packets whose MAC covers the nonce,   *)
(* the MAC of an earlier proof, a timestamp and the ciphertext, and a      *)
(* network carries the packets in any order, repeats and alters them.      *)
(*                                                                         *)
(* The functions keep no state.  Nonces and the order of proofs are for    *)
(* the caller to keep ("The caller is responsible for", temporal.rs:381);  *)
(* that part is modelled as the documentation asks for it.                 *)
(*                                                                         *)
(* MACs are numbered in the order they are made: number k is the MAC of    *)
(* what made[k] holds, and 0 is GENESIS_MAC.  Two proofs never have the    *)
(* same MAC, because each covers a snapshot of its own.                    *)
(***************************************************************************)
EXTENDS Integers, Sequences

CONSTANTS
    Nonces,     \* what generate_challenge can return
    Bodies,     \* what a packet says: its ciphertext and entropy bytes
    Altered,    \* what a nonce or a body has become when it was altered
    MaxDrift,   \* the max_drift that the verifier passes
    MaxSkew,    \* how far a clock can be from real time, either way
    MaxTime,    \* bound on real time
    MaxProofs   \* bound on the number of proofs made

ASSUME BoundAssumption ==
    /\ MaxDrift \in Nat /\ MaxSkew \in Nat /\ MaxTime \in Nat /\ MaxProofs \in Nat
    /\ Altered \notin Nonces /\ Altered \notin Bodies

VARIABLES
    now,       \* real time, counted from the epoch
    issued,    \* the nonces issued so far
    pending,   \* the nonces issued and not used up yet
    made,      \* the proofs made; "asked" and "at" are history: the nonces
               \* issued before, and the real time
    accepted   \* what the verifier accepted, in order

vars == <<now, issued, pending, made, accepted>>

-----------------------------------------------------------------------------
(* Clocks *)

(* duration_since(UNIX_EPOCH).unwrap_or_default() *)
Reading(t) == IF t < 0 THEN 0 ELSE t

(* What a clock of a prover or of the verifier can show. *)
Readings == {Reading(now + o) : o \in - MaxSkew .. MaxSkew}

(* Mutants of Drift: a saturating difference; one that wraps around. *)
DriftSaturating(clock, ts) == IF ts > clock THEN ts - clock ELSE 0
DriftWrapping(clock, ts)   == IF clock >= ts THEN clock - ts ELSE MaxDrift + 1

(* now_nanos.abs_diff(timestamp_nanos) *)
Drift(clock, ts) == IF clock >= ts THEN clock - ts ELSE ts - clock

-----------------------------------------------------------------------------
(* Packets *)

(* KkBoundPacket with its TemporalProof. *)
Packet == [mac : -1 .. MaxProofs, nonce : Nonces \cup {Altered}, prev : 0 .. MaxProofs,
           ts : 0 .. MaxTime + MaxSkew, body : Bodies \cup {Altered}]

(* Mutants of Covered: the nonce, or the previous MAC, is not covered. *)
CoveredWithoutNonce(x) == [prev |-> x.prev, ts |-> x.ts, body |-> x.body]
CoveredWithoutPrev(x)  == [nonce |-> x.nonce, ts |-> x.ts, body |-> x.body]

(* What the MAC covers: nonce || prev_mac || bytes || timestamp || ciphertext *)
Covered(x) == [nonce |-> x.nonce, prev |-> x.prev, ts |-> x.ts, body |-> x.body]

(* The packet that carries proof k. *)
Sent(k) == [mac |-> k, nonce |-> made[k].nonce, prev |-> made[k].prev,
            ts |-> made[k].ts, body |-> made[k].body]

(* What it can be when it arrives: as sent, or with one field altered; -1  *)
(* is the MAC of nothing.                                                  *)
Arrives(k) ==
    {Sent(k)}
    \cup {[Sent(k) EXCEPT !.nonce = n] : n \in Nonces \cup {Altered}}
    \cup {[Sent(k) EXCEPT !.prev = m]  : m \in 0 .. Len(made)}
    \cup {[Sent(k) EXCEPT !.ts = t]    : t \in 0 .. MaxTime + MaxSkew}
    \cup {[Sent(k) EXCEPT !.body = Altered], [Sent(k) EXCEPT !.mac = -1]}

(* kk_mac_verify_with_entropy *)
Authentic(p) == p.mac \in 1 .. Len(made) /\ Covered(p) = Covered(made[p.mac])

(* verify_bound, with the nonce that is expected and the clock that is     *)
(* read: its tests in their order.                                         *)
Verdict(p, nonce, clock) ==
    IF p.nonce # nonce THEN "StaleNonce"
    ELSE IF Drift(clock, p.ts) > MaxDrift THEN "EpochDrift"
    ELSE IF ~ Authentic(p) THEN "CommitmentMismatch"
    ELSE "Ok"

-----------------------------------------------------------------------------
(* The provers: encode_bound *)

(* A prover answers a nonce it received - one that was issued, however     *)
(* long ago and however often it was answered, or one altered on the way - *)
(* and continues from some earlier proof.                                  *)
EncodeBound(nonce, prev, body) ==
    /\ Len(made) < MaxProofs
    /\ \E clock \in Readings :
          made' = Append(made, [nonce |-> nonce, prev |-> prev, ts |-> clock,
                                body |-> body, asked |-> issued, at |-> now])
    /\ UNCHANGED <<now, issued, pending, accepted>>

(* An empty plaintext, or a gather that fails: an error without effect. *)
EncodeFails == UNCHANGED vars

-----------------------------------------------------------------------------
(* The verifier *)

(* generate_challenge: a nonce that was not issued before. *)
GenerateChallenge ==
    /\ \E n \in Nonces \ issued :
          issued' = issued \cup {n} /\ pending' = pending \cup {n}
    /\ UNCHANGED <<now, made, accepted>>

(* The MAC the next proof has to continue from. *)
Tip == IF accepted = << >> THEN 0 ELSE accepted[Len(accepted)].mac

(* decode_bound succeeds, and the caller finds that the packet continues   *)
(* from the last proof: the nonce is used up.                              *)
DecodeBound(p, nonce, clock) ==
    /\ Verdict(p, nonce, clock) = "Ok"
    /\ p.prev = Tip
    /\ accepted' = Append(accepted, [mac |-> p.mac, nonce |-> nonce,
                                     body |-> p.body, time |-> now])
    /\ pending' = pending \ {nonce}
    /\ UNCHANGED <<now, issued, made>>

(* decode_bound fails, or the caller misses the link: nothing changes. *)
DecodeFails(p, nonce, clock) ==
    /\ Verdict(p, nonce, clock) # "Ok" \/ p.prev # Tip
    /\ UNCHANGED vars

-----------------------------------------------------------------------------
Tick == now < MaxTime /\ now' = now + 1 /\ UNCHANGED <<issued, pending, made, accepted>>

Init ==
    /\ now = 0
    /\ issued = {} /\ pending = {}
    /\ made = << >> /\ accepted = << >>

Next ==
    \/ Tick
    \/ GenerateChallenge
    \/ \E n \in issued \cup {Altered}, m \in 0 .. Len(made), b \in Bodies :
          EncodeBound(n, m, b)
    \/ EncodeFails
    \/ \E k \in 1 .. Len(made) : \E p \in Arrives(k), n \in pending, c \in Readings :
          DecodeBound(p, n, c) \/ DecodeFails(p, n, c)

Spec == Init /\ [][Next]_vars

-----------------------------------------------------------------------------
(* Properties *)

Proof == [nonce : Nonces \cup {Altered}, prev : 0 .. MaxProofs,
          ts : 0 .. MaxTime + MaxSkew, body : Bodies,
          asked : SUBSET Nonces, at : 0 .. MaxTime]

Acceptance == [mac : 1 .. MaxProofs, nonce : Nonces, body : Bodies, time : 0 .. MaxTime]

(* Every variable has its type; no timestamp is before the epoch. *)
TypeOK ==
    /\ now \in 0 .. MaxTime
    /\ issued \subseteq Nonces /\ pending \subseteq issued
    /\ made \in Seq(Proof) /\ Len(made) <= MaxProofs
    /\ accepted \in Seq(Acceptance)

(* Freshness: what is accepted under a nonce was made as it is accepted,   *)
(* after that nonce was issued, and no nonce serves twice ("the proof was  *)
(* created after the verifier issued its challenge nonce",                 *)
(* temporal.rs:243).                                                       *)
AcceptedFresh ==
    \A i \in 1 .. Len(accepted) :
        /\ accepted[i].mac <= Len(made)
        /\ accepted[i].nonce \in made[accepted[i].mac].asked
        /\ accepted[i].body = made[accepted[i].mac].body
        /\ accepted[i].nonce \notin pending
        /\ \A j \in 1 .. Len(accepted) :
               accepted[i].nonce = accepted[j].nonce => i = j

(* Recency: between the making of a proof and its acceptance no more real  *)
(* time passes than the tolerance and the error of both clocks, on which-  *)
(* ever side of the verifier's clock the claimed time is.                  *)
AcceptedRecent ==
    \A i \in 1 .. Len(accepted) :
        accepted[i].time - made[accepted[i].mac].at <= MaxDrift + 2 * MaxSkew

(* Ordering: each accepted proof names the one accepted before it, and was *)
(* made after it; proofs that provers made side by side from the same one  *)
(* are never both accepted.                                                *)
AcceptedInOrder ==
    \A i \in 1 .. Len(accepted) :
        LET before == IF i = 1 THEN 0 ELSE accepted[i - 1].mac
        IN  made[accepted[i].mac].prev = before /\ before < accepted[i].mac

(* No false alarm: a packet that arrives unaltered while its nonce is      *)
(* pending, and so soon that the two clocks differ by less than the        *)
(* tolerance, is verified whatever the clocks show.  A difference of       *)
(* exactly the tolerance is left open: the code accepts it                 *)
(* (temporal.rs:405), one of its documents does not (temporal.rs:30).      *)
PromptIsVerified ==
    \A k \in 1 .. Len(made) : \A clock \in Readings :
        /\ made[k].nonce \in pending
        /\ now - made[k].at + 2 * MaxSkew < MaxDrift
        => Verdict(Sent(k), made[k].nonce, clock) = "Ok"
=============================================================================
