------------------------------- MODULE KkSponge -------------------------------
(* The KK sponge of src/kk_mix.rs: absorbing byte by byte or word by word,   *)
(* padding, squeezing, and the batched forms that run several sponges as     *)
(* lanes of one vector (kk_kdf_batch_8, kk_mac_batch_8_multipart).           *)
(*                                                                           *)
(* The permutation is symbolic: a sponge is the bytes that were permuted in  *)
(* so far, block after block, and the bytes XORed into the rate since.  A    *)
(* byte is the set of its bits and XOR the symmetric difference.             *)
EXTENDS Integers, Sequences

CONSTANTS
    Lanes,      \* the sponges of a batch, 1..8 in the code
    WordBytes,  \* 8
    Rate,       \* RATE_BYTES, 152
    FullRounds, \* ROUNDS
    KdfRounds,  \* KDF_SQUEEZE_ROUNDS
    Jobs        \* the calls: records of kind, simd, parts, domain, outlen, rounds

ASSUME SpongeAssumption ==
    /\ WordBytes \in Nat \ {0} /\ Rate \in Nat \ {0} /\ Rate % WordBytes = 0
    /\ 1 \in Lanes /\ Lanes \subseteq Nat

Byte == SUBSET (0..7)
DomainHash == {0}
DomainKdf  == {1}
DomainMac  == {0, 1}

\* Calls have well-typed slices; a MAC has four of them, a KDF five, the first
\* three of which are common to all lanes.  A KDF squeezes with its own rounds.
ASSUME JobsAssumption == \A j \in Jobs :
    /\ j.kind \in {"plain", "kdf", "mac"} /\ j.simd \in BOOLEAN
    /\ j.outlen \in Nat /\ (j.kind = "kdf" => j.rounds = KdfRounds)
    /\ DOMAIN j.parts = Lanes /\ \A l \in Lanes : j.parts[l] \in Seq(Seq(Byte))
    /\ j.domain \in [Lanes -> {DomainHash, DomainKdf, DomainMac}]
    /\ j.kind = "mac" => \A l \in Lanes : Len(j.parts[l]) = 4
    /\ j.kind = "mac" => \A l \in Lanes : Len(j.parts[l][1]) = WordBytes
    /\ j.kind = "kdf" => \A l \in Lanes : Len(j.parts[l]) = 5
    /\ j.kind = "kdf" => \A l \in Lanes, n \in 1..3 : j.parts[l][n] = j.parts[1][n]

VARIABLES
    job,     \* the call being executed
    stage,   \* "shared", "absorb", "align", "vector", "squeeze" or "done"
    todo,    \* per lane, the slices still to be absorbed by the scalar loop
    sponge,  \* per lane: permuted bytes, rate bytes since, buf_pos
    off,     \* body_off of the vector loop
    fed,     \* history: per lane, the bytes consumed
    turns,   \* per lane, the rounds of each permutation of the squeeze
    out      \* per lane, the blocks squeezed

vars == <<job, stage, todo, sponge, off, fed, turns, out>>

Xor(a, b) == (a \ b) \cup (b \ a)
ByteOf(n) == {b \in 0..7 : (n \div 2^b) % 2 = 1}
Top == {7}
Zeros == [j \in 1..Rate |-> {}]
Smaller(a, b) == IF a <= b THEN a ELSE b

\* XOR bytes into the rate from position at (from 0) on.
XorAt(cur, at, bytes) ==
    [j \in 1..Rate |-> IF j - at \in 1..Len(bytes) THEN Xor(cur[j], bytes[j - at]) ELSE cur[j]]

Sponge(past, cur, pos) == [past |-> past, cur |-> cur, pos |-> pos]
NewSponge == Sponge(<<>>, Zeros, 0)
Permuted(s) == Sponge(s.past \o s.cur, Zeros, 0)

\* The bytes are in and buf_pos advances; a full rate is permuted.
Placed(s, at, bytes) ==
    LET t == Sponge(s.past, XorAt(s.cur, at, bytes), s.pos + Len(bytes))
    IN  IF t.pos = Rate THEN Permuted(t) ELSE t

\* Mutant of Padded: the domain byte overwrites the last byte when they meet.
PadOverwrites(s, pos, domain) ==
    LET one == XorAt(s.cur, pos, <<domain>>)
    IN  Permuted(Sponge(s.past, [one EXCEPT ![Rate] = Top], 0))

\* Domain byte at the position reached, 0x80 at the end of the rate.
Padded(s, pos, domain) ==
    Permuted(Sponge(s.past, XorAt(XorAt(s.cur, pos, <<domain>>), Rate - 1, <<Top>>), 0))

\* (n as u64).to_le_bytes() of a small number.
Le(n) == [i \in 1..WordBytes |-> IF i = 1 THEN ByteOf(n) ELSE {}]

\* What each function absorbs, slice after slice.
HashParts(data)           == <<data>>
KdfParts(key, salt, info) == <<key, Le(Len(salt)), salt, Le(Len(info)), info>>
MacParts(key, prefix, body) == <<Le(Len(key)), key, prefix, body>>
EntropyMixParts(sources) == [k \in 1..(3 * Len(sources)) |->
    LET i == (k + 2) \div 3
    IN  CASE k % 3 = 1 -> Le(i - 1) [] k % 3 = 2 -> Le(Len(sources[i])) [] OTHER -> sources[i]]

\* The scalar loop goes byte by byte when misaligned or short of a word.
ByteByByte(pos, n) == pos % WordBytes # 0 \/ n < WordBytes

\* Mutant of WordCount: the last word of the rate is left out.
WordCountShort(pos, n) == Smaller((Rate - pos - 1) \div WordBytes, n \div WordBytes)

WordCount(pos, n) == Smaller((Rate - pos) \div WordBytes, n \div WordBytes)

-----------------------------------------------------------------------------
(* Which lanes run what. *)

Uniform(n) == \A l \in Lanes : Len(job.parts[l][n]) = Len(job.parts[1][n])

\* The vector MAC is taken for equal lengths and a key of whole words.
VectorMac == /\ job.kind = "mac" /\ job.simd
             /\ \A n \in 2..4 : Uniform(n)
             /\ Len(job.parts[1][2]) % WordBytes = 0

VectorSqueeze == job.kind = "kdf" /\ job.simd

Body(l) == job.parts[l][4]

\* Mutant of OwnParts: the info is absorbed without its length.
OwnPartsUnprefixed(l) == SubSeq(job.parts[l], 5, 5)

\* What the lanes of a batched KDF do not share.
OwnParts(l) == SubSeq(job.parts[l], 4, 5)

Init ==
    /\ job \in Jobs
    /\ stage = IF job.kind = "kdf" THEN "shared" ELSE "absorb"
    /\ todo = [l \in Lanes |->
          CASE job.kind = "kdf"  -> IF l = 1 THEN SubSeq(job.parts[1], 1, 3) ELSE <<>>
            [] VectorMac         -> SubSeq(job.parts[l], 1, 3)
            [] job.kind = "mac" /\ ~VectorMac ->
                 <<job.parts[l][1], job.parts[l][2], job.parts[l][3] \o job.parts[l][4]>>
            [] OTHER             -> job.parts[l]]
    /\ sponge = [l \in Lanes |-> NewSponge]
    /\ off = 0
    /\ fed = [l \in Lanes |-> <<>>]
    /\ turns = [l \in Lanes |-> <<>>]
    /\ out = [l \in Lanes |-> <<>>]

-----------------------------------------------------------------------------
(* KkSponge::absorb, one iteration of its loop per step, lane after lane. *)

Absorbing(l) ==
    /\ stage \in {"shared", "absorb", "align"}
    /\ todo[l] # <<>>
    /\ \A k \in Lanes : k < l => todo[k] = <<>>

Consume(l, at, n) ==
    LET bytes == SubSeq(todo[l][1], 1, n) IN
    /\ sponge' = [sponge EXCEPT ![l] = Placed(sponge[l], at, bytes)]
    /\ fed' = [fed EXCEPT ![l] = fed[l] \o bytes]
    /\ todo' = [todo EXCEPT ![l] =
           <<SubSeq(todo[l][1], n + 1, Len(todo[l][1]))>> \o Tail(todo[l])]
    /\ UNCHANGED <<job, stage, off, turns, out>>

AbsorbByte(l) ==
    /\ Absorbing(l) /\ todo[l][1] # <<>>
    /\ ByteByByte(sponge[l].pos, Len(todo[l][1]))
    /\ Consume(l, sponge[l].pos, 1)

AbsorbWords(l) ==
    /\ Absorbing(l) /\ todo[l][1] # <<>>
    /\ ~ByteByByte(sponge[l].pos, Len(todo[l][1]))
    /\ Consume(l, (sponge[l].pos \div WordBytes) * WordBytes,
               WordCount(sponge[l].pos, Len(todo[l][1])) * WordBytes)

NextSlice(l) ==
    /\ Absorbing(l) /\ todo[l][1] = <<>>
    /\ todo' = [todo EXCEPT ![l] = Tail(todo[l])]
    /\ UNCHANGED <<job, stage, sponge, off, fed, turns, out>>

Drained == \A l \in Lanes : todo[l] = <<>>

\* kk_kdf_batch_8: the other lanes start as clones of the shared prefix.
Diverge ==
    /\ stage = "shared" /\ Drained
    /\ stage' = "absorb"
    /\ sponge' = [l \in Lanes |-> sponge[1]]
    /\ fed' = [l \in Lanes |-> fed[1]]
    /\ todo' = [l \in Lanes |-> OwnParts(l)]
    /\ UNCHANGED <<job, off, turns, out>>

-----------------------------------------------------------------------------
(* The vector MAC: the body from a word boundary on, all lanes at once. *)

AlignLength(pos) == Smaller(WordBytes - (pos % WordBytes), Len(Body(1)))

\* A prefix that ends inside a word is completed from the body.
Align ==
    /\ stage = "absorb" /\ Drained /\ VectorMac
    /\ IF sponge[1].pos % WordBytes # 0
       THEN /\ stage' = "align"
            /\ off' = AlignLength(sponge[1].pos)
            /\ todo' = [l \in Lanes |-> <<SubSeq(Body(l), 1, off')>>]
       ELSE stage' = "vector" /\ UNCHANGED <<off, todo>>
    /\ UNCHANGED <<job, sponge, fed, turns, out>>

Pack ==
    /\ stage = "align" /\ Drained
    /\ stage' = "vector"
    /\ UNCHANGED <<job, todo, sponge, off, fed, turns, out>>

\* rate_pos: the same for every lane, read from the first.
RatePos == sponge[1].pos
Fill == Rate - RatePos

\* Mutant of BlockLeft: a body that ends with the rate is left to the tail.
BlockLeftStrict == off < Len(Body(1)) /\ Len(Body(1)) - off > Fill

BlockLeft == off < Len(Body(1)) /\ Len(Body(1)) - off >= Fill

\* What one iteration of the vector loop XORs into a lane.
VectorBytes(l) == SubSeq(Body(l), off + 1, off + (Fill \div WordBytes) * WordBytes)

VectorBlock ==
    /\ stage = "vector" /\ BlockLeft
    /\ off' = off + Fill
    /\ sponge' = [l \in Lanes |-> Permuted(Sponge(sponge[l].past,
           XorAt(sponge[l].cur, (RatePos \div WordBytes) * WordBytes, VectorBytes(l)), 0))]
    /\ fed' = [l \in Lanes |-> fed[l] \o VectorBytes(l)]
    /\ UNCHANGED <<job, stage, todo, turns, out>>

\* The rest of the body, the padding and the last permutation.
VectorTail ==
    /\ stage = "vector" /\ ~BlockLeft
    /\ LET rest(l) == SubSeq(Body(l), off + 1, Len(Body(1))) IN
       /\ sponge' = [l \in Lanes |->
              Padded(Sponge(sponge[l].past, XorAt(sponge[l].cur, RatePos, rest(l)), 0),
                     RatePos + Len(rest(l)), job.domain[l])]
       /\ fed' = [l \in Lanes |-> fed[l] \o rest(l)]
    /\ stage' = "squeeze"
    /\ UNCHANGED <<job, todo, off, turns, out>>

\* finalize_absorb of every sponge; the vector KDF pads each lane where that
\* lane is and permutes them together.
Finalize ==
    /\ stage = "absorb" /\ Drained /\ ~VectorMac
    /\ stage' = "squeeze"
    /\ sponge' = [l \in Lanes |-> Padded(sponge[l], sponge[l].pos, job.domain[l])]
    /\ UNCHANGED <<job, todo, off, fed, turns, out>>

-----------------------------------------------------------------------------
(* Squeezing: a block is its length and the permutations made before it. *)

\* Every block but the last is a whole rate.
Produced(l) == Smaller(Len(out[l]) * Rate, job.outlen)

Squeezed(l) == Append(out[l],
    [take |-> Smaller(job.outlen - Produced(l), Rate), turns |-> turns[l]])

\* squeeze and squeeze_kdf: permute only if more is needed.
SqueezeLane(l) ==
    /\ stage = "squeeze" /\ ~VectorSqueeze
    /\ Produced(l) < job.outlen
    /\ \A k \in Lanes : k < l => Produced(k) >= job.outlen
    /\ out' = [out EXCEPT ![l] = Squeezed(l)]
    /\ turns' = IF Produced(l) + Rate < job.outlen
                THEN [turns EXCEPT ![l] = Append(turns[l], job.rounds)] ELSE turns
    /\ UNCHANGED <<job, stage, todo, sponge, off, fed>>

\* Mutant of VectorTurn: the vector loop permutes with all the rounds.
VectorTurnFull(l) == Append(turns[l], FullRounds)

VectorTurn(l) == Append(turns[l], KdfRounds)

\* vectorized_squeeze_8_packed: the first lane decides for all; its loop ends
\* after the block that completes the output.
SqueezeVector ==
    /\ stage = "squeeze" /\ VectorSqueeze
    /\ Produced(1) < job.outlen
    /\ out' = [l \in Lanes |-> Squeezed(l)]
    /\ turns' = IF Produced(1) + Rate < job.outlen
                THEN [l \in Lanes |-> VectorTurn(l)] ELSE turns
    /\ UNCHANGED <<job, stage, todo, sponge, off, fed>>

Return ==
    /\ stage = "squeeze"
    /\ \A l \in Lanes : Produced(l) >= job.outlen
    /\ stage' = "done"
    /\ UNCHANGED <<job, todo, sponge, off, fed, turns, out>>

Next ==
    \/ \E l \in Lanes : AbsorbByte(l) \/ AbsorbWords(l) \/ NextSlice(l) \/ SqueezeLane(l)
    \/ Diverge \/ Align \/ Pack \/ VectorBlock \/ VectorTail \/ Finalize
    \/ SqueezeVector \/ Return

Spec == Init /\ [][Next]_vars

\* A call runs until it returns.
FairSpec == Spec /\ WF_vars(Next)
-----------------------------------------------------------------------------
(* Properties *)

Finished == stage \in {"squeeze", "done"}

\* The padding of a message that ends n bytes into a block.
Padding(n, domain) == [j \in 1..(Rate - n) |->
    Xor(IF j = 1 THEN domain ELSE {}, IF j = Rate - n THEN Top ELSE {})]

\* However the bytes arrived - byte by byte, by words, across slices, in a
\* clone of a shared prefix or in a vector lane - what was permuted in is the
\* bytes consumed, followed by the padding (kk_mix.rs:519-574, 712-726,
\* 1080-1158).
AbsorbsPadded == Finished => \A l \in Lanes :
    sponge[l].past = fed[l] \o Padding(Len(fed[l]) % Rate, job.domain[l])

\* Every lane consumes its own whole message, each byte once and in order
\* ("Produces identical MAC tags", "the same output as calling kk_kdf",
\* kk_mix.rs:679, 1024).
ConsumesMessage == Finished => \A l \in Lanes :
    LET upTo[n \in 0..Len(job.parts[l])] ==
          IF n = 0 THEN <<>> ELSE upTo[n - 1] \o job.parts[l][n]
    IN  fed[l] = upTo[Len(job.parts[l])]

\* A lane squeezes what a sponge of its own would: blocks of a rate, one
\* permutation of the right number of rounds between two of them, and no
\* permutation without need (kk_mix.rs:581-613, 777-804).
OutputsMatchScalar == stage = "done" => \A l \in Lanes :
    out[l] = [i \in 1..((job.outlen + Rate - 1) \div Rate) |->
                [take  |-> Smaller(Rate, job.outlen - (i - 1) * Rate),
                 turns |-> [k \in 1..(i - 1) |-> job.rounds]]]

\* Sponges that were fed different bytes or another domain never reach the
\* same state ("different domains and different message lengths cannot
\* collide", kk_mix.rs:566-567).
PaddingSeparates == Finished => \A k, l \in Lanes :
    sponge[k].past = sponge[l].past => fed[k] = fed[l] /\ job.domain[k] = job.domain[l]

\* Every call returns: each iteration of the absorb, vector and squeeze loops
\* makes progress.
Finishes == <>(stage = "done")
=============================================================================
