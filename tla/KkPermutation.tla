---------------------------- MODULE KkPermutation ----------------------------
(* The KK permutation of src/kk_mix.rs and its three other implementations:  *)
(* eight AVX-512 lanes, the CUDA kernel and the WGSL shader, which emulates  *)
(* a word by two half words.  All four run in lock step on the same states,  *)
(* one quintet-round of the 5x5 grid per step, so that they can be compared  *)
(* wherever they are.  Words have WordBits bits (64 in the code).            *)
EXTENDS Integers, Sequences

CONSTANTS
    WordBits,          \* bits of a word, a multiple of 8
    SelectorBits,      \* 2^SelectorBits = WordBits
    Rounds,            \* ROUNDS or KDF_SQUEEZE_ROUNDS
    DefaultRotations,  \* 15 pairs of distances
    DdrMix, C4, C12, C20, C24,
    NumStates,         \* states permuted at once (the lanes, the GPU threads)
    WorkgroupSize,     \* threads of one GPU workgroup
    HostStates,        \* inputs: functions from lanes to states
    Entropies          \* sequences of bytes that rotations are derived from

VARIABLES
    host,    \* the caller's states, one per lane
    rot,     \* the rotation schedule
    round,   \* the round, from 0
    at,      \* the quintet-round within the round, 15 for its end
    phase,   \* "load", "run" or "stored"
    cpu,     \* kk_mix.rs: per lane, the 25 words
    avx,     \* kk_mix_avx512.rs: per word, the lanes
    acc,     \* the running multiples of the round constants of the AVX kernel
    cuda,    \* kk_permute.cu: per thread, the 25 words
    wgsl,    \* kk_permute.wgsl: per thread, 25 pairs <<low, high>>
    buffer,  \* the storage buffer of the shader: an array of half words
    influence \* per word, the input words it depends on

vars == <<host, rot, round, at, phase, cpu, avx, acc, cuda, wgsl, buffer, influence>>

StateWords    == 25
RateWords     == 19
CapacityWords == StateWords - RateWords
Index         == 0..(StateWords - 1)
Lanes         == 0..(NumStates - 1)

\* Powers of two.
Power[n \in 0..WordBits] == IF n = 0 THEN 1 ELSE 2 * Power[n - 1]

Modulus   == Power[WordBits]
HalfBits  == WordBits \div 2
Half      == Power[HalfBits]
Word      == 0..(Modulus - 1)
HalfWord  == 0..(Half - 1)
Rotations == [0..14 -> [1..2 -> Nat]]

\* The third clause: the shader's selector takes its bits, and those it folds
\* onto them from a quarter of a word above, from one half word (6 + 16 <= 32).
ASSUME WordAssumption ==
    /\ WordBits \in Nat /\ WordBits % 8 = 0
    /\ SelectorBits \in 0..WordBits /\ Power[SelectorBits] = WordBits
    /\ SelectorBits + (WordBits \div 4) <= WordBits \div 2
    /\ {DdrMix, C4, C12, C20, C24} \subseteq Word
    /\ Rounds \in 0..Half /\ WorkgroupSize \in Nat \ {0}
    /\ NumStates \in Nat /\ HostStates \subseteq [Lanes -> [Index -> Word]]
    /\ DefaultRotations \in Rotations /\ Entropies \subseteq Seq(Nat)

\* Exclusive or of half words, bit by bit, and from it that of words.
Bit(n, i) == (n \div Power[i]) % 2
XorBits(a, b) ==
    LET upTo[n \in 0..HalfBits] ==
          IF n = 0 THEN 0
          ELSE upTo[n - 1] + Power[n - 1] * ((Bit(a, n - 1) + Bit(b, n - 1)) % 2)
    IN  upTo[HalfBits]
XorHalf == [p \in HalfWord \X HalfWord |-> XorBits(p[1], p[2])]
Xor(a, b) == Half * XorHalf[<<a \div Half, b \div Half>>] + XorHalf[<<a % Half, b % Half>>]

\* b | 1
Odd(b) == 2 * (b \div 2) + 1

\* The wrapping product, by the halves of b.
Times(a, b) == ((a * (b % Half)) + Half * ((a * (b \div Half)) % Half)) % Modulus

RotateLeft(v, n) == LET r == n % WordBits
                        keep == Power[WordBits - r]
                    IN  (v % keep) * Power[r] + (v \div keep)

-----------------------------------------------------------------------------
(* The scalar permutation. *)

RotationsFromEntropy(entropy) ==
    [i \in 0..14 |-> [j \in 1..2 |->
        LET idx == 2 * i + j
        IN  IF idx <= Len(entropy) THEN Odd(entropy[idx] % WordBits)
            ELSE DefaultRotations[i][j]]]

\* Mutant of Mfr: the multiplier is b itself.
EvenMfr(a, b, distance) ==
    LET product == Times(a, b)
    IN  RotateLeft(Xor(Xor(product, product \div Half), b), distance)

Mfr(a, b, distance) ==
    LET product == Times(a, Odd(b))
    IN  RotateLeft(Xor(Xor(product, product \div Half), b), distance)

\* The top SelectorBits bits of b * DDR_MIX.
Selector(b) == Times(b, DdrMix) \div Power[WordBits - SelectorBits]

\* Fixed rotations by 1, 2, 4, ..., each taken if its bit of s is set.
RotateByBits(Rotate(_, _), v, s) ==
    LET upTo[n \in 0..SelectorBits] ==
          IF n = 0 THEN v
          ELSE IF Bit(s, n - 1) = 1 THEN Rotate(upTo[n - 1], Power[n - 1]) ELSE upTo[n - 1]
    IN  upTo[SelectorBits]

Ddr(a, b) == RotateByBits(RotateLeft, a, Selector(b))

\* One quintet-round on the words q[1..5] of s, with a kernel's own primitives.
QuintetRound(M(_, _, _), D(_, _), X(_, _), s, q, r) ==
    LET a == M(s[q[1]], s[q[2]], r[1])
        c == X(s[q[3]], a)
        d == D(s[q[4]], c)
        e == M(s[q[5]], d, r[2])
        b == X(s[q[2]], e)
    IN  [s EXCEPT ![q[1]] = a, ![q[2]] = b, ![q[3]] = c, ![q[4]] = d, ![q[5]] = e]

Diags == << <<24, 0, 6, 12, 18>>, <<20, 1, 7, 13, 19>>, <<21, 2, 8, 14, 15>>,
            <<22, 3, 9, 10, 16>>, <<23, 4, 5, 11, 17>> >>

Rows(k)    == [j \in 1..5 |-> 5 * k + j - 1]
Columns(k) == [j \in 1..5 |-> k + 5 * (j - 1)]

\* The words of quintet-round n of a round: rows, columns, diagonals.
Words(diagonals, n) == CASE n < 5           -> Rows(n)
                         [] n \in 5..9      -> Columns(n - 5)
                         [] n \in 10..14    -> diagonals[n - 9]

Injected == {0, 4, 12, 20, 24}
RoundConstant == [w \in Injected |-> CASE w = 0 -> 1 [] w = 4 -> C4
                     [] w = 12 -> C12 [] w = 20 -> C20 [] w = 24 -> C24]

\* The corners and the centre take their addend; every eighth round XORs the
\* rotated capacity into the rate.
EndOfRound(Add(_, _), X(_, _), Rotate(_, _), s, addend, r) ==
    LET t == [i \in Index |-> IF i \in Injected THEN Add(s[i], addend[i]) ELSE s[i]]
    IN  IF r % 8 = 7
        THEN [i \in Index |-> IF i < RateWords
                 THEN X(t[i], Rotate(t[RateWords + (i % CapacityWords)], r)) ELSE t[i]]
        ELSE t

WrappingAdd(a, b) == (a + b) % Modulus
Addends(r) == [w \in Injected |-> Times(r, RoundConstant[w])]

-----------------------------------------------------------------------------
(* AVX-512: a register holds one word of every lane. *)

LoadStates(states) == [w \in Index |-> [l \in Lanes |-> states[l][w]]]
StoreStates(packed) == [l \in Lanes |-> [w \in Index |-> packed[w][l]]]

XorX8(a, b) == [l \in Lanes |-> Xor(a[l], b[l])]
AddX8(a, b) == [l \in Lanes |-> (a[l] + b[l]) % Modulus]
RotateX8(a, n) == [l \in Lanes |-> RotateLeft(a[l], n)]

MfrX8(a, b, distance) ==
    LET product == [l \in Lanes |-> Times(a[l], Odd(b[l]))]
        high    == [l \in Lanes |-> product[l] \div Half]
    IN  RotateX8(XorX8(XorX8(product, high), b), distance)

\* One variable rotation per lane.
DdrX8(a, b) == [l \in Lanes |->
    RotateLeft(a[l], Times(b[l], DdrMix) \div Power[WordBits - SelectorBits])]

AvxStep(n) == avx' = QuintetRound(MfrX8, DdrX8, XorX8, avx, Words(Diags, n), rot[n])

\* Mutant of AvxEndOfRound: the accumulators are advanced before they are added.
AvxEndEarly ==
    LET next == [w \in Injected |-> (acc[w] + RoundConstant[w]) % Modulus]
    IN  /\ avx' = EndOfRound(AddX8, XorX8, RotateX8, avx,
                             [w \in Injected |-> [l \in Lanes |-> next[w]]], round)
        /\ acc' = next

\* acc += C each round instead of round * C.
AvxEndOfRound ==
    /\ avx' = EndOfRound(AddX8, XorX8, RotateX8, avx,
                         [w \in Injected |-> [l \in Lanes |-> acc[w]]], round)
    /\ acc' = [w \in Injected |-> (acc[w] + RoundConstant[w]) % Modulus]

-----------------------------------------------------------------------------
(* The GPU kernels: both use plain diagonals and both fold the selector. *)

GpuDiags == << <<0, 6, 12, 18, 24>>, <<1, 7, 13, 19, 20>>, <<2, 8, 14, 15, 21>>,
               <<3, 9, 10, 16, 22>>, <<4, 5, 11, 17, 23>> >>

\* Rotations as the flat array of 30 the kernels index, and the pair of one
\* quintet-round in it.
FlatRotations   == [i \in 0..29 |-> rot[i \div 2][1 + (i % 2)]]
RotationPair(n) == <<FlatRotations[2 * n], FlatRotations[2 * n + 1]>>

CudaMfr(a, b, distance) ==
    LET product == Times(a, Odd(b))
    IN  RotateLeft(Xor(product, product \div Half), distance)

CudaDdr(a, b) ==
    LET folded == Xor(b, b \div Half)
        s == Xor(Xor(folded, folded \div Power[WordBits \div 4]), folded \div Power[WordBits \div 8])
    IN  RotateByBits(RotateLeft, a, s % WordBits)

\* The shader's words, low half first.
U64Xor(a, b) == <<XorHalf[<<a[1], b[1]>>], XorHalf[<<a[2], b[2]>>]>>

\* Mutant of U64Add: the carry out of the low half is lost.
U64AddNoCarry(a, b) == <<(a[1] + b[1]) % Half, (a[2] + b[2]) % Half>>

U64Add(a, b) == LET lo    == (a[1] + b[1]) % Half
                    carry == IF lo < a[1] THEN 1 ELSE 0
                IN  <<lo, (a[2] + b[2] + carry) % Half>>

U64Shl(v, s) == IF s = 0 THEN v
                ELSE IF s >= HalfBits THEN <<0, (v[1] * Power[s - HalfBits]) % Half>>
                ELSE <<(v[1] * Power[s]) % Half, ((v[2] * Power[s]) % Half) + (v[1] \div Power[HalfBits - s])>>

U64Shr(v, s) == IF s = 0 THEN v
                ELSE IF s >= HalfBits THEN <<v[2] \div Power[s - HalfBits], 0>>
                ELSE <<(v[1] \div Power[s]) + ((v[2] * Power[HalfBits - s]) % Half), v[2] \div Power[s]>>

U64Rotl(v, s) == LET r == s % WordBits
                 IN  IF r = 0 THEN v ELSE U64Xor(U64Shl(v, r), U64Shr(v, WordBits - r))

\* The low halves by quarters, column by column, then the cross terms.
U64Mul(a, b) ==
    LET Q  == Power[WordBits \div 4]
        ll == (a[1] % Q) * (b[1] % Q)       lh == (a[1] % Q) * (b[1] \div Q)
        hl == (a[1] \div Q) * (b[1] % Q)    hh == (a[1] \div Q) * (b[1] \div Q)
        mid1 == (ll \div Q) + (lh % Q) + (hl % Q)
        mid2 == (hh % Q) + (lh \div Q) + (hl \div Q) + (mid1 \div Q)
        r3   == (hh \div Q) + (mid2 \div Q)
        cross == a[1] * b[2] + a[2] * b[1]
    IN  <<(ll % Q) + (mid1 % Q) * Q, ((mid2 % Q) + r3 * Q + cross) % Half>>

WgslMfr(a, b, distance) ==
    LET product == U64Mul(a, <<Odd(b[1]), b[2]>>)
    IN  U64Rotl(<<XorHalf[<<product[1], product[2]>>], product[2]>>, distance)

WgslDdr(a, b) ==
    LET folded == XorHalf[<<b[1], b[2]>>]
        s == XorHalf[<<XorHalf[<<folded, folded \div Power[WordBits \div 4]>>],
                       folded \div Power[WordBits \div 8]>>]
    IN  RotateByBits(U64Rotl, a, s % WordBits)

\* Packing of the states into half words by the host, and the shader's loads
\* and stores; threads past the last state do nothing.
Threads == 0..(WorkgroupSize * ((NumStates + WorkgroupSize - 1) \div WorkgroupSize) - 1)
Active  == {t \in Threads : t < NumStates}
Pack(states) == [off \in 0..(NumStates * 2 * StateWords - 1) |->
    LET word == states[off \div (2 * StateWords)][(off % (2 * StateWords)) \div 2]
    IN  IF off % 2 = 0 THEN word % Half ELSE word \div Half]
Load(t) == [i \in Index |-> <<buffer[50 * t + 2 * i], buffer[50 * t + 2 * i + 1]>>]
Store == [off \in DOMAIN buffer |->
    wgsl[off \div 50][(off % 50) \div 2][1 + (off % 2)]]
Unpack(mem) == [l \in Lanes |-> [w \in Index |->
    mem[2 * StateWords * l + 2 * w] + Half * mem[2 * StateWords * l + 2 * w + 1]]]

CudaStep(n) == cuda' = [t \in Active |->
    QuintetRound(CudaMfr, CudaDdr, Xor, cuda[t], Words(GpuDiags, n), RotationPair(n))]
WgslStep(n) == wgsl' = [t \in Active |->
    QuintetRound(WgslMfr, WgslDdr, U64Xor, wgsl[t], Words(GpuDiags, n), RotationPair(n))]

CudaEndOfRound == cuda' = [t \in Active |->
    EndOfRound(WrappingAdd, Xor, RotateLeft, cuda[t], Addends(round), round)]
WgslEndOfRound == wgsl' = [t \in Active |->
    EndOfRound(U64Add, U64Xor, U64Rotl, wgsl[t],
        [w \in Injected |-> U64Mul(<<round, 0>>,
             <<RoundConstant[w] % Half, RoundConstant[w] \div Half>>)], round)]

-----------------------------------------------------------------------------
(* The four in lock step. *)

Init ==
    /\ host \in HostStates
    /\ \E entropy \in Entropies : rot = RotationsFromEntropy(entropy)
    /\ round = 0 /\ at = 0 /\ phase = "load"
    /\ cpu = host /\ cuda = host
    /\ avx = LoadStates(host)
    /\ acc = [w \in Injected |-> 0]
    /\ buffer = Pack(host)
    /\ wgsl = <<>>
    /\ influence = [i \in Index |-> {i}]

LoadWords ==
    /\ phase = "load"
    /\ phase' = "run"
    /\ wgsl' = [t \in Active |-> Load(t)]
    /\ UNCHANGED <<host, rot, round, at, cpu, avx, acc, cuda, buffer, influence>>

CpuStep(n) == cpu' = [l \in Lanes |->
    QuintetRound(Mfr, Ddr, Xor, cpu[l], Words(Diags, n), rot[n])]

\* Mutant of Influence: the rotation of d is by a fixed distance.
InfluenceFixed(n) == influence' =
    QuintetRound(LAMBDA a, b, r : a \cup b, LAMBDA a, b : a, LAMBDA a, b : a \cup b,
                 influence, Words(Diags, n), rot[n])

\* What each word depends on: every operation joins its operands.
Influence(n) == influence' =
    QuintetRound(LAMBDA a, b, r : a \cup b, LAMBDA a, b : a \cup b, LAMBDA a, b : a \cup b,
                 influence, Words(Diags, n), rot[n])

Quintet(numbers) ==
    /\ phase = "run" /\ round < Rounds
    /\ at \in numbers
    /\ at' = at + 1
    /\ CpuStep(at) /\ AvxStep(at) /\ CudaStep(at) /\ WgslStep(at) /\ Influence(at)
    /\ UNCHANGED <<host, rot, round, phase, acc, buffer>>

RowPhase      == Quintet(0..4)
ColumnPhase   == Quintet(5..9)
DiagonalPhase == Quintet(10..14)

FinishRound ==
    /\ phase = "run" /\ at = 15
    /\ round' = round + 1 /\ at' = 0
    /\ cpu' = [l \in Lanes |->
           EndOfRound(WrappingAdd, Xor, RotateLeft, cpu[l], Addends(round), round)]
    /\ AvxEndOfRound
    /\ CudaEndOfRound /\ WgslEndOfRound
    /\ UNCHANGED <<host, rot, phase, buffer, influence>>

StoreWords ==
    /\ phase = "run" /\ round = Rounds
    /\ phase' = "stored"
    /\ buffer' = Store
    /\ UNCHANGED <<host, rot, round, at, cpu, avx, acc, cuda, wgsl, influence>>

Next == LoadWords \/ RowPhase \/ ColumnPhase \/ DiagonalPhase \/ FinishRound \/ StoreWords

Spec == Init /\ [][Next]_vars
-----------------------------------------------------------------------------
(* Properties *)

\* The vector permutation computes in every lane what the scalar one computes
\* on that lane's state: same quintets, selectors, addends and re-keying
\* (kk_mix_avx512.rs:202-206, "Exact same algorithm as scalar").
LanesMatchScalar == StoreStates(avx) = cpu

\* The shader's pairs of half words are the kernel's words, also once they
\* went through the flat buffer: the emulation of 64-bit addition,
\* multiplication, shifts and rotations loses nothing.
EmulationMatchesCuda ==
    /\ phase # "load" => \A t \in Active, w \in Index :
         wgsl[t][w][1] + Half * wgsl[t][w][2] = cuda[t][w]
    /\ phase = "stored" => Unpack(buffer) = cuda

\* After two rounds every word depends on every word of the input
\* (kk_mix.rs:94-96).
FullDiffusion == round >= 2 => \A w \in Index : influence[w] = Index

\* The inverses of the operations: nothing an operation of a round does loses
\* information ("| 1 ensures odd (bijective)", kk_mix.rs:202).
Reciprocal(n) ==
    LET upTo[k \in 0..SelectorBits] ==
          IF k = 0 THEN n
          ELSE Times(upTo[k - 1], (Modulus + 2 - Times(n, upTo[k - 1])) % Modulus)
    IN  upTo[SelectorBits]
UnMfr(x, b, distance) ==
    LET folded  == Xor(RotateLeft(x, WordBits - distance), b)
        product == Xor(folded, folded \div Half)
    IN  Times(product, Reciprocal(Odd(b)))

UnQuintet(s, q, r) ==
    LET b == Xor(s[q[2]], s[q[5]])
        e == UnMfr(s[q[5]], s[q[4]], r[2])
        d == RotateLeft(s[q[4]], WordBits - Selector(s[q[3]]))
        c == Xor(s[q[3]], s[q[1]])
        a == UnMfr(s[q[1]], b, r[1])
    IN  [s EXCEPT ![q[1]] = a, ![q[2]] = b, ![q[3]] = c, ![q[4]] = d, ![q[5]] = e]

UnFinish(s, r) ==
    LET t == IF r % 8 # 7 THEN s
             ELSE [i \in Index |-> IF i < RateWords
                     THEN Xor(s[i], RotateLeft(s[RateWords + (i % CapacityWords)], r)) ELSE s[i]]
    IN  [i \in Index |-> IF i \in Injected
            THEN (t[i] + Modulus - Addends(r)[i]) % Modulus ELSE t[i]]

\* Every step of the scalar permutation can be undone from its result alone:
\* the permutation is one.
Reversible ==
    [][\A l \in Lanes :
         /\ at' = at + 1 => UnQuintet(cpu'[l], Words(Diags, at), rot[at]) = cpu[l]
         /\ round' = round + 1 => UnFinish(cpu'[l], round) = cpu[l]]_vars

\* The GPU kernels permute as the CPU does (tests/gpu_integration.rs:40-56,
\* tests/cuda_integration.rs:43-57).
DevicesMatchCpu == cuda = cpu
=============================================================================
