# A TLA+ verification of the KK crate

The crate (`src/src/*.rs`) is a symmetric-key library: a sponge with
entropy-derived rotations, codecs that seal plaintext under a keystream drawn
from it, and, above them, the stateful protocols: a ratcheted session, a
three-message key agreement, a pool of pre-gathered entropy, challenge-response
proofs, a pool of generators, two accelerator backends and a simulated quantum
key exchange.  This directory holds models of these parts, the TLC runs that
check them on small instances, and TLAPS proofs of their main properties for
every instance.

Contents: 1 inventory, 2 modules, 3 runs and bounds, 4 fairness, 5 proofs,
6 what is only model-checked, 7 what is not modelled, 8 findings, 9 plan,
10 how to run.

## 1. Inventory

| Component | State | Operations | What is hard | What makes it correct |
|---|---|---|---|---|
| Session, `session.rs` | per end a `RopeRatchet`: entropy, temporal and chain strands, counter | `new`, `advance`, `receive`, `step`, `encode_session(_aead)`, `decode_session(_aead)` | loss, repetition, reordering and corruption of packets; a step that is taken before authentication; an encode that fails after the step | what is delivered was sent, once, in order; message keys never repeat; faults of the network alone do not desynchronise |
| Entropy pool, `entropy_pool.rs` | deque under a mutex, shutdown flag, two condition variables | `new`, `draw`, `drop`, `refill_loop` (own thread) | notify after unlock, lost and spurious wake-ups, drop during a refill, failing gathers | no lost wake-up, no deadlock, no snapshot used twice, the worker ends after the drop |
| Key agreement, `eka.rs` | `EkaInitiator`, `EkaResponder`, each consumed by its next message | `new`, `process_msg2`, `process_msg3` | concurrent handshakes whose messages get mixed up; half-open handshakes | both ends of a completed handshake agree; a key belongs to one pair |
| Entropy, `entropy.rs` | none (the operating system's sources) | `gather` | may fail; clock may repeat or go back | none of its own; the users must not depend on more than it gives |
| Codec, `codec.rs`, `kdf.rs` | none, but for the stream encoder and decoder | `encode`, `decode`, split, bound, AEAD, batch, parallel (Merkle), stream | calls at once that share a source of snapshots, keystream batches and their tails, a batch that fails in the middle, exchanged blocks, streams and connections cut short | no two bytes share a key; decoding inverts encoding and yields nothing but what was sealed |
| Temporal proofs, `temporal.rs` | none; the caller keeps nonces and the last MAC | `commit*`, `verify*`, `generate_challenge` | replays, two clocks, the caller's share of the bookkeeping | fresh, recent, ordered |
| Generators, `rng.rs` | `KkRng`: state and counter; `KkRngPool`: generators under a mutex each, an atomic index | `next_bytes`, `reseed`, `fill_bytes_parallel` | concurrent callers, uneven lengths, counter wrap-around | no output is produced twice |
| Sponge, `kk_mix.rs`, `kk_mix_avx512.rs` | `KkSponge`: 25 words, rate position | `absorb`, `squeeze`, permutation, hash, KDF, MAC, batches of eight | bytes, words and vectors that meet in the middle of a block, padding at its end, lanes of different lengths, running accumulators | what is absorbed is the message and its padding; batch and vector equal the scalar form; the permutation is one |
| CUDA, `cuda.rs`, `kk_permute.cu` | device buffers in global variables, shared by every handle | `permute_batch`, `kk_kdf_batch`, `drop` | reallocation that fails, several handles, several threads | no buffer is used after it was freed; a batch moves together |
| WebGPU, `gpu.rs`, `kk_permute.wgsl` | a device and a pipeline | `permute_batch`, `kk_kdf_batch` | agreement with the CPU's result | same result as the CPU |
| QKD simulation, `qkd.rs` | none | `alice_prepare`, `eve_intercept`, `bob_measure`, `distill_key`, `encrypt_epsilon`, `decrypt_epsilon` | sampling and key cut from one string, an undetected eavesdropper | compared bits are not used; a clean channel agrees; a wrong key never decodes |

Interactions.  `eka` yields the secret of a session; `session` gathers a
snapshot per message and calls `codec` with its message key; `codec` gathers,
or draws from `EntropyPool`, and calls `kdf` and `temporal`, and these call
`kk_mix`, which picks the AVX-512 permutation when the processor has it.  `qkd`
carries the snapshot that `encode_split` returns apart from its packet.  The GPU
backends are called by the application in place of `kk_mix`.  The pool is the
only part with a thread of its own; batches and parallel packets are encoded by
rayon's threads, and `rng` is shared between threads by its callers.  All other
interaction is over messages that the caller carries.

`PROJECT.json` lists the hazards at their lines, with the properties that cover
them.

## 2. Modules

`RopeSession` (session.rs).  `send[d]` and `recv[d]` are the ratchets of the
two ends in direction `d` (a `context` of `RopeRatchet::new`).  The strands are
symbolic: a strand is its root with the sequence of inputs folded into it, and
`Mixed` is the final `kk_kdf` whose output becomes the next chain strand and the
message key.  Two values are equal exactly if their inputs are, which is what
the code takes the KDF to give.  `EncodeSession`, `EncodeFails` and
`AdvanceFails` are the outcomes of `encode_session` (and of its AEAD twin,
which has the same control flow): success, a codec error after the ratchet has
moved, a gather error before it.  `DecodeRejects` and `DecodeAdvances` are those
of `decode_session`: the counter test, and the step followed by the
authentication, which may fail after the ratchet has moved.  `wire` keeps every
packet ever sent; `Present` takes any of them, so loss, repetition and
reordering are all there, and `PresentFaulty` presents one with an altered
counter, snapshot or body, or to another direction.  `gather` may return the
same bytes and the same time again, and times in any order.  `trail` and
`delivered` are history: the sender's past ratchets and what the application
received.

`OrderedDelivery` is the abstract specification of a session: messages are
offered under increasing counters and taken in that order, possibly with gaps.

`EntropyPool` (entropy_pool.rs).  Actions are the critical sections and, as steps of
their own, the `notify_one` calls that follow them.  `worker`, `owner` and `drawer` say
where the refill thread, the thread that creates and drops the pool and each drawing
thread are; a thread in state `"wait"` sleeps on its condition variable and is moved by
a notify or, spuriously, by itself. `requested` is the argument of `new`, and clamped
for the capacity.  `OwnerShutsDown` requires that no `draw` is running, because `drop`
needs the value that `draw` borrows.  `held` is what each thread drew last.  `Fresh`
says what is assumed of `gather`: it returns nothing that is held anywhere.  Snapshots
that were let go may be returned again; this only keeps the model finite.

`EkaHandshake` (eka.rs).  An element of `Initiators` or `Responders` is one
`EkaInitiator` or `EkaResponder` value, `pc` its life: not made, waiting
(`"sent"`), completed or failed.  Commitments, tags and keys are records of what
was hashed, authenticated or derived.  `msgs1..3` are the messages ever sent and
`Arrives1..3` what may reach an end: any of them, whole, with a replaced
snapshot or with a spoilt tag or commitment.  A failed gather in either `new`
returns an error with no effect and no end, and is a stuttering step.

`KeyAgreement` is its abstract specification: an initiator gets a new key, and a
responder the key of an initiator that no other responder has.

`BoundProof` (temporal.rs and the bound form of codec.rs).  `made` lists the proofs
that any number of provers have made with `encode_bound`, and a MAC is the number
of its proof; `Covered` is what the MAC covers.  `Arrives` is what the network
makes of a proof's packet: the packet, at any time and any number of times, or
the packet with one field altered (a nonce can become another challenge's, a
previous MAC any other MAC, a timestamp any time).  `Verdict` is `verify_bound`,
its three tests in their order.  A clock of either side shows real time up to
`MaxSkew`, anew at each reading, so clocks also step back.  The functions keep
nothing; what the documentation leaves to the caller (temporal.rs:381-383) is part
of `DecodeBound` and marked external: a nonce is pending until the packet accepted
under it, and the packet must name the last accepted MAC.  Caller and
`decode_bound` act as one step, so concurrent verifications against one chain are
not modelled; `now` is real time at the moment `verify_bound` reads the clock.
`asked` and `at` of a proof, and `time` of an acceptance, are history.

`RngPool` (rng.rs).  `gens` are the generators of one `KkRngPool`, `lock` their
mutexes, `next` the atomic index; `own` is a `KkRng` that a thread has to itself,
which is the only kind that can be reseeded.  A call enters with its tasks
(`CallNext`: one, for the generator whose turn it is; `CallFill`: one per piece of
the buffer, run by rayon in any order and side by side), each task locks its
generator and derives (`Derive`), then takes its output, moves the generator on and
unlocks (`Ratchet`), and the call returns when all are done.  The state of a
generator is its seed with what it was ratcheted and reseeded with since, and the
counter before each ratchet; both counters wrap, at sizes that are parameters.
`given` and the fields `start` and `alone` of a call are history.

`KkPermutation` (kk_mix.rs, kk_mix_avx512.rs, kk_permute.cu, kk_permute.wgsl).  The
four implementations of the permutation run in lock step on the same states, one
quintet-round per step (`RowPhase`, `ColumnPhase`, `DiagonalPhase`) and one step for
the end of a round: `cpu` has the states of the scalar code, `avx` a register of all
lanes per word with the running accumulators `acc`, `cuda` a state per thread, and
`wgsl` a state per thread whose words are pairs of half words, loaded from and
stored to the flat `buffer`.  The arithmetic is computed, not symbolic, on words of
`WordBits` bits: constants and rotations scale with it.  `QuintetRound` and
`EndOfRound` are the common shape; each kernel passes its own operations.
`influence` follows which words of the input a word depends on.  The rotation
schedule is the default one or derived from entropy.  Powers of two (`Power`),
exclusive or (`XorBits`, bit by bit), the conditional rotations of `ddr`
(`RotateByBits`, one per bit of the selector) and reciprocals (`Reciprocal`, by which
`UnMfr` divides) are recursive functions, so that they can be reasoned about.

`KkSponge` (kk_mix.rs).  One call per behaviour, with one sponge per lane; `job` is the
call: a plain sponge (hash, entropy mixing), a KDF or a MAC, scalar or vector.  The
permutation is symbolic: a sponge is the bytes permuted in so far (`past`), the rate
bytes XORed in since (`cur`) and `pos`.  A step is an iteration of a loop of the
code: a byte (`AbsorbByte`), the words that fit (`AbsorbWords`), the next slice, the
clone of the shared prefix (`Diverge`), the alignment and the blocks and the tail of
the vector MAC (`Align`, `Pack`, `VectorBlock`, `VectorTail`), padding (`Finalize`),
and a squeezed block of one lane or of all.  `todo` is what the scalar loop has left,
`off` the offset of the vector loop, `turns` the permutations of the squeeze, `fed`
the history of consumed bytes.

`Codec` (codec.rs, kdf.rs, temporal.rs).  `jobs` are encoding calls that run at once.
`work[c]` has an item for every message or block that call `c` seals: its text, the
snapshot drawn for it, the output with the keystream batches `done`, and its
commitment.  `Draw`, `XorBatch` and `Seal` are the steps of an item; which may
run side by side is up to `Task`: the items of a full group of a batch share a
task and are committed together (`SealGroup`), everything else is rayon's choice.
`DrawFails` is a failing gather or an empty message; `Return` joins the tasks, and a
batch that failed unwinds ("panic"), as `encode_aead_batch` does by `unwrap`.  A byte
is a set of symbols and XOR the symmetric difference, so a byte of output shows
which key symbols went into it.  `free` are the snapshots not handed out: `gather`
returns a new one each time, which is what the codec asks of it.  When a call has
returned, a receiver gets what the transport makes of its packets (`Mangled`,
`Replaced`, `Torn`, `Connection`, marked external) and decodes it with the
function for its form; a single packet also with the decoder of the form that has
associated data, or has none.  A commitment is the snapshot and the bytes its MAC
covers (`Covered`): `commit_aead` puts a length and the associated data before the
ciphertext, and no other mark tells it from `commit`.  The blocks of a parallel packet
arrive under the root that was sent, or under the one `compute_merkle_root` finds
for the blocks that arrive, since the root has no key.  Wire forms are sequences of
units with every length modulo `LenMod`: ciphertext, associated data, blocks and their
number.  `got` is what came of an arrival: `want` is the message, `sealed` what the
parts that arrive were sealed from (the message, but for a root made anew), and
`intact` says that everything arrived as it was sent and that every length fits its
field.

`Qkd` (qkd.rs) extends `Codec`: before a call of the split form the qubits are
prepared, maybe intercepted, and measured, each measurement in the wrong basis
being free; `Distill` sifts, compares and cuts the key.  `DecodeQkd` lets the
receiver decrypt the snapshot with its own key, also when an eavesdropper was
noticed, because `distill_key` returns keys all the same.

`CudaBuffers` (cuda.rs, host side of kk_permute.cu).  `memory` is the device's
allocator, `states`, `rotations` and `capacity` are the globals, `open` the handles.  A
call goes through `Reserve`, the two allocations, the copy, the kernel and the
copy back, each failure being an action; `Back` returns to Rust, which ignores the
failure, and `ReadBlock` is the squeeze loop of `kk_kdf_batch`.  A state is the
number of times it was permuted in the call; `flat` are the host's.  `good` and
`failed` are history.  `StatesMoveTogether` is what is left, after a
failure, of the documented result (section 8).

`MC...` modules give the constants of the runs; `...Proofs` modules hold the theorems,
`KernelProofs` those of `KkPermutation` and of `CudaBuffers`, which are the device and
the host side of kk_permute.cu.  Definitions marked "Mutant of" are not used by the
specifications: they are plausible bugs, each of which a property must notice.

## 3. Runs and bounds

| Run | Bounds | Shows |
|---|---|---|
| `rope_faults` | one direction, 2 entropy values, 2 times, 4 counters, 2 faults | order and authenticity of deliveries; only faults desynchronise; a burnt counter stops the receiver; acceptance proves the whole ratchet in step; a diverged receiver stays diverged; packets before the first burnt counter arrive |
| `rope_duplex` | two directions, 2 entropy values, 2 counters each, 2 faults | keys of one and of both directions differ, although gathers repeat; refinement of `OrderedDelivery` |
| `pool_safety` | requests of 1 and 4 (min 2, max 6), 2 drawers, 6 snapshots | no deadlock, no lost wake-up, no duplicate, at most one gather finished after the drop; `new` returns, an empty pool is refilled, the worker ends |
| `bound_safety` | 2 nonces, 1 body, 2 proofs, drift 3, skew 1, time 6 | acceptance means fresh, recent, in order; packets whose drift must lie below the tolerance are verified |
| `rng_safety` | 2 threads, 2 generators, lengths 1 and 3, turn counter of 3 values, generator counters of 2, 4 calls | no block twice, determined fills, no deadlock |
| `eka_safety` | 2 initiators, 2 responders, 2 pre-shared keys, 4 snapshots | agreement at both ends, completability, refinement of `KeyAgreement` |
| `permutation_lanes` | words of 16 bits, 32 rounds, 2 pairs of states, 3 schedules | vector lanes equal the scalar permutation; the shader's emulation equals the CUDA kernel; diffusion in two rounds; every step can be undone |
| `permutation_devices` | the same | violated: the GPU kernels do not permute as the CPU does (section 8) |
| `sponge` | 2 lanes, words of 4 bytes, rate of 12, all kinds of calls with lengths on and around word and block boundaries | what is absorbed is the message and one padding; batches equal scalars; paddings separate; every call returns |
| `codec` | calls of every form, two at a time, chunks of 2 bytes, groups of 2, lengths modulo 11, 5 snapshots; 6 qubits, 3 sifted, 2 compared | no key symbol twice; what decodes is what was sealed; what is intact decodes; the exchange agrees on a clean channel and discards compared bits |
| `codec_chunks` | one parallel call of two chunks, otherwise the same | violated: chunks decode to another message under a root made for them (section 8) |
| `cuda` | 2 handles, 3 addresses, batches of 1, 2, 3 states, up to 3 blocks, 3 calls | buffers are allocated, apart and large enough when used, and freed with the last handle; states of a batch move together |

Type invariants are not among the runs' properties: those of the session, the pool,
the key agreement, the proofs and the generators are theorems (section 5).

Why these are enough to reach the interesting cases.  *Session*: a corrupted step, the
rejected packet after it and another try need three counters; the fourth leaves room for
a burnt one.  Two faults can cancel each other, if they could at all.  Two directions
need two counters each for a key of one to be tried against any key of the other.
*Pool*: with capacity 4 and watermark 2 the buffer can be full, below the watermark and
empty, with both drawers between unlock and notify at once; the code's minimum of 8
differs in size only, since every test is a comparison with the capacity, the watermark
or the prewarm count.  The request of 1 is raised to 2: there the clamp alone keeps the
watermark above 0, and the pool opens only when it is full.  Capacity + drawers
snapshots leave one for each thread that gathers.  *Handshake*: two ends of each kind
suffice to misroute each message, and two keys to pair ends that must not agree.
*Proofs*: two nonces and two proofs give a proof under the wrong challenge, one used
again, and two made side by side from the same predecessor; two clocks that are off by
one show a drift of up to 2 without any delay, so that a tolerance of 3 leaves prompt
packets with and without a drift and others on its boundary and beyond, and by time 6 a
proof made at the start is late for good.  *Generators*: two threads in the pool at
once, one with two tasks; lengths that do and do not fill their pieces; with four calls
every counter wraps, and since 3 is not a multiple of 2 the turns jump there.
*Permutation*: the arithmetic works alike for every width that is a multiple of 8; 16
bits leave room for a high and a low half whose carries, cross products and shifts all
occur, and the full 32 rounds include four re-keyings and all accumulator values.  Two
lanes are the least that can be mixed up, a workgroup of three has one idle thread.
*Sponge*: a block of three words lets slices end inside a word, at a word and at the end
of a block, and the lengths of the calls are chosen to hit each with each: keys,
prefixes and bodies from empty to nearly three blocks, equal and unequal in the two
lanes, outputs of no block, one, one and a byte, and more than three.  *Codec*: a batch
of two chunks of two bytes makes messages of no, one and several batches with full and
partial tails; a group of two has batches that fill it, exceed it by one, or contain an
empty message in a full group or in the tail; lengths modulo 11 wrap for a message of 11
bytes, for associated data of 11 (read back as none) and 13 bytes (as two), and for
parallel blocks whose wire form has 11 units or 17.  One parallel call with two blocks
is enough to exchange, lose and repeat them. *Exchange*: six qubits, of which three or
more must be sifted, give exchanges that are refused, clean, noticed and unnoticed.
*CUDA*: three addresses are one less than a batch with buffers of its own needs beside
the persistent ones, so allocation fails both by choice and for want of memory; batches
of three sizes grow and fit a buffer. The theorems of section 5 remove these bounds for
the safety properties.

Bounds in the modules themselves, all in guards: `MaxCounter` (the code's counter
is a `u64` and is taken not to overflow) and `MaxFaults` of the session, `MaxTime`
and `MaxProofs` of the proofs (a `u128` of nanoseconds, and no limit), `MaxCalls`
of the generators (no limit), `MaxBlocks` and `MaxCalls` of the CUDA backend (no
limit).  `Jobs` of the codec and the sponge, `Prepared` of the exchange and
`HostStates` and `Entropies` of the permutation are the inputs of a run.

Symmetry is used for safety only, over values that are only compared.
Deadlock is checked for the entropy pool, the generators, the codec and the CUDA
backend, where `Terminated`, `Finished`, `Over` with `Refuses`, and `Stopped` mark
the states that may stop.  The session and the provers never stop, because an
encode may always be tried and fail; there the check on deadlock says nothing.
The handshake stops when its ends are used up, and a permutation and a sponge call
when they are done, so the check is off in those runs; that a sponge call does get
there is `Finishes`.

## 4. Fairness

* Session: weak fairness of `PresentNext`, a transport that goes on presenting
  the packet the receiver waits for.  The crate has no retransmission: this is
  what it asks of its caller.  Without it nothing arrives.  Nobody is
  obliged to send.
* Pool: weak fairness of the owner's, the worker's and each drawer's running
  code, that is, threads are scheduled and a mutex is obtained in the end; strong
  fairness of a successful gather, because `gather` fails only if the operating
  system's generator does, and not for ever.  No fairness of spurious wake-ups:
  progress must not depend on them.  No fairness of drawing or of dropping.
* Sponge: weak fairness of `Next`.  A call is one thread that runs until it
  returns, and every step of the model is one iteration of its loops; `Finishes`
  therefore says that each loop makes progress.
* The handshake has no liveness property: its API consumes ends on failure and
  leaves retries to the caller, so nothing makes a handshake end in success.

## 5. Proofs

All theorems hold for every value of the constants that satisfies the named assumptions:
`BoundsAssumption` and `BoundAssumption` (bounds are naturals), `RngAssumption` and
`NoneAssumption` (at least one generator, counters of at least one value, threads are
not generators), `PoolAssumption` (the clamp's limits are in order, requests are
positive, as `new` asserts), `NamesAssumption` (the values for "nothing" and "spoilt"
are none of the others), `CudaAssumption` (sizes are positive, the null pointer is no
address), `WordAssumption` of `KkPermutation` (the width of a word is a multiple of 8
and a power of two; the selector of a rotation and a quarter of a word fit in half a
word, as 6 + 16 bits do in 32; the constants are words; a half word can count the
rounds, as the shader does; a workgroup has a thread; states, rotations and entropies
are well-typed), `CodecAssumption`, `JobsAssumption` and `NoneAssumption` of `Codec`
(chunks and groups are not empty, calls are well-typed, of any lengths, also such as do
not fit their fields; "nothing" and "error" are none of the values that an output, a
commitment or a parser can be), `QkdAssumption` of `Qkd` (prepared qubits are bits in a
basis) and `SpongeAssumption` and `JobsAssumption` of `KkSponge` (a block is whole
words; calls are well-typed, a KDF squeezes with its own number of rounds, and the first
three slices of a batch of KDFs are common to its lanes, as the one prefix sponge of
`kk_kdf_batch_8` makes them).

Many operators of the codec and the sponge are recursive functions over the slices,
batches or blocks of a call.  Two things are needed to reason about them.  The
functions must exist: `StreamsExist`, `FlattensExist`, `ParsesExist`, `SiftsExist` and
`JoinsExist` say so, each by building it up one argument at a time.  And
there must be induction, which is used here as a statement about sets: of the
arguments at which something fails there is a least one, because `<` is well-founded
on the naturals (`LessIsWellFounded`), and it is neither the first nor the
successor of one at which the thing holds.

**RopeSessionProofs.** `TypeCorrect` is inductive by itself.  The rest follows from
`IInv`: *SenderInv*, the trail is the sender's path, each ratchet on it made by a step
from the one before; *WireInv*, every packet's step and key belong to the ratchet of
its counter on the trail; *RecvInv*, a receiver's ratchet has the root of its
direction and satisfies *ChainDetermines*: its chain strand records the other strands
and the counter it was mixed from; *DeliveredInv*, deliveries are sent messages with
counters up to the receiver's.  The delivery and synchronisation properties are not
inductive alone, because a rejected packet may have changed the receiver's strands:
only the determination of all strands by the chain lets one conclude, when a packet
opens (`OpensMeansGenuine`), that the whole ratchet is in step.  From it follow
`DeliveryOrdered`, `ReceiverSynced`, `GapIsBarrier`, `KeysUnique`, `AcceptanceSyncs`,
`DivergenceStays` and the refinement (`Refinement`).  `GapIsBarrier` has the condition that
no packet was corrupted: a corrupted counter may step a receiver past a gap, and out of
step for good.

**EntropyPoolProofs.**  `SlotInv` says, for each place of the refill thread, how
many slots it still has to fill and that there is room for them: drawing only
makes room, and only the worker pushes.  `RoomForEverySlot` alone is not
inductive, since it says nothing while the thread is between push and notify,
where one slot is filled but not yet counted off.  `NoLostWakeup` and
`SnapshotsDistinct` are inductive over it; `AtMostOneLateGather` needs `LateInv`,
that a gather under way when the flag is set is the first to finish after it.

**EkaHandshakeProofs.**  `IInv`: every message 2 was made by a responder from its
fields, every message 3 by a completed initiator (which still has the matching
key), and no two ends of a kind share their entropy.  `Genuine2` and `Genuine3`
conclude that an accepted message was sent by the right peer whatever the
network did; agreement at both ends, completability and the refinement follow.

**BoundProofProofs.**  `IInv` is the conjunction of the type invariant, the three
`Accepted...` properties and `MadeInv`: a proof's timestamp is within the skew of
the time it was made, its nonce was issued before (or is an altered one), and it
names an earlier proof.  The properties are not inductive without it, because
they speak of accepted proofs only and a proof is made long before.  `VerdictOk` and
`AuthenticFields` turn a verdict into equalities with the proof made; `AgeBound` is the
arithmetic of two skewed clocks and the absolute difference, and `DriftBounds` its
converse, from which `NoFalseAlarm` follows.  The order of acceptances follows
from `prev < k`: MACs are numbered as they are made, and a proof can only name
one that exists.

**RngPoolProofs.**  `IInv` has two parts.  `CallInv`: a task that has derived holds
its mutex and derived from what is still the generator's state (`LockInv`), tasks are
in one place at a time, and while a call is alone the generators whose tasks are
not done are as it found them (`AloneInv`).  `PastInv`: every block given out comes
from a state its generator has left behind, because it has been ratcheted or reseeded
since.  `NeverRepeats` alone is not inductive: it does not say that a block under
way is unlike those given.  The counters play no part in the argument, so it
holds for any width.  `PiecesCover` is the arithmetic of the parallel fill.

**KernelProofs, permutation.**  The arithmetic is that of the code with 64 replaced by
any `WordBits`, so the first part is about numbers: powers of two add their exponents
(`PowerSum`), a word is two parts for every place to cut it, rotations compose and are
undone (`RotateTwice`, `RotateBack`), so that the conditional rotations by 1, 2, 4, ...
are one rotation by the selector (`RotatedByBits`); an exclusive or is known by its
bits (`XorBitsOf`) and undoes itself (`XorTwice`), and the fold of the high half onto
the low one is undone by folding again (`FoldTwice`); and an odd word has a reciprocal,
which Newton's iteration finds by doubling the number of right bits
(`Reciprocals`).

`StepsUndone` needs only the invariant `PermutationTyped`: then each of the five
assignments of a quintet-round is undone in reverse order (`QuintetBack`), and so is
the end of a round (`FinishBack`).  `LanesAgree` rests on `LanesInv`: the registers
are the transposed states, and the accumulators are the round number times the
constants.  The property itself is not inductive, because it says nothing of the
accumulators.

`EmulationAgrees` is a data refinement.  A pair of half words has a value, and every
operation of the shader is shown to be the kernel's on the values: addition with its
carry (`AddValue`), multiplication from products of quarter words with their carries
(`MulValue`), rotation by distances below, at and above half a word and of zero
(`RotlValue`), and the two mixing functions (`MfrValue`, `DdrValue`).  `PairsInv` then
keeps the pairs' values equal to the kernel's words from the load to the store, and
the buffer packed before and after.

`TwoRoundsDiffuse` speaks of rounds, and its invariant `Diffused` of every
quintet-round in between.  In the first round each row spreads along itself; the
columns through the second and last words of the rows fill the words 6, 21 and 9; the
diagonals hand that on to 0, 15 and 10.  Each row of the second round then starts with
a word that depends on everything, and passes it along.

**KernelProofs, buffers.**  `BuffersLive` speaks of the moments a buffer is used and of
the time between calls, and is not inductive: a call may fail anywhere in between.
`MemInv` says for every place of a call what is allocated.  `SettledInv`: outside
the allocations exactly the persistent buffers are, and they have the capacity
that is recorded; `FreshInv`: a batch of its own has its buffers beside them;
`SharedInv`: a reallocation begins with nothing, so that stale pointers left by a
failure are never freed again while something else is at their address; `CallInv`:
without handles nothing is persistent.  `BatchMovesTogether` rests on `DataInv`:
host states are equal, the device has them or their successors, and as long as
nothing has failed the blocks read and the permutations made take turns.

**CodecProofs.** `KeystreamUsedOnce` relates pairs of bytes of different calls, and
follows from an invariant on single items: `ItemsInv`, every byte of a batch that is
done is its text XORed with the symbol that its snapshot, chunk and place determine;
together with `SnapsInv`, a snapshot in use is used once and handed out no more, and
`StreamsInv`, the text of a stream has stopped growing when its output begins.  The
arithmetic part is that batch, chunk in the batch and place in the chunk determine the
byte, for full batches and for the tail, whose chunks are numbered in another branch
of the code.

What receivers get rests on `SealsInv`: an item belongs to the call at its place, and
once it has a tag all its batches are done and the tag commits to its snapshot, its
associated data and the whole output; a call that returned has sealed every item.
`GotInv` is what is shown of an arrival: it decodes to what its parts were sealed from
or to an error, and to the message if it is intact.  The steps are these.  `RoundTrip`:
the output of `Keystreamed` under the same snapshot is the text again, because each
byte meets the same symbol (`KeystreamedByte`, `XorBack`).  `OpensOnlyWhole`: what
opens has the snapshot, the associated data and the ciphertext that were committed to.
It speaks of packets that keep their form and of those that keep their ciphertext and
get other associated data, or none: the bytes covered are then of another number, or
begin with another length.  For parallel packets the root that was sent fixes every
block and their number (`ParallelWhole`, `ParallelBlocks`), a root made for the blocks fixes
nothing, and each block opens to its own text; cutting a message in chunks and joining
them again gives the message (`FlattenChunks`).  For streams, `ConnectionFollows` says
that a connection which goes on with the next packet begins with this one.

For the wire, `AeadWireUnits` and its kin say which units a packet becomes, and
`PlainParsed`, `SealedParsed`, `AeadParsed` and `BlocksParsed` that a parser that reads
these units at an offset gives the packet back, whatever follows, if all lengths fit
their fields.  A length that wrapped is shorter than what it tells, so that the parser
looks for a commitment, or for the next length, among the bytes: it fails, or returns a
packet without a commitment (`Untagged`), which does not open (`NoTagFails`).  A
parallel packet is read block by block, each from where the last one ended; `Spoilt` says
that this has failed or that one of the blocks so far has no commitment, which no later
block mends (`SpoiltStays`) and which the decoder refuses (`SpoiltFails`).

The exchange has `ExchangeInv`: what flies has as many qubits as were sent, and is
what was sent if nobody intercepted it; what is measured agrees with what flew where
the bases match.  Sifting is a loop that pushes positions, and the function `Sifted`
mirrors it: its positions are in bounds, increasing and those of equal bases, so that
the part compared and the part the key is cut from are disjoint, and on a clean
channel both ends read the same bits at them.

**KkSpongeProofs.**  `Holds(s, pos, f)` says that a sponge has absorbed exactly the bytes
`f`, `pos` of them in the current block.  Lemmas show what XORing bytes in, filling
a block and padding do to it (`HoldsXor`, `HoldsFull`, `PaddedRight`).  The invariant
has `HoldInv`, every sponge holds what its lane consumed; `EvenInv`, the lanes of a vector
MAC are to consume equally many bytes, without which the position of the first
lane would not be that of all; `WordInv`, the vector loop starts at a word boundary unless
the body is used up, without which the words XORed would not be the bytes
counted; and `PaddedInv`.  `AbsorbsWhatItConsumes` and `PaddedFormsDiffer` follow, the
latter because the domain byte is not empty and never has the terminator's bit.

`LanesSqueezeTheirOwn` needs `OutInv`: a lane has squeezed the first blocks of a
sponge of its own, each after as many permutations, the permutation before the next
block is made exactly if there is a next block, and a vector squeeze keeps the lanes
at one block.  The last part is what makes the vector form equal the scalar one
although it looks at the first lane only.  `LanesConsumeTheirMessage` needs
`MessageInv`: what was consumed, followed by what the scalar loop has left, is the
lane's message, or in a vector MAC the slices before the body and as much of the body
as the vector loop's offset says.  It is an equation between concatenations, so that
each step moves bytes from one side of it to the other (`CutSlice`, `Associative`).
`LanesAbsorbTheirMessage` joins it to `AbsorbsWhatItConsumes`: what a sponge permuted
in is a function of its lane's message and domain, and not of the function that
absorbed it.

## 6. Only model-checked

* Liveness (`PacketsArrive`, `PoolOpens`, `RefilledWhenEmpty`, `WorkerStops`,
  `Finishes`) and the absence of deadlock: fairness and ENABLED are out of the
  prover's reach.

Every safety and action property of a passing run is a theorem.  What a run adds
to it is that the model reaches the cases the property is about, and that each
property notices a plausible bug.

## 7. Not modelled

* The strength of the primitives.  Hash, MAC and KDF are injective symbols outside
  `KkPermutation`; so is the privacy amplification of `distill_key`.
* Wire formats other than those of the codec's packets: parsing errors have no
  effect on any state and are left out; a corrupted message is one that still parses.
* Packets composed by somebody who moves bytes from one field to another.  `commit` and
  `commit_aead` share a key and mark no form (temporal.rs:96-101, 150-158), and the
  model's commitments do not either; the packets it hands to the other form's decoder
  have their fields as they were sent.
* The values of bytes that are read as a length, after a length that wrapped: the
  parse is taken to fail there, where in the code it fails then or its result does not
  verify.
* A caller of `verify_bound` that does not retire nonces or keep the last MAC: the
  documented caller (temporal.rs:381-383) is part of `DecodeBound`, and the properties
  of `BoundProof` are those of the two together.
* Zeroization, constant-time comparison, and overflow of the session's 64-bit
  counter.
* Threads in two CUDA calls at once.  Nothing keeps them apart, although
  `CudaAccelerator` is declared `Send` and `Sync`: a data race on the globals, for
  which the model has no outcome to check.  Results of `cudaMemcpy` are not
  read by the code; the model takes copies to succeed.
* The calls of `wgpu` (device, queue, mapping): every batch makes buffers of its own
  and waits for them.  The shader itself is in `KkPermutation`.
* `draw` while the mutex is poisoned: no code panics while it holds it.
* The commitment test of `process_msg3` is modelled as in the code; no
  property depends on it, since the tag already covers Alice's entropy.
* `kk_mac_batch_8`, which nothing calls beside its multipart form; the batch of
  eight of `derive_symbol_key` in the permutation's terms: `Codec` takes it as eight
  single derivations, which `KkSponge` justifies.
* The command-line tool, the crate root and the error type hold no state.  The
  programs in `src/examples` analyse the permutation statistically and are no part of
  the library.

## 8. Findings

Two disagreements between code and documentation are violated runs.

`permutation_devices`: the CUDA kernel and the WGSL shader do not compute the CPU's
permutation, though cuda.rs:189 and gpu.rs:337 promise the same output as `kk_kdf` and
the integration tests compare them.  Both leave out the last XOR of `mfr` with `b`
(kk_permute.cu:45-49, kk_permute.wgsl:116-122), choose the rotation of `ddr` by
folding instead of by the product with `DDR_MIX` (cu:53-55, wgsl:127-128), and
take the diagonals without the rotation by one place (cu:23-29, wgsl:193-199).
`permutation_lanes` shows the two kernels equal to each other.

`codec_chunks`: codec.rs:828-830 says that the Merkle root binds the chunk commitments
"so that no chunk can be reordered, removed, or replaced without detection".  The root
is a hash without a key of commitments that are in the packet (lines 844-850), the
packet brings its own root (917-920), and no commitment covers the index of its chunk
(1146-1162): chunks in another order or number decode under the root that belongs to
them.  `DecodesOnlySealed` states what does hold: under the root that was sent, the
message or an error; under another root, what each chunk was sealed from, in the order
of arrival.

Three more are read off the code, and the properties of the runs say where the documented
behaviour holds and where it ends.

* cuda.rs:189 promises the output of `kk_kdf` without a condition, and `kk_kdf_batch` has
  no error to return.  After a failed allocation or kernel `permute_batch_persistent`
  returns silently (lines 170-172), and the next block is read from states that were
  not permuted: blocks repeat.  `StatesMoveTogether` demands the documented blocks only
  as long as nothing has failed, and of every call that its lanes stay in step.
* The table of properties in temporal.rs says that the clock is checked by
  `|now - ε.timestamp| < max_drift` (line 30); `verify_bound` rejects only drifts above
  the tolerance (line 405) and so accepts one that equals it, as its own doc says (line
  378).  `PromptIsVerified` is about drifts below it, on which both agree, and
  `AcceptedRecent` includes it.
* `EntropyPool::new` documents a pool "that holds up to `capacity`" snapshots and a wait
  for "8 snapshots (or `capacity`, whichever is smaller)" (entropy_pool.rs:58-61); it
  raises every smaller request to 8 (line 67), and so holds and waits for 8.  The run
  `pool_safety` has such a request.

Noticed on the way, of no consequence to a run: the comment on the default
rotations (kk_mix.rs:115) does not hold for the pair 13, 29; `diag_idx` of the shader
(wgsl:180-184) is unused and disagrees with its comment; the comment at cu:234
says the buffers are freed at the exit of the process, while they are freed with
every handle that is dropped; after a failed second allocation cu:258 frees `g_d_states`
and keeps the pointer, which cu:251 or cu:281 frees again: an error that nobody reads,
since the buffer is never in use by then (`DeviceMemorySafe`).

## 9. Plan

Done: session, entropy pool, key agreement, bound proofs, generators, permutation,
sponge, codec, exchange, CUDA buffers; every safety and action property of the
runs is proved.  What is left, by weight:

1. Composition: `EkaHandshake` feeding `RopeSession`, so that two sessions agree on
   their root exactly if their handshake did; sessions and codec calls drawing from
   `EntropyPool` instead of a set.
2. The host side of `gpu.rs`: failing devices and mapped buffers, as `CudaBuffers` has them
   for CUDA.

## 10. How to run

    tlc -workers 2 -config MCRopeSession_faults.cfg MCRopeSession
    tlapm RopeSessionProofs.tla

and likewise for the other pairs in `PROJECT.json`.
