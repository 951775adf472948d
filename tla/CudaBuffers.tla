----------------------------- MODULE CudaBuffers -----------------------------
(* The CUDA backend of src/cuda.rs and the host side of src/kk_permute.cu:   *)
(* the two device buffers that all handles share through globals, batches    *)
(* with buffers of their own, and the squeeze loop that drives them, when    *)
(* allocations and kernels may fail.                                         *)
(*                                                                           *)
(* Calls are taken one at a time: nothing in the code allows two.  A state   *)
(* is the number of times it was permuted in the call.                       *)
EXTENDS Integers, Sequences

CONSTANTS
    Handles,    \* values of CudaAccelerator
    Addresses,  \* of device memory
    Null,
    RotWords,   \* 30
    BatchSizes, \* numbers of states of a call
    MaxBlocks,  \* bound on the blocks that a KDF call squeezes
    MaxCalls    \* bound on the calls

ASSUME CudaAssumption ==
    /\ Null \notin Addresses
    /\ RotWords \in Nat \ {0}
    /\ BatchSizes \subseteq Nat \ {0}
    /\ MaxBlocks \in Nat \ {0} /\ MaxCalls \in Nat

VARIABLES
    open,      \* the handles in use
    memory,    \* per device address, the words allocated there, 0 when free
    states,    \* g_d_states
    rotations, \* g_d_rotations
    capacity,  \* g_capacity
    call,      \* the call being executed: kind, n, blocks
    pc,        \* where it is; "idle" between calls
    local,     \* the buffers of its own of permute_batch
    flat,      \* the states, in host memory
    device,    \* and in device memory
    out,       \* the blocks squeezed, each with the states it was read from
    good,      \* history: permutations that succeeded in the call
    failed,    \* history: some permutation of the call failed
    calls      \* calls made, for the bound

cvars == <<open, memory, states, rotations, capacity, call, pc, local, flat, device,
          out, good, failed, calls>>
buffers == <<memory, states, rotations, capacity, local>>
data == <<flat, device, out, good, failed>>

Kinds == {"fresh", "persistent", "kdf"}
NoCall == [kind |-> "fresh", n |-> 0, blocks |-> 0]
NoBuffers == [s |-> Null, r |-> Null]

CudaInit ==
    /\ open = {}
    /\ memory = [a \in Addresses |-> 0]
    /\ states = Null /\ rotations = Null /\ capacity = 0
    /\ call = NoCall /\ pc = "idle" /\ local = NoBuffers
    /\ flat = <<>> /\ device = <<>> /\ out = <<>>
    /\ good = 0 /\ failed = FALSE /\ calls = 0

STATE_WORDS == 25

\* The words of a batch of n states.
Need(n) == n * STATE_WORDS

\* cudaFree of what is not allocated reports an error that nobody reads.
Freed(m, ptrs) == [a \in Addresses |-> IF a \in ptrs THEN 0 ELSE m[a]]

Fresh == call.kind = "fresh"
Used == IF Fresh THEN local ELSE [s |-> states, r |-> rotations]

-----------------------------------------------------------------------------
(* Handles *)

\* CudaAccelerator::new with a device present.
New(h) ==
    /\ pc = "idle" /\ h \notin open
    /\ open' = open \cup {h}
    /\ UNCHANGED <<call, pc, calls>> /\ UNCHANGED buffers /\ UNCHANGED data

\* Mutant of Released: the capacity is left as it was.
ReleasedKeepsCapacity ==
    /\ memory' = Freed(memory, {states, rotations})
    /\ states' = Null /\ rotations' = Null /\ UNCHANGED capacity

\* kk_cuda_free_persistent
Released ==
    /\ memory' = Freed(memory, {states, rotations})
    /\ states' = Null /\ rotations' = Null /\ capacity' = 0

FreePersistent(h) ==
    /\ pc = "idle" /\ h \in open
    /\ Released
    /\ UNCHANGED <<open, call, pc, local, calls>> /\ UNCHANGED data

\* Dropping a handle releases the buffers of all.
DropHandle(h) ==
    /\ pc = "idle" /\ h \in open
    /\ open' = open \ {h}
    /\ Released
    /\ UNCHANGED <<call, pc, local, calls>> /\ UNCHANGED data

\* Through any handle: all of them reach the same globals.
Call ==
    /\ pc = "idle" /\ open # {} /\ calls < MaxCalls
    /\ calls' = calls + 1
    /\ \E kind \in Kinds, n \in BatchSizes, blocks \in 1..MaxBlocks :
         /\ call' = [kind |-> kind, n |-> n, blocks |-> IF kind = "kdf" THEN blocks ELSE 0]
         /\ pc' = IF kind = "kdf" THEN "read" ELSE "reserve"
         /\ flat' = [i \in 1..n |-> 0]
    /\ device' = <<>> /\ out' = <<>> /\ good' = 0 /\ failed' = FALSE
    /\ UNCHANGED open /\ UNCHANGED buffers

-----------------------------------------------------------------------------
(* kk_cuda_permute_batch and kk_cuda_permute_batch_persistent *)

Fits == Need(call.n) <= capacity

\* The persistent form frees both buffers before it has the new ones, and
\* leaves the pointers as they are.
Reserve ==
    /\ pc = "reserve"
    /\ IF Fresh \/ ~Fits
       THEN /\ pc' = "states"
            /\ memory' = IF Fresh THEN memory ELSE Freed(memory, {states, rotations})
       ELSE pc' = "copyin" /\ UNCHANGED memory
    /\ UNCHANGED <<open, call, calls, states, rotations, capacity, local>> /\ UNCHANGED data

Allocated(m, a, words) == [b \in Addresses |-> IF b = a THEN words ELSE m[b]]

MallocStates ==
    /\ pc = "states" /\ pc' = "rotations"
    /\ \E a \in {a \in Addresses : memory[a] = 0} :
         /\ memory' = Allocated(memory, a, Need(call.n))
         /\ IF Fresh THEN local' = [s |-> a, r |-> Null] /\ UNCHANGED states
                     ELSE states' = a /\ UNCHANGED local
    /\ UNCHANGED <<open, call, calls, rotations, capacity>> /\ UNCHANGED data

\* -1.  What a failed cudaMalloc leaves in the pointer is up to the runtime.
MallocStatesFails ==
    /\ pc = "states" /\ pc' = "failed"
    /\ IF Fresh THEN UNCHANGED <<states, capacity>>
                ELSE states' \in {states, Null} /\ capacity' = 0
    /\ UNCHANGED <<open, call, calls, memory, rotations, local>> /\ UNCHANGED data

MallocRotations ==
    /\ pc = "rotations" /\ pc' = "copyin"
    /\ \E a \in {a \in Addresses : memory[a] = 0} :
         /\ memory' = Allocated(memory, a, RotWords)
         /\ IF Fresh THEN local' = [s |-> local.s, r |-> a] /\ UNCHANGED <<rotations, capacity>>
                     ELSE rotations' = a /\ capacity' = Need(call.n) /\ UNCHANGED local
    /\ UNCHANGED <<open, call, calls, states>> /\ UNCHANGED data

\* -2
MallocRotationsFails ==
    /\ pc = "rotations" /\ pc' = "failed"
    /\ memory' = Freed(memory, {Used.s})
    /\ IF Fresh THEN local' = NoBuffers /\ UNCHANGED <<rotations, capacity>>
                ELSE rotations' \in {rotations, Null} /\ capacity' = 0 /\ UNCHANGED local
    /\ UNCHANGED <<open, call, calls, states>> /\ UNCHANGED data

CopyIn ==
    /\ pc = "copyin" /\ pc' = "kernel"
    /\ device' = flat
    /\ UNCHANGED <<open, call, calls, flat, out, good, failed>> /\ UNCHANGED buffers

Permuted(d) == [i \in DOMAIN d |-> d[i] + 1]

Kernel ==
    /\ pc = "kernel" /\ pc' = "copyout"
    /\ device' = Permuted(device)
    /\ UNCHANGED <<open, call, calls, flat, out, good, failed>> /\ UNCHANGED buffers

LeavesLocal == /\ memory' = Freed(memory, {local.s, local.r})
               /\ local' = NoBuffers
               /\ UNCHANGED <<states, rotations, capacity>>

\* Mutant of KernelFailed: the states are copied back before the error is seen.
KernelFailedCopies == flat' = device'

\* The host's states stay as they are.
KernelFailed == UNCHANGED flat

\* -3: only some threads of the grid have run.
KernelFails ==
    /\ pc = "kernel" /\ pc' = "failed"
    /\ device' \in {[i \in DOMAIN device |-> device[i] + (IF i \in ran THEN 1 ELSE 0)] :
                        ran \in SUBSET DOMAIN device}
    /\ KernelFailed
    /\ IF Fresh THEN LeavesLocal ELSE UNCHANGED buffers
    /\ UNCHANGED <<open, call, calls, out, good, failed>>

CopyOut ==
    /\ pc = "copyout" /\ pc' = "done"
    /\ flat' = device
    /\ good' = good + 1
    /\ IF Fresh THEN LeavesLocal ELSE UNCHANGED buffers
    /\ UNCHANGED <<open, call, calls, device, out, failed>>

-----------------------------------------------------------------------------
(* Back in Rust *)

\* permute_batch and permute_batch_persistent return silently after a failure;
\* the squeeze loop of kk_kdf_batch goes on to the next block either way.
Back ==
    /\ pc \in {"done", "failed"}
    /\ failed' = (failed \/ pc = "failed")
    /\ pc' = IF call.kind = "kdf" THEN "read" ELSE "idle"
    /\ UNCHANGED <<open, call, calls, flat, device, out, good>> /\ UNCHANGED buffers

\* kk_kdf_batch: the rate of every state, then a permutation if more is needed.
ReadBlock ==
    /\ pc = "read"
    /\ out' = Append(out, flat)
    /\ pc' = IF Len(out) + 1 < call.blocks THEN "reserve" ELSE "idle"
    /\ UNCHANGED <<open, call, calls, flat, device, good, failed>> /\ UNCHANGED buffers

\* All the calls of the bound are made and the handles are gone.
Stopped == pc = "idle" /\ calls = MaxCalls /\ UNCHANGED cvars

CudaNext ==
    \/ \E h \in Handles : New(h) \/ FreePersistent(h) \/ DropHandle(h)
    \/ Call \/ Reserve \/ MallocStates \/ MallocStatesFails
    \/ MallocRotations \/ MallocRotationsFails
    \/ CopyIn \/ Kernel \/ KernelFails \/ CopyOut \/ Back \/ ReadBlock \/ Stopped

CudaSpec == CudaInit /\ [][CudaNext]_cvars
-----------------------------------------------------------------------------
(* Properties *)

\* Copies and kernels only touch buffers that are allocated, apart from each
\* other, and large enough, whatever was freed, dropped or failed before; and
\* between calls exactly the persistent buffers are allocated, none of them
\* once the last handle is gone (kk_permute.cu:188-284).
BuffersLive ==
    /\ pc \in {"copyin", "kernel", "copyout"} =>
         /\ Used.s \in Addresses /\ Used.r \in Addresses /\ Used.s # Used.r
         /\ memory[Used.s] >= Need(call.n) /\ memory[Used.r] >= RotWords
    /\ pc = "idle" =>
         {a \in Addresses : memory[a] # 0} = IF capacity = 0 THEN {} ELSE {states, rotations}
    /\ pc = "idle" /\ open = {} => \A a \in Addresses : memory[a] = 0

\* The states of a batch are permuted together or not at all ("no partial
\* mutation", cuda.rs:127), and as long as nothing fails block k of every
\* lane is read after k permutations.  The documentation has no such condition
\* ("the same output as calling kk_kdf()", cuda.rs:189): after a failure blocks
\* repeat, in all lanes alike.
StatesMoveTogether ==
    /\ \A i \in DOMAIN flat : flat[i] = good
    /\ ~failed => \A k \in DOMAIN out : \A i \in DOMAIN out[k] : out[k][i] = k - 1
    /\ \A k \in DOMAIN out : \A i, j \in DOMAIN out[k] : out[k][i] = out[k][j]
=============================================================================
