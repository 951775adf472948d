------------------------------ MODULE RngPool ------------------------------
(***************************************************************************)
(* The random generator and the pool of generators (rng.rs).  Threads      *)
(* share a pool: each generator is under a mutex of its own, an atomic     *)
(* counter deals the calls of next_bytes to the generators in turn, and    *)
(* fill_bytes_parallel gives each generator a piece of the buffer, as one  *)
(* task per piece.  Each thread also has a KkRng to itself, the only kind  *)
(* that can be reseeded.                                                   *)
(*                                                                         *)
(* kk_kdf and kk_hash are injective symbols: the state of a generator is   *)
(* its seed with everything it was ratcheted and reseeded with since.      *)
(***************************************************************************)
EXTENDS Integers, Sequences

CONSTANTS
    Threads,    \* the callers
    NoThread,   \* the holder of a mutex that is free
    None,       \* for a generator for which a call has no task
    N,          \* num_generators
    Lengths,    \* how many bytes are asked for
    Seeds,      \* what reseed is given
    NextSize,   \* the atomic counter wraps at this (2^64 in the code)
    CountSize,  \* so does the counter of a generator
    MaxCalls    \* bound on the number of calls

ASSUME RngAssumption ==
    /\ N \in Nat \ {0} /\ NextSize \in Nat \ {0} /\ CountSize \in Nat \ {0}
    /\ MaxCalls \in Nat
    /\ Lengths \subseteq Nat
    /\ NoThread \notin Threads
    /\ \A t \in Threads : t \notin 0 .. N - 1

Gens == 0 .. N - 1

(* A generator's state and counter, and a block that one of them produced. *)
Input     == [counter : -1 .. CountSize - 1, input : Nat \cup Seeds]
Generator == [root : Gens \cup Threads, past : Seq(Input), counter : 0 .. CountSize - 1]
Output    == [root : Gens \cup Threads, past : Seq(Input),
              counter : 0 .. CountSize - 1, len : Nat]

ASSUME NoneAssumption == None \notin Nat /\ None \notin Output

VARIABLES
    next,    \* KkRngPool.next
    gens,    \* the pool's generators
    lock,    \* per generator, the thread that holds its mutex
    own,     \* per thread, the KkRng it has to itself
    call,    \* per thread, the call of the pool it is in
    calls,   \* the number of calls made so far
    given    \* history: the blocks produced, in order

vars == <<next, gens, lock, own, call, calls, given>>

-----------------------------------------------------------------------------
(* KkRng *)

(* KkRng::new; "root" stands for kk_hash of a seed that nobody else uses. *)
Fresh(root) == [root |-> root, past |-> << >>, counter |-> 0]

(* What a generator produces: bytes that its state and counter determine. *)
Block(g, len) == [root |-> g.root, past |-> g.past, counter |-> g.counter, len |-> len]

(* next_bytes: the end of the derived material is the new state. *)
Ratcheted(g, len) ==
    [root    |-> g.root,
     past    |-> Append(g.past, [counter |-> g.counter, input |-> len]),
     counter |-> (g.counter + 1) % CountSize]

(* reseed: the state is hashed with the new seed, the counter starts over. *)
Reseeded(g, seed) ==
    [root    |-> g.root,
     past    |-> Append(g.past, [counter |-> -1, input |-> seed]),
     counter |-> 0]

-----------------------------------------------------------------------------
(* How calls are cut into tasks *)

(* dest.len().div_ceil(n) *)
ChunkSize(len) == (len + N - 1) \div N

(* dest.chunks_mut(chunk_size): piece i, for generators[i], has the bytes  *)
(* from i * chunk_size on, and the last piece may be shorter.              *)
Pieces(len) ==
    [i \in {j \in 0 .. len - 1 : j * ChunkSize(len) < len} |->
        IF len - i * ChunkSize(len) < ChunkSize(len)
        THEN len - i * ChunkSize(len) ELSE ChunkSize(len)]

(* fetch_add(1): the turn goes to generator k % N, and the counter wraps. *)
Advanced(k) == (k + 1) % NextSize
Chosen(k)   == k % N

(* A thread that is not inside the pool has no task. *)
NoTasks == [i \in Gens |-> None]
NoCall  == [len |-> 0, sizes |-> NoTasks, derived |-> NoTasks, done |-> NoTasks,
            start |-> NoTasks, alone |-> TRUE]

Tasks(f)  == {i \in Gens : f[i] # None}
Active(t) == Tasks(call[t].sizes) # {}

(* Thread t asks for len bytes and enters with the tasks "sizes".  "start" *)
(* and "alone" are history: the generators at that moment, and whether no  *)
(* other call has overlapped with this one.                                *)
Enter(t, len, sizes) ==
    /\ ~ Active(t) /\ calls < MaxCalls
    /\ calls' = calls + 1
    /\ call' = [s \in Threads |->
          IF s = t
          THEN [NoCall EXCEPT !.len = len, !.sizes = sizes, !.start = gens,
                              !.alone = \A u \in Threads : ~ Active(u)]
          ELSE IF Active(s) THEN [call[s] EXCEPT !.alone = FALSE] ELSE call[s]]

-----------------------------------------------------------------------------
(* KkRngPool *)

(* next_bytes takes its turn. *)
CallNext(t, len) ==
    /\ Enter(t, len, [NoTasks EXCEPT ![Chosen(next)] = len])
    /\ next' = Advanced(next)
    /\ UNCHANGED <<gens, lock, own, given>>

(* fill_bytes_parallel; an empty buffer is left alone. *)
CallFill(t, len) ==
    /\ len # 0
    /\ Enter(t, len, [i \in Gens |-> IF i \in DOMAIN Pieces(len) THEN Pieces(len)[i] ELSE None])
    /\ UNCHANGED <<next, gens, lock, own, given>>

(* Mutant of Free: the mutex is not waited for. *)
FreeAlways(i) == TRUE

Free(i) == lock[i] = NoThread

(* A task gets its mutex and derives output and new state in one kk_kdf. *)
Derive(t, i) ==
    /\ i \in Tasks(call[t].sizes)
    /\ i \notin Tasks(call[t].derived) \cup Tasks(call[t].done)
    /\ Free(i)
    /\ lock' = [lock EXCEPT ![i] = t]
    /\ call' = [call EXCEPT ![t].derived[i] = gens[i]]
    /\ UNCHANGED <<next, gens, own, calls, given>>

(* Mutant of Ratchet: the output is taken after the state has moved on. *)
RatchetSwapped(t, i) ==
    /\ i \in Tasks(call[t].derived)
    /\ LET len == call[t].sizes[i]
           g   == Ratcheted(call[t].derived[i], len)
       IN  /\ gens' = [gens EXCEPT ![i] = g]
           /\ given' = Append(given, Block(g, len))
           /\ call' = [call EXCEPT ![t].derived[i] = None, ![t].done[i] = Block(g, len)]
    /\ lock' = [lock EXCEPT ![i] = NoThread]
    /\ UNCHANGED <<next, own, calls>>

(* It splits what it derived, moves the generator on and lets go of it. *)
Ratchet(t, i) ==
    /\ i \in Tasks(call[t].derived)
    /\ LET g   == call[t].derived[i]
           len == call[t].sizes[i]
       IN  /\ gens' = [gens EXCEPT ![i] = Ratcheted(g, len)]
           /\ given' = Append(given, Block(g, len))
           /\ call' = [call EXCEPT ![t].derived[i] = None, ![t].done[i] = Block(g, len)]
    /\ lock' = [lock EXCEPT ![i] = NoThread]
    /\ UNCHANGED <<next, own, calls>>

(* The call returns when each of its tasks is done. *)
Return(t) ==
    /\ Active(t) /\ Tasks(call[t].done) = Tasks(call[t].sizes)
    /\ call' = [call EXCEPT ![t] = NoCall]
    /\ UNCHANGED <<next, gens, lock, own, calls, given>>

-----------------------------------------------------------------------------
(* The generator that a thread has to itself *)

OwnNext(t, len) ==
    /\ ~ Active(t) /\ calls < MaxCalls
    /\ calls' = calls + 1
    /\ given' = Append(given, Block(own[t], len))
    /\ own' = [own EXCEPT ![t] = Ratcheted(@, len)]
    /\ UNCHANGED <<next, gens, lock, call>>

OwnReseed(t, seed) ==
    /\ ~ Active(t) /\ calls < MaxCalls
    /\ calls' = calls + 1
    /\ own' = [own EXCEPT ![t] = Reseeded(@, seed)]
    /\ UNCHANGED <<next, gens, lock, call, given>>

-----------------------------------------------------------------------------
Init ==
    /\ next = 0
    /\ gens = [i \in Gens |-> Fresh(i)]
    /\ lock = [i \in Gens |-> NoThread]
    /\ own = [t \in Threads |-> Fresh(t)]
    /\ call = [t \in Threads |-> NoCall]
    /\ calls = 0
    /\ given = << >>

(* All calls that the bound allows were made and have returned. *)
Finished ==
    /\ calls = MaxCalls /\ \A t \in Threads : ~ Active(t)
    /\ UNCHANGED vars

Next ==
    \/ \E t \in Threads, len \in Lengths :
          CallNext(t, len) \/ CallFill(t, len) \/ OwnNext(t, len)
    \/ \E t \in Threads, i \in Gens : Derive(t, i) \/ Ratchet(t, i)
    \/ \E t \in Threads : Return(t) \/ \E s \in Seeds : OwnReseed(t, s)
    \/ Finished

Spec == Init /\ [][Next]_vars

-----------------------------------------------------------------------------
(* Properties *)

Call == [len : Nat, sizes : [Gens -> Nat \cup {None}],
         derived : [Gens -> Generator \cup {None}], done : [Gens -> Output \cup {None}],
         start : [Gens -> Generator \cup {None}], alone : BOOLEAN]

(* Every variable has its type. *)
TypeOK ==
    /\ next \in 0 .. NextSize - 1
    /\ gens \in [Gens -> Generator] /\ own \in [Threads -> Generator]
    /\ lock \in [Gens -> Threads \cup {NoThread}]
    /\ call \in [Threads -> Call]
    /\ calls \in 0 .. MaxCalls
    /\ given \in Seq(Output)

(* No output twice: however the calls interleave, whatever is reseeded     *)
(* with what, and when a counter has wrapped around, no two blocks are     *)
(* derived from one state.                                                 *)
NeverRepeats ==
    \A j, k \in 1 .. Len(given) :
        /\ given[j].root = given[k].root
        /\ given[j].past = given[k].past
        /\ given[j].counter = given[k].counter
        => j = k

(* Determinism ("deterministic for a given seed and dest.len() (assuming   *)
(* no other concurrent calls", rng.rs:203): a call that no other overlaps  *)
(* returns what the generators it began with determine, in whatever order  *)
(* its tasks ran.                                                          *)
Deterministic ==
    \A t \in Threads :
        call[t].alone => \A i \in Tasks(call[t].done) :
            call[t].done[i] = Block(call[t].start[i], call[t].sizes[i])
=============================================================================
