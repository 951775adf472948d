--------------------------- MODULE RngPoolProofs ---------------------------
(* Theorems about RngPool, for every value of its constants. *)
EXTENDS RngPool, TLAPS

-----------------------------------------------------------------------------
(* The inductive invariant *)

(* A task that has derived holds the mutex, and what it derived from is    *)
(* still the generator.                                                    *)
LockInv ==
    \A t \in Threads : \A i \in Tasks(call[t].derived) :
        /\ i \in Tasks(call[t].sizes)
        /\ lock[i] = t
        /\ call[t].derived[i] = gens[i]

(* A task is in one place at a time. *)
TaskInv ==
    \A t \in Threads :
        /\ Tasks(call[t].derived) \subseteq Tasks(call[t].sizes)
        /\ Tasks(call[t].done) \subseteq Tasks(call[t].sizes)
        /\ Tasks(call[t].derived) \cap Tasks(call[t].done) = {}

(* While a call is alone nobody else is in the pool, and the generators    *)
(* whose tasks are not done are as it found them.                          *)
AloneInv ==
    \A t \in Threads : call[t].alone /\ Active(t) =>
        /\ \A u \in Threads \ {t} : ~ Active(u)
        /\ \A i \in Gens \ Tasks(call[t].done) : gens[i] = call[t].start[i]

(* No generator takes another's place. *)
RootInv ==
    /\ \A i \in Gens : gens[i].root = i
    /\ \A t \in Threads : own[t].root = t

(* Every block was derived from a state its generator has left behind. *)
GivenInv ==
    \A k \in 1 .. Len(given) :
        /\ given[k].root \in Gens => Len(given[k].past) < Len(gens[given[k].root].past)
        /\ given[k].root \in Threads => Len(given[k].past) < Len(own[given[k].root].past)

CallInv == LockInv /\ TaskInv /\ AloneInv /\ Deterministic

PastInv == RootInv /\ GivenInv /\ NeverRepeats

IInv == TypeOK /\ CallInv /\ PastInv

-----------------------------------------------------------------------------
(* Lemmas about the operators *)

(* Rounding up, n pieces cover the buffer. *)
LEMMA ChunkCovers ==
    ASSUME NEW len \in Nat \ {0}
    PROVE  ChunkSize(len) \in Nat \ {0} /\ ChunkSize(len) * N >= len
<1> DEFINE q == (len + N - 1) \div N
           r == (len + N - 1) % N
<1>1. N \in Nat /\ N >= 1 /\ len \in Nat /\ len >= 1
  BY RngAssumption
<1>2. q \in Int /\ r \in 0 .. N - 1 /\ len + N - 1 = N * q + r
  BY <1>1
<1>3. N * q >= len
  BY <1>1, <1>2
<1>4. q >= 1
  BY <1>1, <1>2, <1>3
<1>5. q * N = N * q
  BY <1>1, <1>2
<1>6. QED
  BY <1>1, <1>2, <1>3, <1>4, <1>5 DEF ChunkSize

(* Every position lies in the piece that its quotient names. *)
LEMMA PieceOfByte ==
    ASSUME NEW b \in Nat, NEW c \in Nat \ {0}
    PROVE  \E q \in Nat : q * c <= b /\ b < q * c + c /\ q <= b
<1> DEFINE q == b \div c
           r == b % c
<1>1. q \in Int /\ r \in 0 .. c - 1 /\ b = c * q + r
  OBVIOUS
<1>2. q \in Nat
  BY <1>1
<1>3. c * q = q * c /\ q * c \in Nat /\ q <= q * c
  BY <1>1, <1>2
<1>4. q * c <= b /\ b < q * c + c /\ q <= b
  BY <1>1, <1>2, <1>3
<1> HIDE DEF q
<1>5. QED
  BY <1>2, <1>4

(* So the pieces have the indices of generators. *)
LEMMA PiecesType ==
    ASSUME NEW len \in Nat \ {0}
    PROVE  /\ DOMAIN Pieces(len) \subseteq Gens
           /\ \A i \in DOMAIN Pieces(len) : Pieces(len)[i] \in Nat
<1> DEFINE c == ChunkSize(len)
           S == {j \in 0 .. len - 1 : j * c < len}
<1>1. c \in Nat /\ c >= 1 /\ c * N >= len /\ len \in Nat /\ N \in Nat /\ N >= 1
  BY ChunkCovers, RngAssumption
<1>2. ASSUME NEW j \in S  PROVE j \in Gens
  <2>1. j \in Nat /\ j * c < len
    OBVIOUS
  <2>2. CASE j >= N
    <3>1. j * c >= N * c
      BY <1>1, <2>1, <2>2
    <3>2. N * c = c * N
      BY <1>1
    <3>3. QED
      BY <1>1, <2>1, <3>1, <3>2
  <2>3. QED
    BY <1>1, <2>1, <2>2 DEF Gens
<1>3. ASSUME NEW j \in S  PROVE (IF len - j * c < c THEN len - j * c ELSE c) \in Nat
  <2>1. j \in Nat /\ j * c < len /\ j * c \in Nat
    BY <1>1
  <2>2. QED
    BY <1>1, <2>1
<1>4. Pieces(len) \in [S -> Nat]
  BY <1>3 DEF Pieces
<1>5. QED
  BY <1>2, <1>4

(* A thread is none of the generators. *)
LEMMA Disjoint == \A t \in Threads : t \notin Gens
  BY RngAssumption DEF Gens

(* What the operators on generators return. *)
LEMMA FreshType ==
    ASSUME NEW x \in Gens \cup Threads
    PROVE  Fresh(x) \in Generator
  BY RngAssumption DEF Fresh, Generator

LEMMA RatchetedType ==
    ASSUME NEW g \in Generator, NEW len \in Nat
    PROVE  /\ Ratcheted(g, len) \in Generator
           /\ Ratcheted(g, len).root = g.root
           /\ Len(Ratcheted(g, len).past) = Len(g.past) + 1
<1>1. /\ g.root \in Gens \cup Threads /\ g.past \in Seq(Input)
      /\ g.counter \in 0 .. CountSize - 1 /\ CountSize \in Nat \ {0}
  BY RngAssumption DEF Generator
<1>2. [counter |-> g.counter, input |-> len] \in Input
  BY <1>1 DEF Input
<1>3. (g.counter + 1) % CountSize \in 0 .. CountSize - 1
  BY <1>1
<1>4. QED
  BY <1>1, <1>2, <1>3 DEF Ratcheted, Generator

LEMMA ReseededType ==
    ASSUME NEW g \in Generator, NEW seed \in Seeds
    PROVE  /\ Reseeded(g, seed) \in Generator
           /\ Reseeded(g, seed).root = g.root
           /\ Len(Reseeded(g, seed).past) = Len(g.past) + 1
<1>1. /\ g.root \in Gens \cup Threads /\ g.past \in Seq(Input)
      /\ CountSize \in Nat \ {0}
  BY RngAssumption DEF Generator
<1>2. [counter |-> -1, input |-> seed] \in Input
  BY <1>1 DEF Input
<1>3. QED
  BY <1>1, <1>2 DEF Reseeded, Generator

LEMMA BlockType ==
    ASSUME NEW g \in Generator, NEW len \in Nat
    PROVE  /\ Block(g, len) \in Output
           /\ Block(g, len).root = g.root /\ Block(g, len).past = g.past
  BY DEF Block, Generator, Output
-----------------------------------------------------------------------------
(* Calls of the pool *)

(* A call that begins takes no mutex and ends the solitude of the others. *)
LEMMA EnterStep ==
    ASSUME TypeOK, CallInv,
           NEW t \in Threads, NEW len \in Nat, NEW sizes \in [Gens -> Nat \cup {None}],
           Enter(t, len, sizes), UNCHANGED <<gens, lock>>
    PROVE  call' \in [Threads -> Call] /\ calls' \in 0 .. MaxCalls /\ CallInv'
<1> DEFINE c == [len |-> len, sizes |-> sizes, derived |-> NoTasks, done |-> NoTasks,
                 start |-> gens, alone |-> \A u \in Threads : ~ Active(u)]
<1>1. /\ call'[t] = c
      /\ \A s \in Threads \ {t} :
            call'[s] = IF Active(s) THEN [call[s] EXCEPT !.alone = FALSE] ELSE call[s]
  BY DEF Enter, NoCall
<1>2. c \in Call
  <2>1. gens \in [Gens -> Generator \cup {None}]
    BY DEF TypeOK
  <2>2. NoTasks \in [Gens -> Generator \cup {None}] /\ NoTasks \in [Gens -> Output \cup {None}]
    BY DEF NoTasks
  <2>3. QED
    BY <2>1, <2>2 DEF Call
<1>3. ASSUME NEW s \in Threads \ {t}
      PROVE  /\ call'[s] \in Call
             /\ call'[s].sizes = call[s].sizes /\ call'[s].derived = call[s].derived
             /\ call'[s].done = call[s].done /\ call'[s].start = call[s].start
             /\ call'[s].alone => call[s].alone
             /\ Active(s) => ~ call'[s].alone
  <2>1. call[s] \in Call
    BY DEF TypeOK
  <2>2. CASE Active(s)
    <3>1. call'[s] = [call[s] EXCEPT !.alone = FALSE]
      BY <1>1, <2>2
    <3>2. QED
      BY <2>1, <3>1 DEF Call
  <2>3. CASE ~ Active(s)
    BY <1>1, <2>1, <2>3
  <2>4. QED
    BY <2>2, <2>3
<1>4. call' \in [Threads -> Call]
  <2>1. call' = [s \in Threads |-> call'[s]]
    BY DEF Enter
  <2>2. \A s \in Threads : call'[s] \in Call
    BY <1>1, <1>2, <1>3
  <2>3. QED
    BY <2>1, <2>2
<1>5. calls' \in 0 .. MaxCalls
  <2>1. calls < MaxCalls /\ calls' = calls + 1 /\ calls \in 0 .. MaxCalls
    BY DEF Enter, TypeOK
  <2>2. QED
    BY <2>1, RngAssumption
<1>6. Tasks(c.derived) = {} /\ Tasks(c.done) = {}
  BY DEF Tasks, NoTasks
<1>7. \A s \in Threads \ {t} : Active(s)' = Active(s)
  BY <1>3 DEF Active, Tasks
<1>8. LockInv'
  BY <1>1, <1>3, <1>6 DEF CallInv, LockInv, Tasks
<1>9. TaskInv'
  BY <1>1, <1>3, <1>6 DEF CallInv, TaskInv, Tasks
<1>10. AloneInv'
  <2>1. SUFFICES ASSUME NEW s \in Threads, call'[s].alone, Active(s)'
                 PROVE  /\ \A u \in Threads \ {s} : ~ Active(u)'
                        /\ \A i \in Gens \ Tasks(call'[s].done) :
                              gens'[i] = call'[s].start[i]
    BY DEF AloneInv, Tasks
  <2>2. CASE s = t
    BY <1>1, <1>7, <2>1, <2>2
  <2>3. CASE s # t
    BY <1>3, <1>7, <2>1, <2>3
  <2>4. QED
    BY <2>2, <2>3
<1>11. Deterministic'
  BY <1>1, <1>3, <1>6 DEF CallInv, Deterministic, Tasks, Block
<1>12. QED
  BY <1>4, <1>5, <1>8, <1>9, <1>10, <1>11 DEF CallInv

(* A task that derives takes a mutex that nobody has. *)
LEMMA DeriveStep ==
    ASSUME TypeOK, CallInv, NEW t \in Threads, NEW i \in Gens, Derive(t, i)
    PROVE  /\ call' \in [Threads -> Call]
           /\ lock' \in [Gens -> Threads \cup {NoThread}] /\ CallInv'
<1>1. /\ call[t] \in Call /\ gens[i] \in Generator
      /\ call'[t] = [call[t] EXCEPT !.derived = [call[t].derived EXCEPT ![i] = gens[i]]]
      /\ \A s \in Threads \ {t} : call'[s] = call[s]
      /\ call' = [s \in Threads |-> call'[s]]
  BY DEF Derive, TypeOK
<1>2. /\ call'[t].sizes = call[t].sizes /\ call'[t].done = call[t].done
      /\ call'[t].start = call[t].start /\ call'[t].alone = call[t].alone
      /\ call'[t].derived = [call[t].derived EXCEPT ![i] = gens[i]]
      /\ call'[t] \in Call
  BY <1>1 DEF Call
<1>3. call' \in [Threads -> Call]
  BY <1>1, <1>2 DEF TypeOK
<1>4. lock' \in [Gens -> Threads \cup {NoThread}]
  BY DEF Derive, TypeOK
<1>5. /\ \A j \in Gens \ {i} : call'[t].derived[j] = call[t].derived[j]
      /\ call'[t].derived[i] = gens[i]
      /\ \A j \in Gens \ {i} : lock'[j] = lock[j]
      /\ lock'[i] = t /\ lock[i] = NoThread /\ gens' = gens
  BY <1>1, <1>2 DEF Derive, Free, TypeOK, Call
<1>6. LockInv'
  <2>1. SUFFICES ASSUME NEW s \in Threads, NEW j \in Gens, call'[s].derived[j] # None
                 PROVE  /\ call'[s].sizes[j] # None /\ lock'[j] = s
                        /\ call'[s].derived[j] = gens'[j]
    BY DEF LockInv, Tasks
  <2>2. CASE s = t /\ j = i
    BY <1>2, <1>5, <2>2 DEF Derive, Tasks
  <2>3. CASE ~ (s = t /\ j = i)
    <3>1. call'[s].derived[j] = call[s].derived[j] /\ call'[s].sizes = call[s].sizes
      BY <1>1, <1>2, <1>5, <2>3
    <3>2. call[s].sizes[j] # None /\ lock[j] = s /\ call[s].derived[j] = gens[j]
      BY <2>1, <3>1 DEF CallInv, LockInv, Tasks
    <3>3. j # i
      BY <1>5, <3>2, RngAssumption
    <3>4. QED
      BY <1>5, <3>1, <3>2, <3>3
  <2>4. QED
    BY <2>2, <2>3
<1>7. TaskInv'
  <2>1. SUFFICES ASSUME NEW s \in Threads
                 PROVE  /\ Tasks(call'[s].derived) \subseteq Tasks(call'[s].sizes)
                        /\ Tasks(call'[s].done) \subseteq Tasks(call'[s].sizes)
                        /\ Tasks(call'[s].derived) \cap Tasks(call'[s].done) = {}
    BY DEF TaskInv, Tasks
  <2>2. /\ Tasks(call[s].derived) \subseteq Tasks(call[s].sizes)
        /\ Tasks(call[s].done) \subseteq Tasks(call[s].sizes)
        /\ Tasks(call[s].derived) \cap Tasks(call[s].done) = {}
    BY DEF CallInv, TaskInv
  <2>3. CASE s = t
    <3>1. /\ Tasks(call'[t].derived) \subseteq Tasks(call[t].derived) \cup {i}
          /\ i \in Tasks(call[t].sizes) /\ i \notin Tasks(call[t].done)
      BY <1>5 DEF Tasks, Derive
    <3>2. QED
      BY <1>2, <2>2, <2>3, <3>1
  <2>4. CASE s # t
    BY <1>1, <2>2, <2>4
  <2>5. QED
    BY <2>3, <2>4
<1>8. \A s \in Threads :
         /\ call'[s].sizes = call[s].sizes /\ call'[s].done = call[s].done
         /\ call'[s].start = call[s].start /\ call'[s].alone = call[s].alone
         /\ Active(s)' = Active(s)
  BY <1>1, <1>2 DEF Active, Tasks
<1>9. AloneInv'
  <2>1. SUFFICES ASSUME NEW s \in Threads, call'[s].alone, Active(s)'
                 PROVE  /\ \A u \in Threads \ {s} : ~ Active(u)'
                        /\ \A j \in Gens \ Tasks(call'[s].done) :
                              gens'[j] = call'[s].start[j]
    BY DEF AloneInv, Tasks
  <2>2. QED
    BY <1>5, <1>8, <2>1 DEF CallInv, AloneInv
<1>10. Deterministic'
  <2>1. SUFFICES ASSUME NEW s \in Threads, call'[s].alone, NEW j \in Tasks(call'[s].done)
                 PROVE  call'[s].done[j] = Block(call'[s].start[j], call'[s].sizes[j])
    BY DEF Deterministic, Tasks, Block
  <2>2. QED
    BY <1>8, <2>1 DEF CallInv, Deterministic
<1>11. QED
  BY <1>3, <1>4, <1>6, <1>7, <1>9, <1>10 DEF CallInv

(* The holder moves its generator on: nobody else was looking at it, and   *)
(* its own task began with the generator as the call found it.             *)
LEMMA RatchetCallStep ==
    ASSUME TypeOK, CallInv, NEW t \in Threads, NEW i \in Gens, Ratchet(t, i)
    PROVE  /\ call' \in [Threads -> Call]
           /\ lock' \in [Gens -> Threads \cup {NoThread}] /\ CallInv'
<1> DEFINE b == Block(gens[i], call[t].sizes[i])
<1>1. /\ call[t] \in Call /\ gens[i] \in Generator
      /\ call[t].derived[i] = gens[i] /\ lock[i] = t
      /\ call[t].sizes[i] \in Nat
      /\ i \in Tasks(call[t].derived) /\ i \in Tasks(call[t].sizes)
      /\ i \notin Tasks(call[t].done)
  BY DEF Ratchet, TypeOK, CallInv, LockInv, TaskInv, Tasks, Call
<1>2. /\ call' = [call EXCEPT ![t].derived[i] = None, ![t].done[i] = b]
      /\ lock' = [lock EXCEPT ![i] = NoThread]
      /\ gens' = [gens EXCEPT ![i] = Ratcheted(gens[i], call[t].sizes[i])]
  BY <1>1 DEF Ratchet
<1>3. b \in Output /\ b # None
  BY <1>1, BlockType, NoneAssumption
<1>4. /\ call'[t] = [call[t] EXCEPT !.derived = [call[t].derived EXCEPT ![i] = None],
                                    !.done = [call[t].done EXCEPT ![i] = b]]
      /\ \A s \in Threads \ {t} : call'[s] = call[s]
      /\ call' = [s \in Threads |-> call'[s]]
  BY <1>2 DEF TypeOK
<1>5. /\ call'[t].sizes = call[t].sizes /\ call'[t].start = call[t].start
      /\ call'[t].alone = call[t].alone
      /\ call'[t].derived = [call[t].derived EXCEPT ![i] = None]
      /\ call'[t].done = [call[t].done EXCEPT ![i] = b]
      /\ call'[t] \in Call
  <2> DEFINE d == [call[t].derived EXCEPT ![i] = None]
             e == [call[t].done EXCEPT ![i] = b]
  <2>1. d \in [Gens -> Generator \cup {None}] /\ e \in [Gens -> Output \cup {None}]
    BY <1>1, <1>3 DEF Call
  <2>2. call'[t] = [call[t] EXCEPT !.derived = d, !.done = e]
    BY <1>4
  <2> HIDE DEF d, e
  <2>3. /\ call'[t].sizes = call[t].sizes /\ call'[t].start = call[t].start
        /\ call'[t].alone = call[t].alone
        /\ call'[t].derived = d /\ call'[t].done = e
        /\ call'[t] \in Call
    BY <1>1, <2>1, <2>2 DEF Call
  <2>4. QED
    BY <2>3 DEF d, e
<1>6. call' \in [Threads -> Call]
  BY <1>4, <1>5 DEF TypeOK
<1>7. lock' \in [Gens -> Threads \cup {NoThread}]
  BY <1>2 DEF TypeOK
<1>8. /\ \A j \in Gens \ {i} : /\ call'[t].derived[j] = call[t].derived[j]
                               /\ call'[t].done[j] = call[t].done[j]
                               /\ lock'[j] = lock[j] /\ gens'[j] = gens[j]
      /\ call'[t].derived[i] = None /\ call'[t].done[i] = b
  BY <1>1, <1>2, <1>5 DEF TypeOK, Call
<1>9. /\ Tasks(call'[t].derived) = Tasks(call[t].derived) \ {i}
      /\ Tasks(call'[t].done) = Tasks(call[t].done) \cup {i}
  BY <1>3, <1>8 DEF Tasks
<1>10. \A s \in Threads : Active(s)' = Active(s)
  BY <1>4, <1>5 DEF Active, Tasks
<1>11. LockInv'
  <2>1. SUFFICES ASSUME NEW s \in Threads, NEW j \in Tasks(call'[s].derived)
                 PROVE  /\ j \in Tasks(call'[s].sizes) /\ lock'[j] = s
                        /\ call'[s].derived[j] = gens'[j]
    BY DEF LockInv, Tasks
  <2>2. j \in Gens /\ j \in Tasks(call[s].derived) /\ (s = t => j # i)
    BY <1>4, <1>9, <2>1 DEF Tasks
  <2>3. j \in Tasks(call[s].sizes) /\ lock[j] = s /\ call[s].derived[j] = gens[j]
    BY <2>2 DEF CallInv, LockInv
  <2>4. j # i
    BY <1>1, <2>2, <2>3
  <2>5. QED
    BY <1>4, <1>5, <1>8, <2>2, <2>3, <2>4
<1>12. TaskInv'
  <2>1. SUFFICES ASSUME NEW s \in Threads
                 PROVE  /\ Tasks(call'[s].derived) \subseteq Tasks(call'[s].sizes)
                        /\ Tasks(call'[s].done) \subseteq Tasks(call'[s].sizes)
                        /\ Tasks(call'[s].derived) \cap Tasks(call'[s].done) = {}
    BY DEF TaskInv, Tasks
  <2>2. /\ Tasks(call[s].derived) \subseteq Tasks(call[s].sizes)
        /\ Tasks(call[s].done) \subseteq Tasks(call[s].sizes)
        /\ Tasks(call[s].derived) \cap Tasks(call[s].done) = {}
    BY DEF CallInv, TaskInv
  <2>3. CASE s = t
    BY <1>1, <1>5, <1>9, <2>2, <2>3
  <2>4. CASE s # t
    BY <1>4, <2>2, <2>4
  <2>5. QED
    BY <2>3, <2>4
<1>13. AloneInv'
  <2>1. SUFFICES ASSUME NEW s \in Threads, call'[s].alone, Active(s)'
                 PROVE  /\ \A u \in Threads \ {s} : ~ Active(u)'
                        /\ \A j \in Gens \ Tasks(call'[s].done) :
                              gens'[j] = call'[s].start[j]
    BY DEF AloneInv, Tasks
  <2>2. /\ Active(s) /\ call[s].alone
        /\ \A u \in Threads \ {s} : ~ Active(u)
        /\ \A j \in Gens \ Tasks(call[s].done) : gens[j] = call[s].start[j]
    BY <1>4, <1>5, <1>10, <2>1 DEF CallInv, AloneInv
  <2>3. s = t
    BY <1>1, <2>2 DEF Active
  <2>4. QED
    BY <1>5, <1>8, <1>9, <1>10, <2>2, <2>3
<1>14. Deterministic'
  <2>1. SUFFICES ASSUME NEW s \in Threads, call'[s].alone, NEW j \in Tasks(call'[s].done)
                 PROVE  call'[s].done[j] = Block(call'[s].start[j], call'[s].sizes[j])
    BY DEF Deterministic, Tasks, Block
  <2>2. CASE s = t /\ j = i
    <3>1. Active(t) /\ call[t].alone
      BY <1>1, <1>5, <2>1, <2>2 DEF Active
    <3>2. gens[i] = call[t].start[i]
      BY <1>1, <3>1 DEF CallInv, AloneInv
    <3>3. QED
      BY <1>5, <1>8, <2>2, <3>2
  <2>3. CASE ~ (s = t /\ j = i)
    <3>1. j \in Tasks(call[s].done) /\ call[s].alone /\ call'[s].done[j] = call[s].done[j]
          /\ call'[s].start = call[s].start /\ call'[s].sizes = call[s].sizes
      BY <1>4, <1>5, <1>8, <1>9, <2>1, <2>3 DEF Tasks
    <3>2. QED
      BY <3>1 DEF CallInv, Deterministic
  <2>4. QED
    BY <2>2, <2>3
<1>15. QED
  BY <1>6, <1>7, <1>11, <1>12, <1>13, <1>14 DEF CallInv

(* A call that returns leaves nothing behind. *)
LEMMA ReturnStep ==
    ASSUME TypeOK, CallInv, NEW t \in Threads, Return(t)
    PROVE  call' \in [Threads -> Call] /\ CallInv'
<1>1. /\ call'[t] = NoCall /\ call' = [s \in Threads |-> call'[s]]
      /\ \A s \in Threads \ {t} : call'[s] = call[s]
      /\ lock' = lock /\ gens' = gens
  BY DEF Return, TypeOK
<1>2. /\ NoCall \in Call
      /\ Tasks(NoCall.sizes) = {} /\ Tasks(NoCall.derived) = {} /\ Tasks(NoCall.done) = {}
  BY DEF NoCall, NoTasks, Call, Tasks
<1>3. call' \in [Threads -> Call]
  BY <1>1, <1>2 DEF TypeOK
<1>4. ~ Active(t)' /\ \A s \in Threads \ {t} : Active(s)' = Active(s)
  BY <1>1, <1>2 DEF Active, Tasks
<1>5. LockInv'
  BY <1>1, <1>2 DEF CallInv, LockInv, Tasks
<1>6. TaskInv'
  BY <1>1, <1>2 DEF CallInv, TaskInv, Tasks
<1>7. AloneInv'
  BY <1>1, <1>2, <1>4 DEF CallInv, AloneInv, Tasks
<1>8. Deterministic'
  BY <1>1, <1>2 DEF CallInv, Deterministic, Tasks, Block
<1>9. QED
  BY <1>3, <1>5, <1>6, <1>7, <1>8 DEF CallInv

-----------------------------------------------------------------------------
(* What was produced *)

(* A block derived from the present state of a generator that then moves   *)
(* on is new, and its state is behind.                                     *)
LEMMA ProducedStep ==
    ASSUME TypeOK, PastInv, NEW len \in Nat, NEW r \in Gens \cup Threads,
           NEW g \in Generator, g = IF r \in Gens THEN gens[r] ELSE own[r],
           given' = Append(given, Block(g, len)),
           gens' = IF r \in Gens THEN [gens EXCEPT ![r] = Ratcheted(g, len)] ELSE gens,
           own' = IF r \in Gens THEN own ELSE [own EXCEPT ![r] = Ratcheted(g, len)]
    PROVE  /\ given' \in Seq(Output)
           /\ gens' \in [Gens -> Generator] /\ own' \in [Threads -> Generator]
           /\ PastInv'
<1>1. /\ Block(g, len) \in Output /\ Block(g, len).root = r /\ Block(g, len).past = g.past
      /\ Ratcheted(g, len) \in Generator /\ Ratcheted(g, len).root = r
      /\ Len(Ratcheted(g, len).past) = Len(g.past) + 1
      /\ g.past \in Seq(Input)
  BY BlockType, RatchetedType DEF PastInv, RootInv, Generator
<1>2. given' \in Seq(Output) /\ gens' \in [Gens -> Generator] /\ own' \in [Threads -> Generator]
  BY <1>1 DEF TypeOK
<1>3. /\ Len(given') = Len(given) + 1 /\ Len(given) \in Nat
      /\ given'[Len(given) + 1] = Block(g, len)
      /\ \A k \in 1 .. Len(given) : given'[k] = given[k] /\ given[k] \in Output
  BY <1>1 DEF TypeOK
<1>4. RootInv'
  BY <1>1 DEF PastInv, RootInv, TypeOK
<1>5. /\ r \in Gens => Len(gens'[r].past) = Len(g.past) + 1
      /\ r \notin Gens => Len(own'[r].past) = Len(g.past) + 1
      /\ \A i \in Gens \ {r} : gens'[i] = gens[i]
      /\ \A t \in Threads \ {r} : own'[t] = own[t]
  BY <1>1 DEF TypeOK
<1>6. \A k \in 1 .. Len(given) : given[k].root = r => Len(given[k].past) < Len(g.past)
  BY Disjoint DEF PastInv, GivenInv
<1>7. GivenInv'
  <2>1. SUFFICES ASSUME NEW k \in 1 .. Len(given')
                 PROVE  /\ given'[k].root \in Gens =>
                              Len(given'[k].past) < Len(gens'[given'[k].root].past)
                        /\ given'[k].root \in Threads =>
                              Len(given'[k].past) < Len(own'[given'[k].root].past)
    BY DEF GivenInv
  <2>2. Len(g.past) \in Nat
    BY <1>1
  <2>3. CASE k = Len(given) + 1
    BY <1>1, <1>3, <1>5, <2>2, <2>3, Disjoint
  <2>4. CASE k # Len(given) + 1
    <3>1. k \in 1 .. Len(given) /\ given'[k] = given[k] /\ Len(given[k].past) \in Nat
      BY <1>3, <2>1, <2>4 DEF Output
    <3>2. CASE given[k].root = r
      <4>1. given'[k].root = r /\ Len(given'[k].past) < Len(g.past)
        BY <1>6, <3>1, <3>2
      <4>2. Len(given'[k].past) \in Nat
        BY <3>1
      <4>3. QED
        BY <1>5, <2>2, <4>1, <4>2, Disjoint
    <3>3. CASE given[k].root # r
      BY <1>5, <3>1, <3>3 DEF PastInv, GivenInv
    <3>4. QED
      BY <3>2, <3>3
  <2>5. QED
    BY <2>3, <2>4
<1>8. NeverRepeats'
  <2>1. SUFFICES ASSUME NEW j \in 1 .. Len(given'), NEW k \in 1 .. Len(given'),
                        given'[j].root = given'[k].root, given'[j].past = given'[k].past,
                        given'[j].counter = given'[k].counter
                 PROVE  j = k
    BY DEF NeverRepeats
  <2>2. \A m \in 1 .. Len(given) : given[m].root = r => given[m].past # g.past
    BY <1>1, <1>3, <1>6 DEF Output
  <2>3. QED
    BY <1>1, <1>3, <2>1, <2>2 DEF PastInv, NeverRepeats
<1>9. QED
  BY <1>2, <1>4, <1>7, <1>8 DEF PastInv

(* A reseeded generator has moved on too. *)
LEMMA ReseedStep ==
    ASSUME TypeOK, PastInv, NEW t \in Threads, NEW seed \in Seeds, OwnReseed(t, seed)
    PROVE  own' \in [Threads -> Generator] /\ PastInv'
<1>1. /\ own[t] \in Generator /\ own' = [own EXCEPT ![t] = Reseeded(own[t], seed)]
      /\ gens' = gens /\ given' = given
  BY DEF OwnReseed, TypeOK
<1>2. /\ Reseeded(own[t], seed) \in Generator
      /\ Reseeded(own[t], seed).root = own[t].root
      /\ Len(Reseeded(own[t], seed).past) = Len(own[t].past) + 1
      /\ Len(own[t].past) \in Nat
  BY <1>1, ReseededType DEF Generator
<1>3. own' \in [Threads -> Generator]
  BY <1>1, <1>2 DEF TypeOK
<1>4. RootInv'
  BY <1>1, <1>2 DEF PastInv, RootInv, TypeOK
<1>5. GivenInv'
  <2>1. SUFFICES ASSUME NEW k \in 1 .. Len(given), given[k].root \in Threads
                 PROVE  Len(given[k].past) < Len(own'[given[k].root].past)
    BY <1>1 DEF PastInv, GivenInv
  <2>2. Len(given[k].past) \in Nat /\ Len(given[k].past) < Len(own[given[k].root].past)
    BY <2>1 DEF PastInv, GivenInv, TypeOK, Output
  <2>3. CASE given[k].root = t
    BY <1>1, <1>2, <2>2, <2>3 DEF TypeOK
  <2>4. CASE given[k].root # t
    BY <1>1, <2>1, <2>2, <2>4 DEF TypeOK
  <2>5. QED
    BY <2>3, <2>4
<1>6. NeverRepeats'
  BY <1>1 DEF PastInv, NeverRepeats
<1>7. QED
  BY <1>3, <1>4, <1>5, <1>6 DEF PastInv

-----------------------------------------------------------------------------
(* Every step *)

LEMMA InvariantInit == Init => IInv
<1> SUFFICES ASSUME Init PROVE IInv
  OBVIOUS
<1>1. \A x \in Gens \cup Threads : Fresh(x) \in Generator /\ Fresh(x).root = x
  BY FreshType DEF Fresh
<1>2. /\ NoCall \in Call /\ Tasks(NoCall.sizes) = {}
      /\ Tasks(NoCall.derived) = {} /\ Tasks(NoCall.done) = {}
  BY DEF NoCall, NoTasks, Call, Tasks
<1>3. given = << >> /\ given \in Seq(Output) /\ Len(given) = 0
  BY DEF Init
<1>4. /\ gens = [i \in Gens |-> Fresh(i)] /\ own = [t \in Threads |-> Fresh(t)]
      /\ call = [t \in Threads |-> NoCall] /\ lock = [i \in Gens |-> NoThread]
  BY DEF Init
<1>5. TypeOK
  <2>1. /\ gens \in [Gens -> Generator] /\ own \in [Threads -> Generator]
        /\ call \in [Threads -> Call] /\ lock \in [Gens -> Threads \cup {NoThread}]
    BY <1>1, <1>2, <1>4
  <2>2. /\ next \in 0 .. NextSize - 1 /\ calls \in 0 .. MaxCalls
    BY RngAssumption DEF Init
  <2>3. QED
    BY <1>3, <2>1, <2>2 DEF TypeOK
<1>6. CallInv
  <2>1. \A t \in Threads : call[t] = NoCall
    BY <1>4
  <2>2. QED
    BY <1>2, <2>1 DEF CallInv, LockInv, TaskInv, AloneInv, Deterministic, Active
<1>7. PastInv
  BY <1>1, <1>3, <1>4 DEF PastInv, RootInv, GivenInv, NeverRepeats
<1>8. QED
  BY <1>5, <1>6, <1>7 DEF IInv

(* What a step leaves alone keeps what is said of it. *)
LEMMA CallFrame ==
    ASSUME CallInv, UNCHANGED <<gens, lock, call>>
    PROVE  CallInv'
  BY DEF CallInv, LockInv, TaskInv, AloneInv, Deterministic, Tasks, Active, Block

LEMMA PastFrame ==
    ASSUME PastInv, UNCHANGED <<gens, own, given>>
    PROVE  PastInv'
  BY DEF PastInv, RootInv, GivenInv, NeverRepeats

LEMMA NextBytesStep ==
    ASSUME IInv, NEW t \in Threads, NEW len \in Nat, CallNext(t, len)
    PROVE  IInv'
<1>1. Chosen(next) \in Gens /\ Advanced(next) \in 0 .. NextSize - 1
  <2>1. next \in Nat /\ N \in Nat \ {0} /\ NextSize \in Nat \ {0}
    BY RngAssumption DEF IInv, TypeOK
  <2>2. QED
    BY <2>1 DEF Chosen, Advanced, Gens
<1> DEFINE sizes == [NoTasks EXCEPT ![Chosen(next)] = len]
<1>2. sizes \in [Gens -> Nat \cup {None}]
  BY <1>1 DEF NoTasks
<1>3. Enter(t, len, sizes) /\ UNCHANGED <<gens, lock, own, given>>
  BY DEF CallNext
<1>4. call' \in [Threads -> Call] /\ calls' \in 0 .. MaxCalls /\ CallInv'
  BY <1>2, <1>3, EnterStep DEF IInv
<1>5. PastInv'
  BY <1>3, PastFrame DEF IInv
<1>6. next' \in 0 .. NextSize - 1
  BY <1>1 DEF CallNext, IInv, TypeOK
<1>7. TypeOK'
  BY <1>3, <1>4, <1>6 DEF IInv, TypeOK
<1>8. QED
  BY <1>4, <1>5, <1>7 DEF IInv

LEMMA FillStep ==
    ASSUME IInv, NEW t \in Threads, NEW len \in Nat, CallFill(t, len)
    PROVE  IInv'
<1> DEFINE sizes == [i \in Gens |-> IF i \in DOMAIN Pieces(len) THEN Pieces(len)[i] ELSE None]
<1>1. len \in Nat \ {0} /\ Enter(t, len, sizes)
      /\ UNCHANGED <<next, gens, lock, own, given>>
  BY DEF CallFill
<1>2. sizes \in [Gens -> Nat \cup {None}]
  BY <1>1, PiecesType
<1>3. call' \in [Threads -> Call] /\ calls' \in 0 .. MaxCalls /\ CallInv'
  <2> HIDE DEF sizes
  <2>1. QED
    BY <1>1, <1>2, EnterStep DEF IInv
<1>4. PastInv'
  BY <1>1, PastFrame DEF IInv
<1>5. TypeOK'
  BY <1>1, <1>3 DEF IInv, TypeOK
<1>6. QED
  BY <1>3, <1>4, <1>5 DEF IInv

LEMMA RatchetStep ==
    ASSUME IInv, NEW t \in Threads, NEW i \in Gens, Ratchet(t, i)
    PROVE  IInv'
<1>1. call' \in [Threads -> Call] /\ lock' \in [Gens -> Threads \cup {NoThread}] /\ CallInv'
  BY RatchetCallStep DEF IInv
<1> DEFINE len == call[t].sizes[i]
<1>2. /\ gens[i] \in Generator /\ call[t].derived[i] = gens[i] /\ len \in Nat
  BY DEF Ratchet, IInv, TypeOK, CallInv, LockInv, Tasks, Call
<1>3. /\ given' = Append(given, Block(gens[i], len)) /\ own' = own
      /\ gens' = [gens EXCEPT ![i] = Ratcheted(gens[i], len)]
      /\ UNCHANGED <<next, calls>>
  BY <1>2 DEF Ratchet
<1>4. given' \in Seq(Output) /\ gens' \in [Gens -> Generator] /\ own' \in [Threads -> Generator] /\ PastInv'
  <2> HIDE DEF len
  <2>1. QED
    BY <1>2, <1>3, ProducedStep DEF IInv
<1>5. TypeOK'
  BY <1>1, <1>3, <1>4 DEF IInv, TypeOK
<1>6. QED
  BY <1>1, <1>4, <1>5 DEF IInv

LEMMA OwnNextStep ==
    ASSUME IInv, NEW t \in Threads, NEW len \in Nat, OwnNext(t, len)
    PROVE  IInv'
<1>1. /\ own[t] \in Generator /\ t \notin Gens
      /\ given' = Append(given, Block(own[t], len))
      /\ own' = [own EXCEPT ![t] = Ratcheted(own[t], len)]
      /\ UNCHANGED <<next, gens, lock, call>>
      /\ calls < MaxCalls /\ calls' = calls + 1
  BY Disjoint DEF OwnNext, IInv, TypeOK
<1>2. given' \in Seq(Output) /\ gens' \in [Gens -> Generator] /\ own' \in [Threads -> Generator] /\ PastInv'
  BY <1>1, ProducedStep DEF IInv
<1>3. CallInv'
  BY <1>1, CallFrame DEF IInv
<1>4. calls' \in 0 .. MaxCalls
  BY <1>1, RngAssumption DEF IInv, TypeOK
<1>5. TypeOK'
  BY <1>1, <1>2, <1>4 DEF IInv, TypeOK
<1>6. QED
  BY <1>2, <1>3, <1>5 DEF IInv

LEMMA OwnReseedStep ==
    ASSUME IInv, NEW t \in Threads, NEW seed \in Seeds, OwnReseed(t, seed)
    PROVE  IInv'
<1>1. /\ UNCHANGED <<next, gens, lock, call, given>>
      /\ calls < MaxCalls /\ calls' = calls + 1
  BY DEF OwnReseed
<1>2. own' \in [Threads -> Generator] /\ PastInv'
  BY ReseedStep DEF IInv
<1>3. CallInv'
  BY <1>1, CallFrame DEF IInv
<1>4. calls' \in 0 .. MaxCalls
  BY <1>1, RngAssumption DEF IInv, TypeOK
<1>5. TypeOK'
  BY <1>1, <1>2, <1>4 DEF IInv, TypeOK
<1>6. QED
  BY <1>2, <1>3, <1>5 DEF IInv

LEMMA InvariantStep == IInv /\ [Next]_vars => IInv'
<1> SUFFICES ASSUME IInv, [Next]_vars PROVE IInv'
  OBVIOUS
<1>1. ASSUME NEW t \in Threads, NEW len \in Lengths, CallNext(t, len)  PROVE IInv'
  BY <1>1, NextBytesStep, RngAssumption
<1>2. ASSUME NEW t \in Threads, NEW len \in Lengths, CallFill(t, len)  PROVE IInv'
  BY <1>2, FillStep, RngAssumption
<1>3. ASSUME NEW t \in Threads, NEW len \in Lengths, OwnNext(t, len)  PROVE IInv'
  BY <1>3, OwnNextStep, RngAssumption
<1>4. ASSUME NEW t \in Threads, NEW i \in Gens, Derive(t, i)  PROVE IInv'
  <2>1. /\ call' \in [Threads -> Call] /\ lock' \in [Gens -> Threads \cup {NoThread}]
        /\ CallInv'
    BY <1>4, DeriveStep DEF IInv
  <2>2. UNCHANGED <<next, gens, own, calls, given>>
    BY <1>4 DEF Derive
  <2>3. PastInv'
    BY <2>2, PastFrame DEF IInv
  <2>4. QED
    BY <2>1, <2>2, <2>3 DEF IInv, TypeOK
<1>5. ASSUME NEW t \in Threads, NEW i \in Gens, Ratchet(t, i)  PROVE IInv'
  BY <1>5, RatchetStep
<1>6. ASSUME NEW t \in Threads, Return(t)  PROVE IInv'
  <2>1. call' \in [Threads -> Call] /\ CallInv'
    BY <1>6, ReturnStep DEF IInv
  <2>2. UNCHANGED <<next, gens, lock, own, calls, given>>
    BY <1>6 DEF Return
  <2>3. PastInv'
    BY <2>2, PastFrame DEF IInv
  <2>4. QED
    BY <2>1, <2>2, <2>3 DEF IInv, TypeOK
<1>7. ASSUME NEW t \in Threads, NEW s \in Seeds, OwnReseed(t, s)  PROVE IInv'
  BY <1>7, OwnReseedStep
<1>8. ASSUME UNCHANGED vars  PROVE IInv'
  <2>1. CallInv' /\ PastInv'
    BY <1>8, CallFrame, PastFrame DEF IInv, vars
  <2>2. QED
    BY <1>8, <2>1 DEF IInv, TypeOK, vars
<1>9. QED
  BY <1>1, <1>2, <1>3, <1>4, <1>5, <1>6, <1>7, <1>8 DEF Next, Finished

-----------------------------------------------------------------------------
(* The theorems *)

(* The inductive invariant holds of every reachable state. *)
THEOREM Invariant == Spec => []IInv
<1>1. QED
  BY InvariantInit, InvariantStep, PTL DEF Spec

(* Generators, mutexes, calls and blocks keep their types (rng.rs). *)
THEOREM TypeCorrect == Spec => []TypeOK
<1>1. IInv => TypeOK
  BY DEF IInv
<1>2. QED
  BY Invariant, <1>1, PTL

(* However many threads share the pool and whatever they ask for, no two   *)
(* blocks come from one state of a generator (next_bytes, reseed).         *)
THEOREM NoOutputTwice == Spec => []NeverRepeats
<1>1. IInv => NeverRepeats
  BY DEF IInv, PastInv
<1>2. QED
  BY Invariant, <1>1, PTL

(* A call that is alone in the pool returns what the generators determine, *)
(* in whatever order its tasks ran (fill_bytes_parallel).                  *)
THEOREM FillsDetermined == Spec => []Deterministic
<1>1. IInv => Deterministic
  BY DEF IInv, CallInv
<1>2. QED
  BY Invariant, <1>1, PTL

(* Whatever the length, each piece of a buffer has a generator and each    *)
(* byte belongs to a piece (fill_bytes_parallel: generators[i] exists).    *)
THEOREM PiecesCover ==
    ASSUME NEW len \in Nat \ {0}
    PROVE  /\ DOMAIN Pieces(len) \subseteq Gens
           /\ \A b \in 0 .. len - 1 : \E i \in DOMAIN Pieces(len) :
                 /\ i * ChunkSize(len) <= b
                 /\ b < i * ChunkSize(len) + Pieces(len)[i]
<1> DEFINE c == ChunkSize(len)
<1>1. c \in Nat /\ c >= 1 /\ len \in Nat
  BY ChunkCovers
<1>2. SUFFICES ASSUME NEW b \in 0 .. len - 1
               PROVE  \E i \in DOMAIN Pieces(len) : i * c <= b /\ b < i * c + Pieces(len)[i]
  BY PiecesType
<1> HIDE DEF c
<1>3. PICK q \in Nat : q * c <= b /\ b < q * c + c /\ q <= b
  <2>1. b \in Nat /\ c \in Nat \ {0}
    BY <1>1
  <2>2. QED
    BY <2>1, PieceOfByte
<1>4. q * c \in Nat
  BY <1>1
<1>5. q \in 0 .. len - 1 /\ q * c < len
  BY <1>1, <1>3, <1>4
<1>6. q \in DOMAIN Pieces(len) /\ Pieces(len)[q] = IF len - q * c < c THEN len - q * c ELSE c
  BY <1>5 DEF Pieces, c
<1>7. b < q * c + Pieces(len)[q]
  BY <1>1, <1>3, <1>4, <1>6
<1>8. QED
  BY <1>3, <1>6, <1>7
=============================================================================
