----------------------------- MODULE EntropyPool -----------------------------
(***************************************************************************)
(* The pre-warmed entropy pool (entropy_pool.rs): a deque of snapshots     *)
(* under a mutex, a background thread that refills it, the thread that     *)
(* creates and later drops the pool, and the threads that draw from it.    *)
(*                                                                         *)
(* A critical section (lock .. unlock) is one action.  A notify_one comes  *)
(* after the unlock and is an action of its own; it wakes the thread if it *)
(* waits and is lost if it does not.  A waiting thread may also wake up    *)
(* spuriously.                                                             *)
(***************************************************************************)
EXTENDS Naturals, Sequences

CONSTANTS
    Requests,     \* the capacities that EntropyPool::new is called with
    MinCapacity,  \* the 8 of new(): lower clamp, and how many to pre-warm
    MaxCapacity,  \* the 1024 of new(): upper clamp
    Drawers,      \* the threads that call draw()
    Snapshots,    \* what gather() can return
    NoSnapshot    \* no snapshot in hand

ASSUME PoolAssumption ==
    /\ Requests \subseteq Nat \ {0}
    /\ MinCapacity \in Nat \ {0} /\ MaxCapacity \in Nat
    /\ MinCapacity <= MaxCapacity
    /\ NoSnapshot \notin Snapshots

VARIABLES
    requested, \* the capacity that this pool was made with
    buf,       \* PoolState.buf, oldest snapshot first
    shutdown,  \* PoolState.shutdown
    worker,    \* the refill thread: where it is, slots left, snapshot in hand
    owner,     \* where the thread that creates and drops the pool is
    drawer,    \* per drawing thread, where it is inside draw()
    held,      \* per drawing thread, the snapshot its last draw returned
    late       \* history: gathers the worker finished after the shutdown

vars == <<requested, buf, shutdown, worker, owner, drawer, held, late>>

-----------------------------------------------------------------------------
(* Mutant of Clamped: no lower bound. *)
ClampedAbove(n) == IF n > MaxCapacity THEN MaxCapacity ELSE n

(* capacity.clamp(8, 1024) *)
Clamped(n) == IF n < MinCapacity THEN MinCapacity
              ELSE IF n > MaxCapacity THEN MaxCapacity ELSE n

Capacity  == Clamped(requested)

Watermark == Capacity \div 2
Prewarm   == IF Capacity < MinCapacity THEN Capacity ELSE MinCapacity

(* Mutant of BelowWatermark: the length is read before the pop. *)
BelowBeforePop(n) == n + 1 < Watermark

(* The test that draw() makes under the lock, on the length after the pop. *)
BelowWatermark(n) == n < Watermark

(* How many snapshots the worker sets out to gather. *)
Slots(n) == Capacity - n

InBuffer == {buf[i] : i \in 1 .. Len(buf)}

(* gather() returns a value that nobody holds: snapshots still in use      *)
(* anywhere are never produced again, those that were let go may be.       *)
Fresh == Snapshots \ (InBuffer \cup {worker.snap} \cup {held[d] : d \in Drawers})

WorkerStates == {"check", "wait", "slot", "gather", "push", "notify", "done"}
OwnerStates  == {"notify", "prewarm", "wait", "open", "drop", "dropped"}
DrawerStates == {"idle", "notify", "gather"}

(* need_refill.notify_one(): the worker is the only thread that waits. *)
NotifyRefill ==
    worker' = IF worker.pc = "wait" THEN [worker EXCEPT !.pc = "check"] ELSE worker

-----------------------------------------------------------------------------
(* The thread that owns the pool: new() and drop() *)

(* The worker has been spawned; a notify before it waits is lost. *)
OwnerNotifies ==
    /\ owner = "notify"
    /\ owner' = "prewarm"
    /\ NotifyRefill
    /\ UNCHANGED <<requested, buf, shutdown, drawer, held, late>>

(* new() returns once enough snapshots are there, and waits until then. *)
OwnerPrewarms ==
    /\ owner = "prewarm"
    /\ owner' = IF Len(buf) < Prewarm THEN "wait" ELSE "open"
    /\ UNCHANGED <<requested, buf, shutdown, worker, drawer, held, late>>

OwnerWakesSpuriously ==
    /\ owner = "wait"
    /\ owner' = "prewarm"
    /\ UNCHANGED <<requested, buf, shutdown, worker, drawer, held, late>>

(* Drop::drop: no draw() is running, since it borrows the pool. *)
OwnerShutsDown ==
    /\ owner = "open"
    /\ \A d \in Drawers : drawer[d] = "idle"
    /\ owner' = "drop"
    /\ shutdown' = TRUE
    /\ UNCHANGED <<requested, buf, worker, drawer, held, late>>

(* Mutant of OwnerNotifiesShutdown: the worker is not notified. *)
OwnerForgetsWorker ==
    /\ owner = "drop"
    /\ owner' = "dropped"
    /\ UNCHANGED <<requested, buf, shutdown, worker, drawer, held, late>>

OwnerNotifiesShutdown ==
    /\ owner = "drop"
    /\ owner' = "dropped"
    /\ NotifyRefill
    /\ UNCHANGED <<requested, buf, shutdown, drawer, held, late>>

-----------------------------------------------------------------------------
(* A drawing thread: draw() *)

(* Mutant of DrawPops: the snapshot stays in the buffer. *)
DrawPeeks(d) ==
    /\ owner = "open" /\ drawer[d] = "idle" /\ buf # << >>
    /\ held' = [held EXCEPT ![d] = Head(buf)]
    /\ drawer' = [drawer EXCEPT ![d] =
           IF BelowWatermark(Len(buf) - 1) THEN "notify" ELSE "idle"]
    /\ UNCHANGED <<requested, buf, shutdown, worker, owner, late>>

(* The fast path: pop under the lock, and remember whether to notify. *)
DrawPops(d) ==
    /\ owner = "open" /\ drawer[d] = "idle" /\ buf # << >>
    /\ held' = [held EXCEPT ![d] = Head(buf)]
    /\ buf' = Tail(buf)
    /\ drawer' = [drawer EXCEPT ![d] =
           IF BelowWatermark(Len(buf) - 1) THEN "notify" ELSE "idle"]
    /\ UNCHANGED <<requested, shutdown, worker, owner, late>>

DrawNotifies(d) ==
    /\ drawer[d] = "notify"
    /\ drawer' = [drawer EXCEPT ![d] = "idle"]
    /\ NotifyRefill
    /\ UNCHANGED <<requested, buf, shutdown, owner, held, late>>

(* Exhausted: fall back to a gather outside the lock.  The thread no       *)
(* longer has what it drew before.                                         *)
DrawFindsEmpty(d) ==
    /\ owner = "open" /\ drawer[d] = "idle" /\ buf = << >>
    /\ drawer' = [drawer EXCEPT ![d] = "gather"]
    /\ held' = [held EXCEPT ![d] = NoSnapshot]
    /\ UNCHANGED <<requested, buf, shutdown, worker, owner, late>>

(* The fallback's gather returns a snapshot, or draw() returns its error. *)
DrawGathers(d) ==
    /\ drawer[d] = "gather"
    /\ drawer' = [drawer EXCEPT ![d] = "idle"]
    /\ \E s \in Fresh \cup {NoSnapshot} : held' = [held EXCEPT ![d] = s]
    /\ UNCHANGED <<requested, buf, shutdown, worker, owner, late>>

-----------------------------------------------------------------------------
(* The refill thread: refill_loop *)

(* Where the loop over the slots goes with n iterations left. *)
NextSlot(n) == [pc |-> IF n = 0 THEN "check" ELSE "slot", left |-> n, snap |-> NoSnapshot]

(* The head of the loop: wait while full, return on shutdown, else count   *)
(* the slots to fill.                                                      *)
WorkerChecks ==
    /\ worker.pc = "check"
    /\ worker' = IF shutdown THEN [worker EXCEPT !.pc = "done"]
                 ELSE IF Len(buf) >= Capacity THEN [worker EXCEPT !.pc = "wait"]
                 ELSE NextSlot(Slots(Len(buf)))
    /\ UNCHANGED <<requested, buf, shutdown, owner, drawer, held, late>>

WorkerWakesSpuriously ==
    /\ worker.pc = "wait"
    /\ worker' = [worker EXCEPT !.pc = "check"]
    /\ UNCHANGED <<requested, buf, shutdown, owner, drawer, held, late>>

(* Mutant of WorkerStartsSlot: the shutdown is not looked at. *)
WorkerStartsAnyway ==
    /\ worker.pc = "slot"
    /\ worker' = [worker EXCEPT !.pc = "gather"]
    /\ UNCHANGED <<requested, buf, shutdown, owner, drawer, held, late>>

(* Before each gather the worker looks at the shutdown flag again. *)
WorkerStartsSlot ==
    /\ worker.pc = "slot"
    /\ worker' = [worker EXCEPT !.pc = IF shutdown THEN "done" ELSE "gather"]
    /\ UNCHANGED <<requested, buf, shutdown, owner, drawer, held, late>>

LateGather == late' = IF shutdown THEN late + 1 ELSE late

WorkerGathers ==
    /\ worker.pc = "gather"
    /\ \E s \in Fresh : worker' = [worker EXCEPT !.pc = "push", !.snap = s]
    /\ LateGather
    /\ UNCHANGED <<requested, buf, shutdown, owner, drawer, held>>

(* A gather that fails is passed over in silence, and its slot with it. *)
WorkerGatherFails ==
    /\ worker.pc = "gather"
    /\ worker' = NextSlot(worker.left - 1)
    /\ LateGather
    /\ UNCHANGED <<requested, buf, shutdown, owner, drawer, held>>

(* Push unless the buffer has filled up meanwhile. *)
WorkerPushes ==
    /\ worker.pc = "push"
    /\ IF Len(buf) < Capacity
       THEN /\ buf' = Append(buf, worker.snap)
            /\ worker' = [worker EXCEPT !.pc = "notify", !.snap = NoSnapshot]
       ELSE /\ worker' = NextSlot(worker.left - 1)
            /\ UNCHANGED buf
    /\ UNCHANGED <<requested, shutdown, owner, drawer, held, late>>

(* Mutant of WorkerNotifies: snapshot_added is not signalled. *)
WorkerForgetsOwner ==
    /\ worker.pc = "notify"
    /\ worker' = NextSlot(worker.left - 1)
    /\ UNCHANGED <<requested, buf, shutdown, owner, drawer, held, late>>

(* snapshot_added.notify_one(): only new() waits for it. *)
WorkerNotifies ==
    /\ worker.pc = "notify"
    /\ owner' = IF owner = "wait" THEN "prewarm" ELSE owner
    /\ worker' = NextSlot(worker.left - 1)
    /\ UNCHANGED <<requested, buf, shutdown, drawer, held, late>>

-----------------------------------------------------------------------------
Init ==
    /\ requested \in Requests
    /\ buf = << >>
    /\ shutdown = FALSE
    /\ worker = [pc |-> "check", left |-> 0, snap |-> NoSnapshot]
    /\ owner = "notify"
    /\ drawer = [d \in Drawers |-> "idle"]
    /\ held = [d \in Drawers |-> NoSnapshot]
    /\ late = 0

OwnerStep  == OwnerNotifies \/ OwnerPrewarms \/ OwnerNotifiesShutdown
DrawerEnds(d) == DrawNotifies(d) \/ DrawGathers(d)
WorkerStep == \/ WorkerChecks \/ WorkerStartsSlot \/ WorkerGathers
              \/ WorkerGatherFails \/ WorkerPushes \/ WorkerNotifies

(* The pool is gone and the worker has returned. *)
Terminated == owner = "dropped" /\ worker.pc = "done" /\ UNCHANGED vars

Next ==
    \/ OwnerStep \/ OwnerWakesSpuriously \/ OwnerShutsDown
    \/ \E d \in Drawers : DrawPops(d) \/ DrawFindsEmpty(d) \/ DrawerEnds(d)
    \/ WorkerStep \/ WorkerWakesSpuriously
    \/ Terminated

Spec == Init /\ [][Next]_vars

(* Every runnable thread runs, and gather() does not fail for ever.  No    *)
(* one is obliged to draw, to drop the pool or to wake up spuriously.      *)
FairSpec ==
    /\ Spec
    /\ WF_vars(OwnerStep) /\ WF_vars(WorkerStep) /\ SF_vars(WorkerGathers)
    /\ \A d \in Drawers : WF_vars(DrawerEnds(d))

-----------------------------------------------------------------------------
(* Properties *)

(* Every variable has its type; the slots left never exceed the capacity   *)
(* (the subtraction in refill_loop does not wrap).                         *)
TypeOK ==
    /\ requested \in Requests
    /\ buf \in Seq(Snapshots) /\ Len(buf) <= Capacity
    /\ shutdown \in BOOLEAN
    /\ worker \in [pc : WorkerStates, left : 0 .. Capacity,
                   snap : Snapshots \cup {NoSnapshot}]
    /\ owner \in OwnerStates
    /\ drawer \in [Drawers -> DrawerStates]
    /\ held \in [Drawers -> Snapshots \cup {NoSnapshot}]
    /\ late \in Nat

(* Two threads never draw the same snapshot, and none that was drawn is    *)
(* still in the pool: a repeated snapshot would repeat a keystream.        *)
SnapshotsDistinct ==
    /\ \A i, j \in 1 .. Len(buf) : buf[i] = buf[j] => i = j
    /\ \A d \in Drawers : held[d] \notin InBuffer
    /\ \A d, e \in Drawers : held[d] = held[e] /\ d # e => held[d] = NoSnapshot
    /\ worker.snap \notin InBuffer
    /\ \A d \in Drawers : held[d] = worker.snap => held[d] = NoSnapshot

(* The worker never gathers more than there is room for: no snapshot is    *)
(* thrown away, and the length test before push_back always succeeds.      *)
RoomForEverySlot ==
    worker.pc \in {"slot", "gather", "push"} => Len(buf) + worker.left <= Capacity

(* Neither side sleeps through its signal.  If the worker waits although   *)
(* the pool is below the watermark, a drawer is on its way to notify it;   *)
(* if it waits although the pool is being dropped, the owner is; if new()  *)
(* waits although enough snapshots are there, the worker is.               *)
NoLostWakeup ==
    /\ worker.pc = "wait" /\ Len(buf) < Watermark =>
           \E d \in Drawers : drawer[d] = "notify"
    /\ worker.pc = "wait" /\ shutdown => owner = "drop"
    /\ owner = "wait" /\ Len(buf) >= Prewarm => worker.pc = "notify"

(* After the pool is dropped the worker finishes at most the gather it is  *)
(* in: it does not go on to fill the remaining slots.                      *)
DropStopsGathering == late <= 1

(* new() returns, unless gather() fails for ever. *)
PoolOpens == <>(owner = "open")

(* An exhausted pool is refilled (the test pool_refills_after_drain), also *)
(* the smallest one: the clamp keeps the watermark above 0, which the      *)
(* strict test of draw() needs.                                            *)
RefilledWhenEmpty ==
    (owner = "open" /\ buf = << >>) ~> (buf # << >> \/ shutdown)

(* The refill thread returns after the pool is dropped. *)
WorkerStops == shutdown ~> worker.pc = "done"
=============================================================================
