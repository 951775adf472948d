-------------------------- MODULE EntropyPoolProofs --------------------------
(* Theorems about EntropyPool, for every value of its constants. *)
EXTENDS EntropyPool, TLAPS

-----------------------------------------------------------------------------
(* The strengthening: what holds at each point of the refill thread *)

(* The slots left and the snapshot in hand, by where the thread is.  Its   *)
(* notify comes after the push and before the slot is counted off.         *)
SlotInv ==
    /\ worker.pc \in {"slot", "gather", "push", "notify"} => worker.left > 0
    /\ worker.pc = "push" => worker.snap \in Snapshots
    /\ RoomForEverySlot
    /\ worker.pc = "notify" => Len(buf) + worker.left <= Capacity + 1

(* A gather that runs into the shutdown is the first one finished after it. *)
LateInv ==
    /\ late <= 1
    /\ ~ shutdown => late = 0
    /\ worker.pc = "gather" => late = 0

TypeInv == TypeOK /\ SlotInv

-----------------------------------------------------------------------------
(* The clamped capacity leaves room for the watermark and for pre-warming. *)
LEMMA CapacityBounds ==
    ASSUME requested \in Requests
    PROVE  /\ Capacity \in Nat \ {0}
           /\ Watermark \in Nat /\ Watermark <= Capacity
           /\ Prewarm \in Nat \ {0} /\ Prewarm <= Capacity
<1>1. Capacity \in Nat \ {0}
  BY PoolAssumption DEF Capacity, Clamped
<1>2. Watermark \in Nat /\ Watermark <= Capacity
  BY <1>1 DEF Watermark
<1>3. Prewarm \in Nat \ {0} /\ Prewarm <= Capacity
  BY <1>1, PoolAssumption DEF Prewarm
<1>4. QED
  BY <1>1, <1>2, <1>3

(* A pool keeps its capacity. *)
LEMMA CapacityStays ==
    ASSUME TypeOK, [Next]_vars
    PROVE  /\ requested \in Requests /\ requested' = requested
           /\ Capacity' = Capacity /\ Watermark' = Watermark /\ Prewarm' = Prewarm
<1>1. requested \in Requests /\ requested' = requested
  BY DEF TypeOK, vars, Next, OwnerStep, OwnerNotifies, OwnerPrewarms, OwnerNotifiesShutdown,
         OwnerWakesSpuriously, OwnerShutsDown, DrawPops, DrawFindsEmpty, DrawerEnds,
         DrawNotifies, DrawGathers, WorkerStep, WorkerChecks, WorkerStartsSlot, WorkerGathers,
         WorkerGatherFails, WorkerPushes, WorkerNotifies, WorkerWakesSpuriously, Terminated
<1>2. QED
  BY <1>1 DEF Capacity, Watermark, Prewarm

(* The thread's state at the next slot. *)
LEMMA NextSlotType ==
    ASSUME requested \in Requests, NEW n \in 0 .. Capacity
    PROVE  /\ NextSlot(n) \in [pc : WorkerStates, left : 0 .. Capacity,
                               snap : Snapshots \cup {NoSnapshot}]
           /\ NextSlot(n).pc \in {"check", "slot"}
           /\ NextSlot(n).pc = "slot" => n > 0
           /\ NextSlot(n).left = n
           /\ NextSlot(n).snap = NoSnapshot
BY CapacityBounds DEF NextSlot, WorkerStates

(* Wherever the loop is, the next slot is not in the middle of a gather. *)
LEMMA NextSlotPlace ==
    ASSUME NEW n
    PROVE  NextSlot(n).pc \in {"check", "slot"} /\ NextSlot(n).snap = NoSnapshot
<1>1. (IF n = 0 THEN "check" ELSE "slot") \in {"check", "slot"}
  OBVIOUS
<1>2. QED
  BY <1>1 DEF NextSlot

(* What a push does to the refill thread. *)
LEMMA PushEffect ==
    ASSUME TypeOK, WorkerPushes
    PROVE  /\ worker'.snap = NoSnapshot
           /\ \/ worker'.pc = "notify"
              \/ (worker'.pc \in {"check", "slot"} /\ buf' = buf)
<1>1. CASE Len(buf) < Capacity
  <2>1. worker' = [worker EXCEPT !.pc = "notify", !.snap = NoSnapshot]
    BY <1>1 DEF WorkerPushes
  <2>2. QED
    BY <2>1 DEF TypeOK
<1>2. CASE ~ (Len(buf) < Capacity)
  <2>1. worker' = NextSlot(worker.left - 1) /\ buf' = buf
    BY <1>2 DEF WorkerPushes
  <2>2. QED
    BY <2>1, NextSlotPlace
<1>3. QED
  BY <1>1, <1>2

(* A notify changes nothing of the refill thread but where it is. *)
LEMMA NotifyRefillEffect ==
    ASSUME TypeOK, NotifyRefill
    PROVE  /\ worker' \in [pc : WorkerStates, left : 0 .. Capacity,
                           snap : Snapshots \cup {NoSnapshot}]
           /\ worker'.left = worker.left /\ worker'.snap = worker.snap
           /\ worker'.pc # "wait"
           /\ worker.pc # "wait" => worker' = worker
           /\ worker.pc = "wait" => worker'.pc = "check"
BY DEF TypeOK, NotifyRefill, WorkerStates

(* Every step preserves the types and the slot count. *)
LEMMA TypeStep == TypeInv /\ [Next]_vars => TypeInv'
<1> SUFFICES ASSUME TypeInv, [Next]_vars PROVE TypeInv'
  OBVIOUS
<1> USE CapacityBounds, CapacityStays DEF TypeInv
<1>0. /\ buf \in Seq(Snapshots) /\ Len(buf) \in Nat /\ Len(buf) <= Capacity
      /\ worker \in [pc : WorkerStates, left : 0 .. Capacity,
                     snap : Snapshots \cup {NoSnapshot}]
  BY DEF TypeInv, TypeOK
<1>1. CASE OwnerNotifies
  BY <1>1, NotifyRefillEffect
     DEF OwnerNotifies, TypeInv, TypeOK, SlotInv, RoomForEverySlot, OwnerStates
<1>2. CASE OwnerPrewarms
  BY <1>2 DEF OwnerPrewarms, TypeInv, TypeOK, SlotInv, RoomForEverySlot, OwnerStates
<1>3. CASE OwnerNotifiesShutdown
  BY <1>3, NotifyRefillEffect
     DEF OwnerNotifiesShutdown, TypeInv, TypeOK, SlotInv, RoomForEverySlot, OwnerStates
<1>4. CASE OwnerWakesSpuriously
  BY <1>4 DEF OwnerWakesSpuriously, TypeInv, TypeOK, SlotInv, RoomForEverySlot, OwnerStates
<1>5. CASE OwnerShutsDown
  BY <1>5 DEF OwnerShutsDown, TypeInv, TypeOK, SlotInv, RoomForEverySlot, OwnerStates
<1>6. ASSUME NEW d \in Drawers, DrawPops(d)
      PROVE  TypeInv'
  <2>1. Head(buf) \in Snapshots /\ Tail(buf) \in Seq(Snapshots)
        /\ Len(Tail(buf)) = Len(buf) - 1
    BY <1>0, <1>6 DEF DrawPops
  <2>2. TypeOK'
    BY <1>0, <1>6, <2>1 DEF DrawPops, TypeInv, TypeOK, DrawerStates
  <2>3. SlotInv'
    BY <1>0, <1>6, <2>1 DEF DrawPops, TypeInv, SlotInv, RoomForEverySlot
  <2>4. QED
    BY <2>2, <2>3 DEF TypeInv
<1>7. ASSUME NEW d \in Drawers, DrawFindsEmpty(d)
      PROVE  TypeInv'
  BY <1>7 DEF DrawFindsEmpty, TypeInv, TypeOK, SlotInv, RoomForEverySlot, DrawerStates
<1>8. ASSUME NEW d \in Drawers, DrawNotifies(d)
      PROVE  TypeInv'
  BY <1>8, NotifyRefillEffect
     DEF DrawNotifies, TypeInv, TypeOK, SlotInv, RoomForEverySlot, DrawerStates
<1>9. ASSUME NEW d \in Drawers, DrawGathers(d)
      PROVE  TypeInv'
  BY <1>9 DEF DrawGathers, Fresh, TypeInv, TypeOK, SlotInv, RoomForEverySlot, DrawerStates
<1>10. CASE WorkerChecks
  <2>1. ASSUME Len(buf) < Capacity
        PROVE  Slots(Len(buf)) \in 1 .. Capacity /\ Len(buf) + Slots(Len(buf)) = Capacity
    BY <1>0, <2>1 DEF Slots
  <2>2. worker' \in [pc : WorkerStates, left : 0 .. Capacity,
                     snap : Snapshots \cup {NoSnapshot}]
    <3>1. CASE ~ shutdown /\ Len(buf) < Capacity
      <4>1. worker' = NextSlot(Slots(Len(buf)))
        BY <1>0, <1>10, <3>1 DEF WorkerChecks
      <4>2. Slots(Len(buf)) \in 0 .. Capacity
        BY <2>1, <3>1
      <4>3. QED
        BY <4>1, <4>2, NextSlotType
    <3>2. CASE shutdown \/ Len(buf) >= Capacity
      <4>1. \/ worker' = [worker EXCEPT !.pc = "done"]
            \/ worker' = [worker EXCEPT !.pc = "wait"]
        BY <1>10, <3>2 DEF WorkerChecks
      <4>2. QED
        BY <1>0, <4>1 DEF WorkerStates
    <3>3. QED
      BY <1>0, <3>1, <3>2
  <2>5. TypeOK'
    BY <1>10, <2>2 DEF WorkerChecks, TypeInv, TypeOK
  <2>3. SlotInv'
    BY <1>0, <1>10, <2>1, NextSlotType
       DEF WorkerChecks, TypeInv, SlotInv, RoomForEverySlot, WorkerStates
  <2>6. QED
    BY <2>3, <2>5 DEF TypeInv
<1>11. CASE WorkerWakesSpuriously
  BY <1>0, <1>11
     DEF WorkerWakesSpuriously, TypeInv, TypeOK, SlotInv, RoomForEverySlot, WorkerStates
<1>12. CASE WorkerStartsSlot
  <2>1. \/ worker' = [worker EXCEPT !.pc = "done"]
        \/ worker' = [worker EXCEPT !.pc = "gather"]
    BY <1>12 DEF WorkerStartsSlot
  <2>2. worker.pc = "slot" /\ UNCHANGED <<requested, buf, shutdown, owner, drawer, held, late>>
    BY <1>12 DEF WorkerStartsSlot
  <2>3. TypeOK'
    BY <1>0, <2>1, <2>2 DEF TypeInv, TypeOK, WorkerStates
  <2>4. SlotInv'
    BY <1>0, <2>1, <2>2 DEF TypeInv, SlotInv, RoomForEverySlot
  <2>5. QED
    BY <2>3, <2>4 DEF TypeInv
<1>13. CASE WorkerGathers
  <2>1. PICK x \in Fresh : worker' = [worker EXCEPT !.pc = "push", !.snap = x]
    BY <1>13 DEF WorkerGathers
  <2>2. /\ worker.pc = "gather" /\ UNCHANGED <<buf, shutdown, owner, drawer, held>>
        /\ late' \in Nat /\ x \in Snapshots
    BY <1>13 DEF WorkerGathers, LateGather, Fresh, TypeInv, TypeOK
  <2>3. TypeOK'
    BY <1>0, <2>1, <2>2 DEF TypeInv, TypeOK, WorkerStates
  <2>4. SlotInv'
    BY <1>0, <2>1, <2>2 DEF TypeInv, SlotInv, RoomForEverySlot
  <2>5. QED
    BY <2>3, <2>4 DEF TypeInv
<1>14. CASE WorkerGatherFails
  <2>1. worker.left - 1 \in 0 .. Capacity /\ Len(buf) + (worker.left - 1) <= Capacity
    BY <1>0, <1>14 DEF WorkerGatherFails, TypeInv, SlotInv, RoomForEverySlot
  <2>2. TypeOK'
    BY <1>14, <2>1, NextSlotType DEF WorkerGatherFails, LateGather, TypeInv, TypeOK
  <2>3. SlotInv'
    BY <1>14, <2>1, NextSlotType DEF WorkerGatherFails, SlotInv, RoomForEverySlot
  <2>4. QED
    BY <2>2, <2>3 DEF TypeInv
<1>15. CASE WorkerPushes
  <2>1. /\ worker.left > 0 /\ worker.snap \in Snapshots
        /\ Len(buf) + worker.left <= Capacity /\ Len(buf) < Capacity
    BY <1>0, <1>15 DEF WorkerPushes, TypeInv, SlotInv, RoomForEverySlot
  <2>2. /\ buf' = Append(buf, worker.snap)
        /\ worker' = [worker EXCEPT !.pc = "notify", !.snap = NoSnapshot]
    BY <1>15, <2>1 DEF WorkerPushes
  <2>3. buf' \in Seq(Snapshots) /\ Len(buf') = Len(buf) + 1
    BY <1>0, <2>1, <2>2
  <2>4. /\ worker' \in [pc : WorkerStates, left : 0 .. Capacity,
                        snap : Snapshots \cup {NoSnapshot}]
        /\ worker'.pc = "notify" /\ worker'.left = worker.left
    BY <1>0, <2>2 DEF WorkerStates
  <2>5. TypeOK'
    BY <1>0, <1>15, <2>1, <2>3, <2>4 DEF WorkerPushes, TypeInv, TypeOK
  <2>6. SlotInv'
    BY <1>0, <2>1, <2>3, <2>4 DEF SlotInv, RoomForEverySlot
  <2>7. QED
    BY <2>5, <2>6 DEF TypeInv
<1>16. CASE WorkerNotifies
  <2>1. worker.left - 1 \in 0 .. Capacity /\ Len(buf) + (worker.left - 1) <= Capacity
    BY <1>0, <1>16 DEF WorkerNotifies, TypeInv, SlotInv
  <2>2. TypeOK'
    BY <1>16, <2>1, NextSlotType DEF WorkerNotifies, TypeInv, TypeOK, OwnerStates
  <2>3. SlotInv'
    BY <1>16, <2>1, NextSlotType DEF WorkerNotifies, SlotInv, RoomForEverySlot
  <2>4. QED
    BY <2>2, <2>3 DEF TypeInv
<1>17. CASE UNCHANGED vars
  BY <1>17 DEF vars, TypeInv, TypeOK, SlotInv, RoomForEverySlot
<1>18. QED
  BY <1>1, <1>2, <1>3, <1>4, <1>5, <1>6, <1>7, <1>8, <1>9, <1>10, <1>11, <1>12,
     <1>13, <1>14, <1>15, <1>16, <1>17
     DEF Next, OwnerStep, DrawerEnds, WorkerStep, Terminated

(* The types and the slot count hold initially. *)
LEMMA TypeInit == Init => TypeInv
<1> SUFFICES ASSUME Init PROVE TypeInv
  OBVIOUS
<1>1. /\ requested \in Requests
      /\ buf \in Seq(Snapshots) /\ Len(buf) = 0
      /\ worker.pc = "check" /\ worker.left = 0
  BY DEF Init
<1>2. worker \in [pc : WorkerStates, left : 0 .. Capacity,
                  snap : Snapshots \cup {NoSnapshot}]
  <2>1. "check" \in WorkerStates /\ 0 \in 0 .. Capacity
    BY <1>1, CapacityBounds DEF WorkerStates
  <2>2. QED
    BY <2>1 DEF Init
<1>3. TypeOK
  <2>1. shutdown \in BOOLEAN /\ late \in Nat /\ owner \in OwnerStates
    BY DEF Init, OwnerStates
  <2>2. drawer \in [Drawers -> DrawerStates]
    BY DEF Init, DrawerStates
  <2>3. held \in [Drawers -> Snapshots \cup {NoSnapshot}]
    BY DEF Init
  <2>4. QED
    BY <1>1, <1>2, <2>1, <2>2, <2>3, CapacityBounds DEF TypeOK
<1>4. SlotInv
  BY <1>1 DEF SlotInv, RoomForEverySlot
<1>5. QED
  BY <1>3, <1>4 DEF TypeInv

(* Every variable keeps its type; the buffer never exceeds the capacity. *)
THEOREM TypeCorrect == Spec => []TypeOK
<1>1. TypeInv => TypeOK
  BY DEF TypeInv
<1>2. QED
  BY <1>1, TypeInit, TypeStep, PTL DEF Spec

(* The refill thread sets out for as many snapshots as there is room for,  *)
(* and there still is when it pushes: none is gathered for nothing.        *)
THEOREM NothingGatheredForNothing == Spec => []RoomForEverySlot
<1>1. TypeInv => RoomForEverySlot
  BY DEF TypeInv, SlotInv
<1>2. QED
  BY <1>1, TypeInit, TypeStep, PTL DEF Spec

-----------------------------------------------------------------------------
(* Wake-ups *)

(* A thread that waits has somebody on the way to notify it, if what it    *)
(* waits for holds.  (Between the length test and the wait nobody can get  *)
(* in: both are under the lock.)                                           *)
LEMMA WakeupStep == TypeInv /\ NoLostWakeup /\ [Next]_vars => NoLostWakeup'
<1> SUFFICES ASSUME TypeInv, NoLostWakeup, [Next]_vars PROVE NoLostWakeup'
  OBVIOUS
<1> USE CapacityBounds, CapacityStays DEF TypeInv
<1>0. TypeOK /\ buf \in Seq(Snapshots) /\ Len(buf) \in Nat /\ Len(buf) <= Capacity
      /\ drawer \in [Drawers -> DrawerStates]
      /\ worker \in [pc : WorkerStates, left : 0 .. Capacity,
                     snap : Snapshots \cup {NoSnapshot}]
  BY DEF TypeInv, TypeOK
<1>1. CASE OwnerNotifies
  BY <1>0, <1>1, NotifyRefillEffect DEF OwnerNotifies, NoLostWakeup
<1>2. CASE OwnerPrewarms
  BY <1>0, <1>2 DEF OwnerPrewarms, NoLostWakeup
<1>3. CASE OwnerNotifiesShutdown
  BY <1>0, <1>3, NotifyRefillEffect DEF OwnerNotifiesShutdown, NoLostWakeup
<1>4. CASE OwnerWakesSpuriously
  BY <1>4 DEF OwnerWakesSpuriously, NoLostWakeup
<1>5. CASE OwnerShutsDown
  BY <1>5 DEF OwnerShutsDown, NoLostWakeup
<1>6. ASSUME NEW d \in Drawers, DrawPops(d)
      PROVE  NoLostWakeup'
  <2>1. Len(buf') = Len(buf) - 1 /\ worker' = worker /\ owner' = owner
        /\ shutdown' = shutdown /\ owner = "open"
    BY <1>0, <1>6 DEF DrawPops
  <2>2. ASSUME worker.pc = "wait", Len(buf') < Watermark
        PROVE  \E e \in Drawers : drawer'[e] = "notify"
    <3>1. BelowWatermark(Len(buf) - 1)
      BY <2>1, <2>2 DEF BelowWatermark
    <3>2. drawer'[d] = "notify"
      BY <1>0, <1>6, <3>1 DEF DrawPops
    <3>3. QED
      BY <3>2
  <2>3. QED
    BY <2>1, <2>2 DEF NoLostWakeup
<1>7. ASSUME NEW d \in Drawers, DrawFindsEmpty(d)
      PROVE  NoLostWakeup'
  <2>1. \A e \in Drawers : drawer[e] = "notify" => drawer'[e] = "notify"
    BY <1>0, <1>7 DEF DrawFindsEmpty
  <2>2. QED
    BY <1>7, <2>1 DEF DrawFindsEmpty, NoLostWakeup
<1>8. ASSUME NEW d \in Drawers, DrawNotifies(d)
      PROVE  NoLostWakeup'
  <2>1. worker'.pc # "wait" /\ (worker.pc # "wait" => worker' = worker)
    BY <1>0, <1>8, NotifyRefillEffect DEF DrawNotifies
  <2>2. UNCHANGED <<buf, shutdown, owner>>
    BY <1>8 DEF DrawNotifies
  <2>3. QED
    BY <2>1, <2>2 DEF NoLostWakeup
<1>9. ASSUME NEW d \in Drawers, DrawGathers(d)
      PROVE  NoLostWakeup'
  <2>1. \A e \in Drawers : drawer[e] = "notify" => drawer'[e] = "notify"
    BY <1>0, <1>9 DEF DrawGathers
  <2>2. QED
    BY <1>9, <2>1 DEF DrawGathers, NoLostWakeup
<1>10. CASE WorkerChecks
  <2>1. worker'.pc = "wait" => Len(buf) >= Capacity /\ ~ shutdown
    <3>1. NextSlot(Slots(Len(buf))).pc # "wait"
      BY DEF NextSlot
    <3>2. QED
      BY <1>0, <1>10, <3>1 DEF WorkerChecks
  <2>2. UNCHANGED <<buf, shutdown, owner>> /\ worker.pc # "notify"
    BY <1>10 DEF WorkerChecks
  <2>3. QED
    BY <1>0, <2>1, <2>2 DEF NoLostWakeup
<1>11. CASE WorkerWakesSpuriously
  BY <1>0, <1>11 DEF WorkerWakesSpuriously, NoLostWakeup
<1>12. CASE WorkerStartsSlot
  BY <1>0, <1>12 DEF WorkerStartsSlot, NoLostWakeup
<1>13. CASE WorkerGathers
  BY <1>0, <1>13 DEF WorkerGathers, NoLostWakeup
<1>14. CASE WorkerGatherFails
  BY <1>0, <1>14 DEF WorkerGatherFails, NextSlot, NoLostWakeup
<1>15. CASE WorkerPushes
  <2>1. worker'.pc = "notify" \/ (worker'.pc \in {"check", "slot"} /\ buf' = buf)
    BY <1>0, <1>15, PushEffect
  <2>2. UNCHANGED <<shutdown, owner>> /\ worker.pc = "push"
    BY <1>15 DEF WorkerPushes
  <2>3. QED
    BY <2>1, <2>2 DEF NoLostWakeup
<1>16. CASE WorkerNotifies
  BY <1>0, <1>16 DEF WorkerNotifies, NextSlot, NoLostWakeup
<1>17. CASE UNCHANGED vars
  BY <1>17 DEF vars, NoLostWakeup
<1>18. QED
  BY <1>1, <1>2, <1>3, <1>4, <1>5, <1>6, <1>7, <1>8, <1>9, <1>10, <1>11, <1>12,
     <1>13, <1>14, <1>15, <1>16, <1>17
     DEF Next, OwnerStep, DrawerEnds, WorkerStep, Terminated

(* No thread of the pool sleeps through its signal. *)
THEOREM WakeupsReachWaiters == Spec => []NoLostWakeup
<1>1. Init => NoLostWakeup
  BY DEF Init, NoLostWakeup
<1>2. QED
  BY <1>1, TypeInit, TypeStep, WakeupStep, PTL DEF Spec

-----------------------------------------------------------------------------
(* Dropping the pool *)

(* The thread does not start a gather once it can see the shutdown.        *)
LEMMA LateStep == TypeInv /\ LateInv /\ [Next]_vars => LateInv'
<1> SUFFICES ASSUME TypeInv, LateInv, [Next]_vars PROVE LateInv'
  OBVIOUS
<1>0. TypeOK /\ worker \in [pc : WorkerStates, left : 0 .. Capacity,
                            snap : Snapshots \cup {NoSnapshot}]
      /\ late \in Nat /\ shutdown \in BOOLEAN
  BY DEF TypeInv, TypeOK
<1>1. ASSUME NotifyRefill, UNCHANGED <<shutdown, late>> PROVE LateInv'
  <2>1. worker' = worker \/ worker'.pc = "check"
    BY <1>0, <1>1, NotifyRefillEffect
  <2>2. QED
    BY <1>1, <2>1 DEF LateInv
<1>2. ASSUME worker'.pc = worker.pc, UNCHANGED <<shutdown, late>> PROVE LateInv'
  BY <1>2 DEF LateInv
<1>3. ASSUME worker'.pc # "gather", UNCHANGED <<shutdown, late>> PROVE LateInv'
  BY <1>3 DEF LateInv
<1>4. CASE OwnerShutsDown
  BY <1>4 DEF OwnerShutsDown, LateInv
<1>5. CASE WorkerChecks
  <2>1. worker'.pc # "gather"
    BY <1>0, <1>5 DEF WorkerChecks, NextSlot
  <2>2. QED
    BY <1>3, <1>5, <2>1 DEF WorkerChecks
<1>6. CASE WorkerStartsSlot
  <2>1. worker'.pc = "gather" => ~ shutdown
    BY <1>0, <1>6 DEF WorkerStartsSlot
  <2>2. QED
    BY <1>6, <2>1 DEF WorkerStartsSlot, LateInv
<1>7. CASE WorkerGathers \/ WorkerGatherFails
  <2>1. worker.pc = "gather" /\ worker'.pc # "gather" /\ UNCHANGED shutdown
    <3>1. CASE WorkerGathers
      BY <1>0, <3>1 DEF WorkerGathers
    <3>2. CASE WorkerGatherFails
      BY <3>2, NextSlotPlace DEF WorkerGatherFails
    <3>3. QED
      BY <1>7, <3>1, <3>2
  <2>2. late = 0 /\ late' = IF shutdown THEN late + 1 ELSE late
    BY <1>7, <2>1 DEF WorkerGathers, WorkerGatherFails, LateGather, LateInv
  <2>3. QED
    BY <2>1, <2>2 DEF LateInv
<1>8. CASE WorkerPushes
  <2>1. worker'.pc # "gather"
    BY <1>0, <1>8, PushEffect
  <2>2. QED
    BY <1>3, <1>8, <2>1 DEF WorkerPushes
<1>9. CASE WorkerNotifies
  BY <1>3, <1>9 DEF WorkerNotifies, NextSlot
<1>10. CASE WorkerWakesSpuriously
  BY <1>0, <1>3, <1>10 DEF WorkerWakesSpuriously
<1>11. CASE OwnerNotifies \/ OwnerNotifiesShutdown
  BY <1>1, <1>11 DEF OwnerNotifies, OwnerNotifiesShutdown
<1>12. CASE OwnerPrewarms \/ OwnerWakesSpuriously
  BY <1>2, <1>12 DEF OwnerPrewarms, OwnerWakesSpuriously
<1>13. ASSUME NEW d \in Drawers, DrawNotifies(d)
       PROVE  LateInv'
  BY <1>1, <1>13 DEF DrawNotifies
<1>14. ASSUME NEW d \in Drawers, DrawPops(d) \/ DrawFindsEmpty(d) \/ DrawGathers(d)
       PROVE  LateInv'
  BY <1>2, <1>14 DEF DrawPops, DrawFindsEmpty, DrawGathers
<1>15. CASE UNCHANGED vars
  BY <1>2, <1>15 DEF vars
<1>16. QED
  BY <1>4, <1>5, <1>6, <1>7, <1>8, <1>9, <1>10, <1>11, <1>12, <1>13, <1>14, <1>15
     DEF Next, OwnerStep, DrawerEnds, WorkerStep, Terminated

(* After the pool is dropped at most one gather is finished. *)
THEOREM AtMostOneLateGather == Spec => []DropStopsGathering
<1>1. Init => LateInv
  BY DEF Init, LateInv
<1>2. LateInv => DropStopsGathering
  BY DEF LateInv, DropStopsGathering
<1>3. QED
  BY <1>1, <1>2, TypeInit, TypeStep, LateStep, PTL DEF Spec

-----------------------------------------------------------------------------
(* No snapshot twice *)

(* Popping, pushing and handing out keep all snapshots in use distinct.    *)
LEMMA DistinctStep == TypeInv /\ SnapshotsDistinct /\ [Next]_vars => SnapshotsDistinct'
<1> SUFFICES ASSUME TypeInv, SnapshotsDistinct, [Next]_vars PROVE SnapshotsDistinct'
  OBVIOUS
<1>0. /\ TypeOK /\ buf \in Seq(Snapshots) /\ Len(buf) \in Nat
      /\ held \in [Drawers -> Snapshots \cup {NoSnapshot}]
      /\ worker \in [pc : WorkerStates, left : 0 .. Capacity,
                     snap : Snapshots \cup {NoSnapshot}]
      /\ NoSnapshot \notin Snapshots /\ NoSnapshot \notin InBuffer
  BY PoolAssumption DEF TypeInv, TypeOK, InBuffer
<1>1. ASSUME worker'.snap \in {worker.snap, NoSnapshot}, UNCHANGED <<buf, held>>
      PROVE  SnapshotsDistinct'
  <2>1. InBuffer' = InBuffer
    BY <1>1 DEF InBuffer
  <2>2. QED
    BY <1>0, <1>1, <2>1 DEF SnapshotsDistinct
<1>2. ASSUME NotifyRefill PROVE worker'.snap = worker.snap
  BY <1>0, <1>2, NotifyRefillEffect
<1>3. ASSUME NEW d \in Drawers, DrawPops(d)
      PROVE  SnapshotsDistinct'
  <2>1. /\ buf # << >> /\ buf' = Tail(buf) /\ worker' = worker
        /\ held' = [held EXCEPT ![d] = Head(buf)]
    BY <1>3 DEF DrawPops
  <2>2. /\ Len(buf') = Len(buf) - 1 /\ Len(buf) > 0
        /\ \A i \in 1 .. Len(buf') : buf'[i] = buf[i + 1]
        /\ Head(buf) = buf[1] /\ Head(buf) \in Snapshots
    BY <1>0, <2>1
  <2>3. /\ Head(buf) \in InBuffer
        /\ InBuffer' \subseteq InBuffer
        /\ Head(buf) \notin InBuffer'
    <3>1. \A i \in 1 .. Len(buf') : i + 1 \in 1 .. Len(buf) /\ i + 1 # 1
      BY <1>0, <2>2
    <3>2. \A i \in 1 .. Len(buf') : buf'[i] \in InBuffer /\ buf'[i] # buf[1]
      BY <1>0, <2>2, <3>1 DEF InBuffer, SnapshotsDistinct
    <3>3. QED
      BY <1>0, <2>2, <3>2 DEF InBuffer
  <2>4. \A i, j \in 1 .. Len(buf') : buf'[i] = buf'[j] => i = j
    <3>1. \A i \in 1 .. Len(buf') : i + 1 \in 1 .. Len(buf)
      BY <1>0, <2>2
    <3>2. QED
      BY <1>0, <2>2, <3>1 DEF SnapshotsDistinct
  <2>5. held'[d] = Head(buf) /\ \A e \in Drawers : e # d => held'[e] = held[e]
    BY <1>0, <2>1
  <2>6. QED
    BY <1>0, <2>1, <2>2, <2>3, <2>4, <2>5 DEF SnapshotsDistinct
<1>4. ASSUME NEW d \in Drawers, NEW s \in Fresh \cup {NoSnapshot},
             held' = [held EXCEPT ![d] = s], UNCHANGED <<buf, worker>>
      PROVE  SnapshotsDistinct'
  <2>1. held'[d] = s /\ \A e \in Drawers : e # d => held'[e] = held[e]
    BY <1>0, <1>4
  <2>2. InBuffer' = InBuffer
    BY <1>4 DEF InBuffer
  <2>3. /\ s \notin InBuffer
        /\ s = worker.snap => s = NoSnapshot
        /\ \A e \in Drawers : s = held[e] => s = NoSnapshot
    BY <1>0, <1>4 DEF Fresh
  <2>4. QED
    BY <1>0, <1>4, <2>1, <2>2, <2>3 DEF SnapshotsDistinct
<1>5. CASE WorkerGathers
  <2>1. PICK s \in Fresh : worker' = [worker EXCEPT !.pc = "push", !.snap = s]
    BY <1>5 DEF WorkerGathers
  <2>2. worker'.snap = s /\ UNCHANGED <<buf, held>>
    BY <1>0, <1>5, <2>1 DEF WorkerGathers
  <2>3. InBuffer' = InBuffer
    BY <2>2 DEF InBuffer
  <2>4. s \notin InBuffer /\ \A d \in Drawers : held[d] # s
    BY DEF Fresh
  <2>5. QED
    BY <2>2, <2>3, <2>4 DEF SnapshotsDistinct
<1>6. CASE WorkerPushes
  <2>1. CASE Len(buf) < Capacity
    <3>1. /\ buf' = Append(buf, worker.snap) /\ worker'.snap = NoSnapshot
          /\ held' = held /\ worker.snap \in Snapshots
      BY <1>0, <1>6, <2>1 DEF WorkerPushes, TypeInv, SlotInv
    <3>2. /\ Len(buf') = Len(buf) + 1
          /\ \A i \in 1 .. Len(buf) : buf'[i] = buf[i]
          /\ buf'[Len(buf) + 1] = worker.snap
      BY <1>0, <3>1
    <3>3. InBuffer' = InBuffer \cup {worker.snap}
      BY <1>0, <3>2 DEF InBuffer
    <3>4. \A i \in 1 .. Len(buf) : buf[i] # worker.snap
      BY DEF SnapshotsDistinct, InBuffer
    <3>5. \A i, j \in 1 .. Len(buf') : buf'[i] = buf'[j] => i = j
      BY <1>0, <3>2, <3>4 DEF SnapshotsDistinct
    <3>6. QED
      BY <1>0, <3>1, <3>3, <3>5 DEF SnapshotsDistinct
  <2>2. CASE ~ (Len(buf) < Capacity)
    BY <1>1, <1>6, <2>2 DEF WorkerPushes, NextSlot
  <2>3. QED
    BY <2>1, <2>2
<1>7. ASSUME NEW d \in Drawers, DrawFindsEmpty(d) \/ DrawGathers(d)
      PROVE  SnapshotsDistinct'
  BY <1>4, <1>7 DEF DrawFindsEmpty, DrawGathers
<1>8. ASSUME NEW d \in Drawers, DrawNotifies(d)
      PROVE  SnapshotsDistinct'
  BY <1>1, <1>2, <1>8 DEF DrawNotifies
<1>9. CASE OwnerNotifies \/ OwnerNotifiesShutdown
  BY <1>1, <1>2, <1>9 DEF OwnerNotifies, OwnerNotifiesShutdown
<1>10. CASE OwnerPrewarms \/ OwnerWakesSpuriously \/ OwnerShutsDown
  BY <1>1, <1>10 DEF OwnerPrewarms, OwnerWakesSpuriously, OwnerShutsDown
<1>11. CASE WorkerChecks
  <2>1. worker'.snap \in {worker.snap, NoSnapshot}
    BY <1>0, <1>11 DEF WorkerChecks, NextSlot
  <2>2. QED
    BY <1>1, <1>11, <2>1 DEF WorkerChecks
<1>12. CASE WorkerWakesSpuriously \/ WorkerStartsSlot
  <2>1. worker'.snap = worker.snap
    BY <1>0, <1>12 DEF WorkerWakesSpuriously, WorkerStartsSlot
  <2>2. QED
    BY <1>1, <1>12, <2>1 DEF WorkerWakesSpuriously, WorkerStartsSlot
<1>13. CASE WorkerGatherFails \/ WorkerNotifies
  BY <1>1, <1>13 DEF WorkerGatherFails, WorkerNotifies, NextSlot
<1>14. CASE UNCHANGED vars
  BY <1>1, <1>14 DEF vars
<1>15. QED
  BY <1>3, <1>5, <1>6, <1>7, <1>8, <1>9, <1>10, <1>11, <1>12, <1>13, <1>14
     DEF Next, OwnerStep, DrawerEnds, WorkerStep, Terminated

(* No snapshot is drawn twice, by one thread or by two, and none that was  *)
(* drawn is still in the pool.                                             *)
THEOREM NoSnapshotTwice == Spec => []SnapshotsDistinct
<1>1. Init => SnapshotsDistinct
  BY PoolAssumption DEF Init, SnapshotsDistinct, InBuffer
<1>2. QED
  BY <1>1, TypeInit, TypeStep, DistinctStep, PTL DEF Spec
=============================================================================
