--------------------------- MODULE PreemptProofs ---------------------------
(***************************************************************************)
(* Proofs about module Preempt for any set of processes: no process is     *)
(* switched out inside a critical section, and preempt_count counts the    *)
(* locks held.                                                             *)
(***************************************************************************)
EXTENDS Preempt, TLAPS

(* What the counters say needs to know where a process that is not running *)
(* can be (outside the lock's code, or about to take the lock again), that *)
(* the lock word is set exactly by the process inside the critical         *)
(* section, that a yield is owed only outside it, and that one process     *)
(* runs.                                                                   *)
OneRuns == \A p \in Procs : rs[p] = "running" <=> p = current
OutsideLock == \A p \in Procs : p # current => pc[p] \in {"run", "again", "again_irq"}
OwedOutside == \A p \in Procs : pc[p] \in {"run", "again", "again_irq"} \/ owed[p] = 0
WordIsPosition == holder = {p \in Procs : pc[p] \in Holding}

CountOf(p) ==
    IF rs[p] = "new" THEN 0
    ELSE IF rs[p] = "running"
         THEN IF pc[p] \in {"run", "again", "again_irq"} THEN 0 ELSE 1
         ELSE 1
Counted == \A p \in Procs : count[p] = CountOf(p)

PreemptInv == TypeOK /\ OneRuns /\ OutsideLock /\ OwedOutside /\ WordIsPosition /\ Counted

(* The invariant gives the two properties of module Preempt. *)
LEMMA InvImplies == PreemptInv => HolderRuns /\ CountsHeldLocks
<1> SUFFICES ASSUME PreemptInv PROVE HolderRuns /\ CountsHeldLocks
  OBVIOUS
<1>1. HolderRuns
  BY DEF PreemptInv, TypeOK, OutsideLock, WordIsPosition, HolderRuns, Holding
<1>2. CountsHeldLocks
  BY DEF PreemptInv, TypeOK, Counted, CountOf, CountsHeldLocks
<1> QED BY <1>1, <1>2

(* The invariant holds when the first process starts to run. *)
LEMMA InitInv == Init => PreemptInv
  BY DEF Init, PreemptInv, TypeOK, OneRuns, OutsideLock, OwedOutside, WordIsPosition, Counted, CountOf,
         Holding, Positions, IrqOff

(* A switch moves g_sched_lock from one counter to the other.              *)
LEMMA SwitchKeeps ==
  ASSUME PreemptInv,
         NEW goes \in {"ready", "waiting"}, NEW next \in Procs,
         NEW counted \in [Procs -> Nat], NEW cleared \in [Procs -> {0, 1}],
         next = current => goes = "ready",
         next # current => rs[next] \in {"new", "ready"},
         counted = [count EXCEPT ![current] = 1],
         Switch(goes, next, counted, cleared),
         pc' \in [Procs -> Positions],
         pc'[current] \in {"run", "again", "again_irq"},
         \A p \in Procs : p # current => pc'[p] = pc[p],
         holder' = holder \ {current}
  PROVE  PreemptInv'
<1> USE DEF PreemptInv
<1>1. pc'[next] \in {"run", "again", "again_irq"}
  BY DEF OutsideLock
<1>2. TypeOK'
  <2>1. current' \in Procs /\ rs' \in [Procs -> {"new", "ready", "running", "waiting"}]
    BY DEF TypeOK, Switch
  <2>2. count' \in [Procs -> Nat]
    <3>1. Dec(counted[next]) \in Nat
      BY DEF Dec
    <3> QED BY <3>1 DEF Switch
  <2>3. pending' \in [Procs -> {0, 1}]
    BY DEF TypeOK, Switch
  <2>4. owed' \in [Procs -> {0, 1}]
    BY DEF TypeOK, Switch
  <2>5. holder' \subseteq Procs
    BY DEF TypeOK
  <2> QED BY <2>1, <2>2, <2>3, <2>4, <2>5 DEF TypeOK
<1>3. OneRuns'
  BY DEF TypeOK, OneRuns, Switch
<1>4. OutsideLock' /\ OwedOutside'
  BY <1>1 DEF OutsideLock, OwedOutside, Switch, TypeOK
<1>5. WordIsPosition'
  BY DEF WordIsPosition, Holding
<1>6. Counted'
  <2> SUFFICES ASSUME NEW p \in Procs PROVE count'[p] = CountOf(p)'
    BY DEF Counted
  <2>1. count' = [counted EXCEPT ![next] = Dec(counted[next])]
    BY DEF Switch
  <2>2. rs' = [rs EXCEPT ![current] = goes, ![next] = "running"]
    BY DEF Switch
  <2>3. CASE p = next
    <3>1. counted[next] \in {0, 1}
      BY DEF Counted, CountOf, TypeOK
    <3> QED BY <1>1, <2>1, <2>2, <2>3, <3>1 DEF CountOf, Dec, TypeOK
  <2>4. CASE p # next /\ p = current
    BY <2>1, <2>2, <2>4 DEF CountOf, TypeOK
  <2>5. CASE p # next /\ p # current
    <3>1. count'[p] = count[p] /\ rs'[p] = rs[p] /\ pc'[p] = pc[p]
      BY <2>1, <2>2, <2>5 DEF TypeOK
    <3> QED BY <3>1 DEF Counted, CountOf
  <2> QED BY <2>3, <2>4, <2>5
<1> QED BY <1>2, <1>3, <1>4, <1>5, <1>6

(* A schedule outside the lock's code keeps the invariant. *)
LEMMA ScheduleKeeps ==
  ASSUME PreemptInv, pc[current] \in {"run", "again", "again_irq"},
         NEW cleared \in [Procs -> {0, 1}], Schedule(cleared), UNCHANGED <<pc, holder>>
  PROVE  PreemptInv'
<1>1. PICK next \in Runnable \cup {current} : Switch("ready", next, SchedLocked, cleared)
  BY DEF Schedule
<1>2. next \in Procs /\ current \in Procs /\ (next # current => rs[next] \in {"new", "ready"})
  BY DEF Runnable, PreemptInv, TypeOK
<1>3. count[current] = 0
  BY <1>2 DEF PreemptInv, Counted, CountOf, OneRuns
<1>4. SchedLocked = [count EXCEPT ![current] = 1] /\ SchedLocked \in [Procs -> Nat]
  BY <1>2, <1>3 DEF SchedLocked, PreemptInv, TypeOK
<1>5. holder' = holder \ {current}
  BY DEF PreemptInv, WordIsPosition, Holding
<1>6. pc' \in [Procs -> Positions]
  BY DEF PreemptInv, TypeOK
<1> QED
  BY <1>1, <1>2, <1>4, <1>5, <1>6, SwitchKeeps

(* Every step keeps the invariant. *)
LEMMA NextInv == PreemptInv /\ [Next]_vars => PreemptInv'
<1> SUFFICES ASSUME PreemptInv, [Next]_vars PROVE PreemptInv'
  OBVIOUS
<1>0. current \in Procs /\ rs[current] = "running"
  BY DEF PreemptInv, TypeOK, OneRuns
<1>a. ASSUME NEW from \in {"run", "again", "again_irq"}, NEW to \in {"spin", "spin_irq"},
             spinlock_acquire(from, to)
      PROVE  PreemptInv'
  <2> USE <1>0, <1>a DEF PreemptInv, spinlock_acquire
  <2>1. TypeOK'
    BY DEF TypeOK, Positions, IrqOff
  <2>2. OneRuns' /\ OutsideLock' /\ OwedOutside'
    BY DEF TypeOK, OneRuns, OutsideLock, OwedOutside
  <2>3. WordIsPosition'
    BY DEF TypeOK, WordIsPosition, Holding
  <2>4. Counted'
    BY DEF TypeOK, Counted, CountOf
  <2> QED BY <2>1, <2>2, <2>3, <2>4
<1>b. ASSUME NEW from \in {"spin", "spin_irq"}, NEW to \in Holding, test_and_set(from, to)
      PROVE  PreemptInv'
  <2> USE <1>0, <1>b DEF PreemptInv, test_and_set, Holding
  <2>1. TypeOK'
    BY DEF TypeOK, Positions, IrqOff
  <2>2. OneRuns' /\ OutsideLock' /\ OwedOutside'
    BY DEF TypeOK, OneRuns, OutsideLock, OwedOutside
  <2>3. WordIsPosition'
    BY DEF TypeOK, WordIsPosition
  <2>4. Counted'
    BY DEF TypeOK, Counted, CountOf
  <2> QED BY <2>1, <2>2, <2>3, <2>4
<1>c. ASSUME NEW from \in Holding, NEW to \in {"free", "free_irq"}, spinlock_release(from, to)
      PROVE  PreemptInv'
  <2> USE <1>0, <1>c DEF PreemptInv, spinlock_release, Holding
  <2>1. TypeOK'
    BY DEF TypeOK, Positions, IrqOff
  <2>2. OneRuns' /\ OutsideLock' /\ OwedOutside'
    BY DEF TypeOK, OneRuns, OutsideLock, OwedOutside
  <2>3. WordIsPosition'
    BY DEF TypeOK, WordIsPosition
  <2>4. Counted'
    BY DEF TypeOK, Counted, CountOf
  <2> QED BY <2>1, <2>2, <2>3, <2>4
<1>d. ASSUME NEW from \in {"free", "free_irq"}, preempt_enable(from)
      PROVE  PreemptInv'
  <2> USE <1>0, <1>d DEF PreemptInv, preempt_enable, Dec
  <2>1. TypeOK'
    BY DEF TypeOK, Positions, IrqOff
  <2>2. OneRuns' /\ OutsideLock' /\ OwedOutside'
    BY DEF TypeOK, OneRuns, OutsideLock, OwedOutside
  <2>3. WordIsPosition'
    BY DEF TypeOK, WordIsPosition, Holding
  <2>4. Counted'
    BY DEF TypeOK, Counted, CountOf
  <2> QED BY <2>1, <2>2, <2>3, <2>4
<1>e. CASE scheduler_yield
  <2>1. pc[current] \in {"run", "again", "again_irq"}
    BY <1>0, <1>e DEF scheduler_yield, PreemptInv, OwedOutside
  <2> QED BY <1>e, <2>1, ScheduleKeeps DEF scheduler_yield, PreemptInv, TypeOK
<1>f. CASE scheduler_wait
  <2>1. PICK next \in Runnable :
            Switch("waiting", next, [count EXCEPT ![current] = Dec(@ + 1)], owed)
    BY <1>f DEF scheduler_wait
  <2> DEFINE counted == [count EXCEPT ![current] = Dec(@ + 1)]
  <2>2. next \in Procs /\ next # current /\ rs[next] \in {"new", "ready"}
    BY <1>0 DEF Runnable
  <2>3. count[current] = 1
    BY <1>0, <1>f DEF scheduler_wait, PreemptInv, Counted, CountOf, Holding
  <2>4. counted = [count EXCEPT ![current] = 1] /\ counted \in [Procs -> Nat]
    BY <1>0, <2>3 DEF PreemptInv, TypeOK, Dec
  <2>5. /\ pc' \in [Procs -> Positions]
        /\ pc'[current] \in {"run", "again", "again_irq"}
        /\ \A p \in Procs : p # current => pc'[p] = pc[p]
        /\ holder' = holder \ {current}
    BY <1>0, <1>f DEF scheduler_wait, PreemptInv, TypeOK, Positions, IrqOff
  <2>6. owed \in [Procs -> {0, 1}]
    BY DEF PreemptInv, TypeOK
  <2> HIDE DEF counted
  <2>7. Switch("waiting", next, counted, owed)
    BY <2>1 DEF counted
  <2> QED BY <2>2, <2>4, <2>5, <2>6, <2>7, SwitchKeeps
<1>g. CASE irq_handler
  <2>1. CASE count[current] > 0
    BY <1>0, <1>g, <2>1 DEF irq_handler, PreemptInv, TypeOK, OneRuns, OutsideLock,
       OwedOutside, WordIsPosition, Counted, CountOf
  <2>2. CASE ~(count[current] > 0)
    <3>1. pc[current] \in {"run", "again", "again_irq"}
      BY <1>0, <2>2 DEF PreemptInv, Counted, CountOf, TypeOK
    <3> QED BY <1>g, <2>2, <3>1, ScheduleKeeps DEF irq_handler, PreemptInv, TypeOK
  <2> QED BY <2>1, <2>2
<1>h. ASSUME NEW p \in Procs, wake(p) PROVE PreemptInv'
  BY <1>0, <1>h DEF wake, PreemptInv, TypeOK, OneRuns, OutsideLock, OwedOutside, WordIsPosition, Counted, CountOf
<1>i. CASE UNCHANGED vars
  BY <1>i DEF vars, PreemptInv, TypeOK, OneRuns, OutsideLock, OwedOutside, WordIsPosition, Counted, CountOf
<1> QED
  BY <1>a, <1>b, <1>c, <1>d, <1>e, <1>f, <1>g, <1>h, <1>i DEF Next, Step, Holding

(* For any set of processes, a process that is not running holds no        *)
(* spinlock and the running process never finds the lock word set: the     *)
(* counter keeps irq_handler and scheduler_yield from switching.           *)
THEOREM NoPreemptionInCriticalSection == Spec => []HolderRuns
<1>1. PreemptInv => HolderRuns
  BY InvImplies
<1> QED BY <1>1, InitInv, NextInv, PTL DEF Spec

(* For any set of processes, preempt_count counts the locks held: every    *)
(* preempt_disable of spinlock_acquire has one preempt_enable, and         *)
(* g_sched_lock moves from one counter to the other in a switch.           *)
THEOREM CountsAreExact == Spec => [](TypeOK /\ CountsHeldLocks)
<1>1. PreemptInv => TypeOK /\ CountsHeldLocks
  BY InvImplies DEF PreemptInv
<1> QED BY <1>1, InitInv, NextInv, PTL DEF Spec
=============================================================================
