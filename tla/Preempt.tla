------------------------------ MODULE Preempt ------------------------------
(***************************************************************************)
(* Spinlocks on the one CPU (include/kernel/sync/spinlock.h), the          *)
(* preemption counter of src/kernel/sched/scheduler.cpp and the timer      *)
(* interrupt of src/kernel/core/irq.cpp.                                   *)
(*                                                                         *)
(* Processes take and release one spinlock, with interrupts on (spin, cs,  *)
(* free) or off (the _irq positions), and may give it up in scheduler_wait.*)
(* The timer interrupts any position where interrupts are on.  Which ready *)
(* process runs next is left open; module Scheduler chooses it.            *)
(* g_sched_lock is taken by the process that is switched out and released  *)
(* by the one that is switched in, each on its own counter.                *)
(***************************************************************************)
EXTENDS Integers

CONSTANT Procs      \* the processes

VARIABLES current,  \* the running process
          rs,       \* process -> "new", "ready", "running" or "waiting"
          pc,       \* process -> where it is in the lock's code
          count,    \* process -> preempt_count
          pending,  \* process -> preempt_pending, 0 or 1
          owed,     \* process -> should_yield of preempt_enable, 0 or 1
          holder    \* the processes that set the lock word and did not clear it

vars == <<current, rs, pc, count, pending, owed, holder>>

IrqOff == {"spin_irq", "cs_irq", "free_irq", "again_irq"}
Positions == {"run", "spin", "cs", "free", "again"} \cup IrqOff
Holding == {"cs", "cs_irq"}

TypeOK ==
    /\ current \in Procs
    /\ rs \in [Procs -> {"new", "ready", "running", "waiting"}]
    /\ pc \in [Procs -> Positions]
    /\ count \in [Procs -> Nat]
    /\ pending \in [Procs -> {0, 1}]
    /\ owed \in [Procs -> {0, 1}]
    /\ holder \subseteq Procs

(* One process runs; the others have been created and have not run yet. *)
Init ==
    /\ current \in Procs
    /\ rs = [p \in Procs |-> IF p = current THEN "running" ELSE "new"]
    /\ pc = [p \in Procs |-> "run"]
    /\ count = [p \in Procs |-> 0]
    /\ pending = [p \in Procs |-> 0]
    /\ owed = [p \in Procs |-> 0]
    /\ holder = {}

-----------------------------------------------------------------------------
(* Mutant: a counter that is zero is decremented too. *)
Dec_unguarded(c) == c - 1
Dec(c) == IF c > 0 THEN c - 1 ELSE 0

(* spinlock_acquire and spinlock_acquire_irqsave count first               *)
(* (preempt_disable) and then spin on the lock word.                       *)
spinlock_acquire(from, to) ==
    /\ owed[current] = 0 /\ pc[current] = from
    /\ pc' = [pc EXCEPT ![current] = to]
    /\ count' = [count EXCEPT ![current] = @ + 1]
    /\ UNCHANGED <<current, rs, pending, owed, holder>>

test_and_set(from, to) ==
    /\ pc[current] = from
    /\ holder = {}
    /\ holder' = {current}
    /\ pc' = [pc EXCEPT ![current] = to]
    /\ UNCHANGED <<current, rs, count, pending, owed>>

spinlock_release(from, to) ==
    /\ pc[current] = from
    /\ holder' = holder \ {current}
    /\ pc' = [pc EXCEPT ![current] = to]
    /\ UNCHANGED <<current, rs, count, pending, owed>>

(* Mutant: a tick that was put off is forgotten. *)
preempt_enable_forgets(from) ==
    /\ pc[current] = from
    /\ pc' = [pc EXCEPT ![current] = "run"]
    /\ count' = [count EXCEPT ![current] = Dec(@)]
    /\ UNCHANGED <<current, rs, pending, owed, holder>>

preempt_enable(from) ==
    LET c == Dec(count[current])
        should_yield == c = 0 /\ pending[current] = 1
    IN  /\ pc[current] = from
        /\ pc' = [pc EXCEPT ![current] = "run"]
        /\ count' = [count EXCEPT ![current] = c]
        /\ pending' = [pending EXCEPT ![current] = IF should_yield THEN 0 ELSE @]
        /\ owed' = [owed EXCEPT ![current] = IF should_yield THEN 1 ELSE @]
        /\ UNCHANGED <<current, rs, holder>>

-----------------------------------------------------------------------------
(* scheduler_schedule_internal with its lock: counted is the counters once *)
(* the process that goes has taken g_sched_lock, cleared the flags it      *)
(* leaves; the process that comes releases g_sched_lock, which is a        *)
(* preempt_enable of its own.                                              *)
Switch(goes, next, counted, cleared) ==
    LET c == Dec(counted[next])
        should_yield == c = 0 /\ pending[next] = 1
    IN  /\ current' = next
        /\ rs' = [rs EXCEPT ![current] = goes, ![next] = "running"]
        /\ count' = [counted EXCEPT ![next] = c]
        /\ pending' = [pending EXCEPT ![next] = IF should_yield THEN 0 ELSE @]
        /\ owed' = [cleared EXCEPT ![next] = IF should_yield THEN 1 ELSE @]

Runnable == {p \in Procs : rs[p] \in {"new", "ready"}}
SchedLocked == [count EXCEPT ![current] = @ + 1]
Schedule(cleared) ==
    \E next \in Runnable \cup {current} : Switch("ready", next, SchedLocked, cleared)

(* Mutant: the timer switches whatever the counter says. *)
irq_handler_unchecked ==
    /\ pc[current] \notin IrqOff
    /\ Schedule(owed)
    /\ UNCHANGED <<pc, holder>>

(* The timer interrupt: put off while the counter is positive. *)
irq_handler ==
    /\ pc[current] \notin IrqOff
    /\ IF count[current] > 0
       THEN /\ pending' = [pending EXCEPT ![current] = 1]
            /\ UNCHANGED <<current, rs, count, owed>>
       ELSE Schedule(owed)
    /\ UNCHANGED <<pc, holder>>

(* preempt_enable's own call, or one a process makes of itself. *)
scheduler_yield ==
    /\ pc[current] = "run" \/ owed[current] = 1
    /\ Schedule([owed EXCEPT ![current] = 0])
    /\ UNCHANGED <<pc, holder>>

(* Mutant: the lock is not released before the switch. *)
scheduler_wait_keeps_lock ==
    /\ pc[current] \in Holding
    /\ \E next \in Runnable : Switch("waiting", next, [count EXCEPT ![current] = Dec(@ + 1)], owed)
    /\ pc' = [pc EXCEPT ![current] = IF @ = "cs" THEN "again" ELSE "again_irq"]
    /\ UNCHANGED holder

(* scheduler_wait with the lock held: the counter goes to two with         *)
(* g_sched_lock and back to one with the release of the lock, and the      *)
(* process takes the lock again when it is woken.                          *)
scheduler_wait ==
    /\ pc[current] \in Holding
    /\ \E next \in Runnable : Switch("waiting", next, [count EXCEPT ![current] = Dec(@ + 1)], owed)
    /\ holder' = holder \ {current}
    /\ pc' = [pc EXCEPT ![current] = IF @ = "cs" THEN "again" ELSE "again_irq"]

(* A wake by any process or interrupt handler. *)
wake(p) ==
    /\ rs[p] = "waiting"
    /\ rs' = [rs EXCEPT ![p] = "ready"]
    /\ UNCHANGED <<current, pc, count, pending, owed, holder>>

Step ==
    \/ spinlock_acquire("run", "spin") \/ spinlock_acquire("run", "spin_irq")
    \/ spinlock_acquire("again", "spin") \/ spinlock_acquire("again_irq", "spin_irq")
    \/ test_and_set("spin", "cs") \/ test_and_set("spin_irq", "cs_irq")
    \/ spinlock_release("cs", "free") \/ spinlock_release("cs_irq", "free_irq")
    \/ preempt_enable("free") \/ preempt_enable("free_irq")
    \/ scheduler_yield

Next == Step \/ scheduler_wait \/ irq_handler \/ \E p \in Procs : wake(p)

(* The CPU executes: the running process takes its next step if it can.    *)
Spec == Init /\ [][Next]_vars /\ WF_vars(Step)

-----------------------------------------------------------------------------
(* A process that is not running holds no spinlock: neither the timer nor  *)
(* a yield switches away from a critical section.  So the running process  *)
(* never spins on a lock word that only a preempted process could clear.   *)
HolderRuns ==
    /\ holder \subseteq {current}
    /\ pc[current] \in {"spin", "spin_irq"} => holder = {}

(* The counter counts: of a running process, the spinlocks it has taken or *)
(* is taking; of a process switched out, g_sched_lock alone, which is why  *)
(* the process that comes can release it on its own counter.               *)
CountsHeldLocks ==
    \A p \in Procs :
        count[p] = CASE rs[p] = "new" -> 0
                     [] rs[p] = "running" ->
                            IF pc[p] \in {"run", "again", "again_irq"} THEN 0 ELSE 1
                     [] OTHER -> 1

(* A tick that came while the counter was positive is served: the process  *)
(* yields, or waits, before it goes on.                                    *)
DeferredTickIsServed ==
    \A p \in Procs : (pending[p] = 1 /\ p = current) ~> (pending[p] = 0 \/ p # current)
=============================================================================
