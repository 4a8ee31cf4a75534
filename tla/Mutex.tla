------------------------------- MODULE Mutex -------------------------------
(***************************************************************************)
(* The sleeping mutex of src/kernel/sync/mutex.cpp: wake-one with barging, *)
(* a try-lock that bypasses wait_lock, and priority inheritance.           *)
(*                                                                         *)
(* wait_lock is held with interrupts off, so on the one CPU everything     *)
(* mutex_lock and mutex_unlock do under it is one step; mutex_try_lock     *)
(* takes no lock and can be preempted between its two writes.  A waiter is *)
(* also woken by signals and by the exit of a child (wake_process).  The   *)
(* spinning fallback of mutex_lock before the scheduler starts is left     *)
(* out, and so are the scheduler's own changes of priority.                *)
(***************************************************************************)
EXTENDS Integers, Sequences, FiniteSets

CONSTANTS Procs,        \* the pids that use the mutex
          Base          \* pid -> the priority it starts with, 0 the highest

ASSUME MutexAssumption == Procs \subseteq Nat \ {0} /\ Base \in [Procs -> 0 .. 2]

VARIABLES locked,       \* the lock word, 0 or 1
          owner_pid,    \* 0: none
          wait_queue,   \* the waiting processes, the head first
          priority,     \* pid -> priority
          pc            \* pid -> position

vars == <<locked, owner_pid, wait_queue, priority, pc>>

(* outside; enter: woken, about to try again inside mutex_lock; wait: in   *)
(* the queue; tried: the try-lock has set the word; owned: holds it.       *)
Positions == {"outside", "enter", "wait", "tried", "owned"}

TypeOK ==
    /\ locked \in {0, 1}
    /\ owner_pid \in Procs \cup {0}
    /\ wait_queue \in Seq(Procs)
    /\ priority \in [Procs -> 0 .. 2]
    /\ pc \in [Procs -> Positions]

Init ==
    /\ locked = 0 /\ owner_pid = 0 /\ wait_queue = <<>>
    /\ priority = Base
    /\ pc = [p \in Procs |-> "outside"]

(* Mutant: the word is written without testing it. *)
test_and_set_blind(p) == locked' = 1 /\ owner_pid' = p /\ pc' = [pc EXCEPT ![p] = "owned"]

acquire(p) ==
    /\ locked = 0
    /\ locked' = 1 /\ owner_pid' = p
    /\ pc' = [pc EXCEPT ![p] = "owned"]
    /\ UNCHANGED <<wait_queue, priority>>

(* scheduler_boost_process_priority of the owner, if there is one.         *)
inherit(p) ==
    priority' = IF owner_pid # 0 /\ priority[owner_pid] > priority[p]
                THEN [priority EXCEPT ![owner_pid] = priority[p]] ELSE priority

block(p) ==
    /\ locked = 1
    /\ inherit(p)
    /\ wait_queue' = Append(wait_queue, p)
    /\ pc' = [pc EXCEPT ![p] = "wait"]
    /\ UNCHANGED <<locked, owner_pid>>

(* Mutant: a woken process takes the mutex without looking at the word. *)
mutex_lock_after_wake_owns(p) ==
    \/ pc[p] = "outside" /\ (acquire(p) \/ block(p))
    \/ pc[p] = "enter" /\ test_and_set_blind(p) /\ UNCHANGED <<wait_queue, priority>>

mutex_lock(p) ==
    /\ pc[p] \in {"outside", "enter"}
    /\ acquire(p) \/ block(p)

mutex_try_lock(p) ==
    /\ pc[p] = "outside" /\ locked = 0
    /\ locked' = 1
    /\ pc' = [pc EXCEPT ![p] = "tried"]
    /\ UNCHANGED <<owner_pid, wait_queue, priority>>

mutex_try_lock_owner(p) ==
    /\ pc[p] = "tried"
    /\ owner_pid' = p
    /\ pc' = [pc EXCEPT ![p] = "owned"]
    /\ UNCHANGED <<locked, wait_queue, priority>>

(* q without its i-th element. *)
RemoveAt(q, i) == [j \in 1 .. Len(q) - 1 |-> IF j < i THEN q[j] ELSE q[j + 1]]

(* Mutants: nobody is woken when the queue has one waiter; the last waiter *)
(* is woken instead of the first.                                          *)
mutex_unlock_skips_last(p) ==
    /\ pc[p] = "owned"
    /\ locked' = 0 /\ owner_pid' = 0
    /\ wait_queue' = IF Len(wait_queue) < 2 THEN wait_queue ELSE Tail(wait_queue)
    /\ pc' = IF Len(wait_queue) < 2 THEN [pc EXCEPT ![p] = "outside"]
             ELSE [pc EXCEPT ![p] = "outside", ![Head(wait_queue)] = "enter"]
    /\ UNCHANGED priority
mutex_unlock_wakes_tail(p) ==
    /\ pc[p] = "owned"
    /\ locked' = 0 /\ owner_pid' = 0
    /\ wait_queue' = IF wait_queue = <<>> THEN <<>> ELSE RemoveAt(wait_queue, Len(wait_queue))
    /\ pc' = IF wait_queue = <<>> THEN [pc EXCEPT ![p] = "outside"]
             ELSE [pc EXCEPT ![p] = "outside", ![wait_queue[Len(wait_queue)]] = "enter"]
    /\ UNCHANGED priority

mutex_unlock(p) ==
    /\ pc[p] = "owned"
    /\ locked' = 0 /\ owner_pid' = 0
    /\ wait_queue' = IF wait_queue = <<>> THEN <<>> ELSE Tail(wait_queue)
    /\ pc' = IF wait_queue = <<>> THEN [pc EXCEPT ![p] = "outside"]
             ELSE [pc EXCEPT ![p] = "outside", ![Head(wait_queue)] = "enter"]
    /\ UNCHANGED priority

(* A wake that has nothing to do with the mutex takes a waiter out of the  *)
(* middle of the queue; it tries again.                                    *)
scheduler_wake_process(i) ==
    /\ wait_queue' = RemoveAt(wait_queue, i)
    /\ pc' = [pc EXCEPT ![wait_queue[i]] = "enter"]
    /\ UNCHANGED <<locked, owner_pid, priority>>

Next ==
    \/ \E p \in Procs : \/ mutex_lock(p) \/ mutex_try_lock(p) \/ mutex_try_lock_owner(p)
                        \/ mutex_unlock(p)
    \/ \E i \in 1 .. Len(wait_queue) : scheduler_wake_process(i)

(* A process inside mutex_lock or holding the mutex gets the CPU and goes  *)
(* on; nobody has to ask for the mutex.                                    *)
Fairness ==
    \A p \in Procs : /\ WF_vars(pc[p] = "enter" /\ mutex_lock(p))
                     /\ WF_vars(mutex_try_lock_owner(p))
                     /\ WF_vars(mutex_unlock(p))

Spec == Init /\ [][Next]_vars /\ Fairness

-----------------------------------------------------------------------------
(* One process at most is between lock (or a successful try-lock) and      *)
(* unlock, and the word says whether one is; owner_pid names it once it    *)
(* has been written.                                                       *)
Holders == {p \in Procs : pc[p] \in {"tried", "owned"}}
MutualExclusion ==
    /\ \A p, q \in Holders : p = q
    /\ locked = 1 <=> Holders # {}
    /\ \A p \in Procs : pc[p] = "owned" => owner_pid = p

(* No waiter is forgotten: when the mutex is free and processes wait, one  *)
(* that was woken is on its way to try again, and its unlock wakes the     *)
(* next.                                                                   *)
NoStrandedWaiter == locked = 0 /\ wait_queue # <<>> => \E p \in Procs : pc[p] = "enter"

(* "it guarantees forward progress for waiters without a thundering herd"  *)
(* (mutex.cpp:60-61): as long as holders unlock, every waiter is woken,    *)
(* although newcomers may take the mutex before it.                        *)
WaitersAreWoken == \A p \in Procs : pc[p] = "wait" ~> pc[p] # "wait"

(* "Priority inheritance: boost the lock owner's priority to match our     *)
(* priority if ours is higher." (mutex.cpp:25): no waiter is more urgent   *)
(* than the owner, whoever the owner is by now.                            *)
OwnerInherits ==
    owner_pid # 0 => \A i \in 1 .. Len(wait_queue) : priority[owner_pid] <= priority[wait_queue[i]]
=============================================================================
