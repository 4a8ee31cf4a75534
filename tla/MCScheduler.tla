---------------------------- MODULE MCScheduler ----------------------------
(***************************************************************************)
(* Instances of the scheduler.  All of it runs with one process beside     *)
(* pid 0 and the idle task; with two, life cycles and blocking run apart.  *)
(***************************************************************************)
EXTENDS Scheduler

VARIABLE workload

ShortSlices == [l \in Levels |-> 1]
UnequalSlices == [l \in Levels |-> IF l = 0 THEN 1 ELSE 2]

AllInit == Init /\ workload \in {"small", "lifecycle", "blocking"}

Small == workload = "small" /\ Next /\ k'.next_pid <= 3 /\ UNCHANGED workload
Lives == workload = "lifecycle" /\ Lifecycle /\ UNCHANGED workload
Waits == workload = "blocking" /\ Blocking /\ UNCHANGED workload

AllSpec == AllInit /\ [][Small \/ Lives \/ Waits]_<<k, workload>>

(* Tasks that only compute.  The timer keeps ticking, which is the only    *)
(* fairness (the interrupt is always enabled, so that it recurs is its     *)
(* weak fairness); whether a task yields is its own affair.                *)
Computes == Computing /\ UNCHANGED workload
ComputingInit == Init /\ workload = "computing"
ComputingSpec == ComputingInit /\ [][Computes]_<<k, workload>> /\ []<><<irq_handler>>_k

(* Life cycles with exec by a process that has threads. *)
ExecSpec == Init /\ workload = "exec" /\ [][(Lifecycle \/ do_exec) /\ UNCHANGED workload]_<<k, workload>>
=============================================================================
