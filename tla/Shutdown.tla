------------------------------ MODULE Shutdown ------------------------------
(***************************************************************************)
(* system_reboot and system_poweroff of src/kernel/sched/scheduler.cpp on  *)
(* top of the scheduler: claiming g_shutdown_action, marking the other     *)
(* processes zombies where they are queued, and vfs_sync, which runs with  *)
(* interrupts on and may be preempted, before the CPU is stopped.          *)
(***************************************************************************)
EXTENDS Scheduler

VARIABLES g_shutdown_action,  \* 0: none, 1: reboot, 2: power off
          stage,              \* process -> how far it is in shutdown_prepare
          synced,             \* vfs_sync has returned
          cpu                 \* "on", "halted" in halt_forever, or "off"

shutdown_vars == <<k, g_shutdown_action, stage, synced, cpu>>

ShutdownInit ==
    /\ Init
    /\ g_shutdown_action = 0 /\ synced = FALSE /\ cpu = "on"
    /\ stage = [p \in Pids |-> "none"]

(* The test and the claim are one step: interrupts are off. *)
shutdown_prepare(action) ==
    /\ cpu = "on" /\ Free /\ k.space[Current] # KernelSpace /\ stage[Current] = "none"
    /\ IF g_shutdown_action # 0
       THEN cpu' = "halted" /\ UNCHANGED <<g_shutdown_action, stage>>
       ELSE /\ g_shutdown_action' = action
            /\ stage' = [stage EXCEPT ![Current] = "mark"]
            /\ UNCHANGED cpu
    /\ UNCHANGED <<k, synced>>

(* State only: the processes stay linked where they are. *)
shutdown_mark_user_processes_zombie ==
    /\ cpu = "on" /\ ~Reaper /\ stage[Current] = "mark"
    /\ k' = [k EXCEPT !.state = [p \in Pids |-> IF p \in k.list /\ p > 1 /\ p # Current
                                               THEN "Zombie" ELSE k.state[p]]]
    /\ stage' = [stage EXCEPT ![Current] = "sync"]
    /\ UNCHANGED <<g_shutdown_action, synced, cpu>>

vfs_sync ==
    /\ cpu = "on" /\ ~Reaper /\ stage[Current] = "sync"
    /\ synced' = TRUE
    /\ stage' = [stage EXCEPT ![Current] = "stop"]
    /\ UNCHANGED <<k, g_shutdown_action, cpu>>

(* Interrupts are off from the return of vfs_sync on. *)
system_off ==
    /\ cpu = "on" /\ stage[Current] = "stop"
    /\ cpu' = "off"
    /\ UNCHANGED <<k, g_shutdown_action, stage, synced>>

(* The rest of the kernel; a process inside shutdown_prepare makes no call. *)
Others ==
    /\ cpu = "on" /\ stage[Current] # "stop"
    /\ IF stage[Current] = "none" THEN Next ELSE irq_handler \/ reap_kernel_zombies
    /\ UNCHANGED <<g_shutdown_action, stage, synced, cpu>>

ShutdownNext ==
    \/ \E action \in {1, 2} : shutdown_prepare(action)
    \/ shutdown_mark_user_processes_zombie \/ vfs_sync \/ system_off \/ Others

ShutdownSpec == ShutdownInit /\ [][ShutdownNext]_shutdown_vars

(* "Shutdown already in progress; ignoring duplicate request."             *)
(* (src/kernel/sched/scheduler.cpp:608): a second request does not stop    *)
(* the machine while the first is still writing the file systems back.     *)
DuplicateIsIgnored == cpu = "halted" => synced
=============================================================================
