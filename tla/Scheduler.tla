----------------------------- MODULE Scheduler -----------------------------
(***************************************************************************)
(* The process table and the multi-level feedback scheduler of             *)
(* src/kernel/sched/scheduler.cpp: ready queues, the delta-coded sleep     *)
(* queue, wait queues, creation, exit, waitpid and the two-phase reaping   *)
(* of zombies.                                                             *)
(*                                                                         *)
(* The kernel runs one CPU and every queue operation holds g_sched_lock    *)
(* with interrupts off, so one function called under the lock is one step. *)
(* A C function that edits the scheduler's structures is an operator from  *)
(* the state record to the state record, and an action assigns k' the      *)
(* composition of the operators its handler calls.  A pid names its        *)
(* Process structure: g_next_pid only grows.                               *)
(***************************************************************************)
EXTENDS Integers, Sequences, FiniteSets

CONSTANTS MaxPid,       \* bound on g_next_pid
          Slice,        \* priority -> ticks before demotion (5, 20, 50)
          MaxSleep,     \* bound on the ticks a process sleeps for
          MaxLag,       \* bound on the ticks between two schedules
          OtherQueues,  \* wait queues of mutexes, pipes and the display
          Interactive   \* the window manager's and the focused pid

NoPid == -1
Kernel == 0
Idle == 1
Pids == 0 .. MaxPid
Levels == 0 .. 2

ASSUME ConstantsAssumption ==
    /\ MaxPid \in Nat \ {0}
    /\ MaxSleep \in Nat /\ MaxLag \in Nat
    /\ Slice \in [Levels -> Nat \ {0}]
    /\ Interactive \subseteq Pids \ {Kernel}

(* g_epoll_wait_queue, the two wait queues inside a Process, and the rest. *)
Epoll == <<"epoll", Kernel>>
WaitQueue(p) == <<"wait", p>>
EventQueue(p) == <<"event", p>>
Queues == {Epoll} \cup ({"wait", "event"} \X Pids) \cup ({"other"} \X OtherQueues)
NoQueue == <<"none", Kernel>>

VARIABLE k      \* the scheduler's static variables and the Process fields

(* Address spaces: the kernel's, one per process created with its own, and *)
(* one for the program each process executes.                              *)
KernelSpace == 0
ExecSpace(p) == MaxPid + 1 + p
Spaces == 0 .. 2 * MaxPid + 1

(* The fields of k.  space stands for the page table a process uses;       *)
(* due is the number of ticks a sleeper still has to wait, kept beside the *)
(* code's wake_time deltas to say what they mean; call, reaping and dying  *)
(* are the position of a process inside waitpid, reap_kernel_zombies and   *)
(* process_free_reaped.                                                    *)
States == {"Unused", "Ready", "Running", "Waiting", "Sleeping", "Zombie"}
Dying == [pid: Pids, at: {"detached", "free", "keep"}]
NotDying == [pid |-> NoPid, at |-> "keep"]
NoCall == -2
AnyChild == -1

TypeOK ==
    /\ k.list \subseteq Pids
    /\ k.current \in Pids /\ k.next_pid \in 1 .. MaxPid + 1
    /\ k.state \in [Pids -> States]
    /\ k.parent \in [Pids -> Pids]
    /\ k.children \in [Pids -> Seq(Pids)]
    /\ k.priority \in [Pids -> Levels]
    /\ k.time_slice \in [Pids -> Nat]
    /\ k.space \in [Pids -> Spaces] /\ k.freed_spaces \subseteq Spaces
    /\ k.ready \in [Levels -> Seq(Pids)]
    /\ k.sleepq \in Seq([pid: Pids, wake_time: Nat])
    /\ k.waiters \in [Queues -> Seq(Pids)]
    /\ k.waiting_queue \in [Pids -> Queues \cup {NoQueue}]
    /\ k.due \in [Pids -> Int]
    /\ k.call \in [Pids -> Pids \cup {AnyChild, NoCall}]
    /\ k.reaping \in [Pids -> BOOLEAN]
    /\ k.dying \in [Pids -> Dying \cup {NotDying}]

Members(q) == {q[i] : i \in DOMAIN q}
Without(q, p) == SelectSeq(q, LAMBDA x : x # p)
Least(S) == CHOOSE n \in S : \A m \in S : n <= m
Greatest(S) == CHOOSE n \in S : \A m \in S : n >= m

-----------------------------------------------------------------------------
(* Ready queues. *)

(* Sources of priority 0: the window manager, the focused process, and     *)
(* their children.                                                         *)
interactive_boost_if_needed(s, p) ==
    IF p # Kernel /\ (p \in Interactive \/ s.parent[p] \in Interactive)
    THEN [s EXCEPT !.priority[p] = 0] ELSE s

ready_queue_push(s, p) == [s EXCEPT !.ready[s.priority[p]] = Append(@, p)]

scheduler_remove_from_ready_queue(s, p) ==
    [s EXCEPT !.ready = [l \in Levels |-> Without(s.ready[l], p)]]

make_ready(s, p) ==
    ready_queue_push(interactive_boost_if_needed([s EXCEPT !.state[p] = "Ready"], p), p)

scheduler_boost_process_priority(s, p, new) ==
    IF s.priority[p] > new
    THEN LET t == [scheduler_remove_from_ready_queue(s, p) EXCEPT !.priority[p] = new]
         IN  IF s.state[p] = "Ready" THEN ready_queue_push(t, p) ELSE t
    ELSE s

-----------------------------------------------------------------------------
(* Wait queues. *)

wait_queue_push(s, q, p) ==
    [s EXCEPT !.state[p] = "Waiting", !.waiting_queue[p] = q,
              !.waiters[q] = Append(@, p)]

wait_queue_remove(s, q, p) ==
    IF p \in Members(s.waiters[q])
    THEN [s EXCEPT !.waiters[q] = Without(@, p), !.waiting_queue[p] = NoQueue]
    ELSE s

(* A process taken off a wait queue runs again only if it was waiting. *)
wake_if_waiting(s, p) == IF s.state[p] = "Waiting" THEN make_ready(s, p) ELSE s

wake_head(s, q) ==
    LET p == Head(s.waiters[q])
    IN  wake_if_waiting([s EXCEPT !.waiters[q] = Tail(@), !.waiting_queue[p] = NoQueue], p)

wait_queue_wake_all(s, q) ==
    LET woken[n \in 0 .. Len(s.waiters[q])] ==
            IF n = 0 THEN s ELSE wake_head(woken[n - 1], q)
    IN  woken[Len(s.waiters[q])]

(* Mutant: the process is made ready but stays linked into its wait queue. *)
wake_process_keeps_link(s, p) == wake_if_waiting(s, p)

scheduler_wake_process_locked(s, p) ==
    wake_if_waiting(IF s.waiting_queue[p] # NoQueue
                    THEN wait_queue_remove(s, s.waiting_queue[p], p) ELSE s, p)

(* Every wake of another queue also wakes the epoll waiters. *)
scheduler_wake_all(s, q) ==
    LET t == wait_queue_wake_all(s, q)
    IN  IF q # Epoll THEN wait_queue_wake_all(t, Epoll) ELSE t

scheduler_wake_one(s, q) ==
    IF s.waiters[q] = <<>> THEN s
    ELSE LET t == wake_head(s, q)
         IN  IF q # Epoll /\ t.waiters[Epoll] # <<>> THEN wake_head(t, Epoll) ELSE t

-----------------------------------------------------------------------------
(* The sleep queue: entry i holds the ticks between the wake-ups of entry  *)
(* i - 1 and of entry i.                                                   *)

Deltas(q) == LET sum[n \in 0 .. Len(q)] == IF n = 0 THEN 0 ELSE sum[n - 1] + q[n].wake_time
             IN  sum

(* Mutant: the entry behind the new one keeps its delta. *)
sleep_queue_push_keeps_next(s, p, ticks) ==
    LET q == s.sleepq
        sum == Deltas(q)
        n == Greatest({i \in 0 .. Len(q) : sum[i] <= ticks})
    IN  [s EXCEPT !.state[p] = "Sleeping", !.due[p] = ticks,
                  !.sleepq = SubSeq(q, 1, n) \o <<[pid |-> p, wake_time |-> ticks - sum[n]]>>
                             \o SubSeq(q, n + 1, Len(q))]

(* The walk passes every entry that wakes no later than ticks. *)
sleep_queue_push(s, p, ticks) ==
    LET q == s.sleepq
        sum == Deltas(q)
        n == Greatest({i \in 0 .. Len(q) : sum[i] <= ticks})
        rest == SubSeq(q, n + 1, Len(q))
        left == ticks - sum[n]
    IN  [s EXCEPT !.state[p] = "Sleeping", !.due[p] = ticks,
                  !.sleepq = SubSeq(q, 1, n) \o <<[pid |-> p, wake_time |-> left]>>
                             \o (IF rest = <<>> THEN <<>>
                                 ELSE [rest EXCEPT ![1].wake_time = @ - left])]

wake_sleeper(s, p) ==
    LET t == [s EXCEPT !.state[p] = "Ready", !.due[p] = IF @ <= 0 THEN 0 ELSE @,
                       !.priority[p] = IF @ > 0 /\ p # Kernel THEN @ - 1 ELSE @]
    IN  ready_queue_push(interactive_boost_if_needed(t, p), p)

(* diff ticks have passed since the last call.  The loop stops once diff   *)
(* is used up, so a sleeper whose delta is zero waits for the next tick.   *)
wake_sleeping_processes(s, diff) ==
    LET q == s.sleepq
        sum == Deltas(q)
        n == Greatest({i \in 0 .. Len(q) : sum[i] <= diff /\ (i > 0 => sum[i - 1] < diff)})
        rest == SubSeq(q, n + 1, Len(q))
        t == [s EXCEPT !.due = [p \in Pids |-> IF s.state[p] = "Sleeping" THEN s.due[p] - diff
                                               ELSE s.due[p]],
                       !.sleepq = IF rest = <<>> THEN <<>>
                                  ELSE [rest EXCEPT ![1].wake_time = @ - (diff - sum[n])]]
        woken[i \in 0 .. n] == IF i = 0 THEN t ELSE wake_sleeper(woken[i - 1], q[i].pid)
    IN  IF diff = 0 THEN s ELSE woken[n]

-----------------------------------------------------------------------------
(* Choosing the next process. *)

(* Mutants: no lowest level; no demotion. *)
requeue_current_below_lowest(s) ==
    LET c == s.current
        spent == s.time_slice[c] >= Slice[s.priority[c]]
        t == [s EXCEPT !.state[c] = "Ready",
                       !.time_slice[c] = IF spent THEN 0 ELSE @,
                       !.priority[c] = IF spent /\ c # Kernel THEN @ + 1 ELSE @]
    IN  ready_queue_push(t, c)
requeue_current_same_level(s) == ready_queue_push([s EXCEPT !.state[s.current] = "Ready"], s.current)

(* A running process goes back to the tail of its queue, one level lower   *)
(* when its slice is used up.                                              *)
requeue_current(s) ==
    LET c == s.current
        spent == s.time_slice[c] >= Slice[s.priority[c]]
        t == [s EXCEPT !.state[c] = "Ready",
                       !.time_slice[c] = IF spent THEN 0 ELSE @,
                       !.priority[c] = IF spent /\ @ < 2 /\ c # Kernel THEN @ + 1 ELSE @]
    IN  ready_queue_push(t, c)

(* ready_queue_pop, or the kernel process when nothing is ready. *)
ReadyLevels(s) == {l \in Levels : s.ready[l] # <<>>}
switch_to_next(s) ==
    IF ReadyLevels(s) = {}
    THEN [s EXCEPT !.current = Kernel, !.state[Kernel] = "Running"]
    ELSE LET l == Least(ReadyLevels(s))
             p == Head(s.ready[l])
         IN  [s EXCEPT !.ready[l] = Tail(@), !.current = p, !.state[p] = "Running"]

(* time_slice is only compared with the slice, so it is kept at the bound. *)
MaxSlice == Greatest({Slice[l] : l \in Levels})
scheduler_schedule_internal(s, diff) ==
    LET ran == [s EXCEPT !.time_slice[s.current] = IF @ < MaxSlice THEN @ + 1 ELSE @]
        t == wake_sleeping_processes(ran, diff)
    IN  switch_to_next(IF t.state[t.current] = "Running" THEN requeue_current(t) ELSE t)

-----------------------------------------------------------------------------
(* Creation and exit. *)

(* The fields every way of creating a process sets under the lock. *)
add_process(s, level, space) ==
    LET n == s.next_pid
        c == s.current
    IN  ready_queue_push([s EXCEPT !.next_pid = n + 1, !.list = @ \cup {n},
                                   !.state[n] = "Ready", !.parent[n] = c,
                                   !.priority[n] = level, !.space[n] = space,
                                   !.children[c] = <<n>> \o @], n)

(* Mutants: parent_pid is not updated; the children are not given away. *)
children_keep_parent(s, p) ==
    [s EXCEPT !.children = [s.children EXCEPT ![Idle] = s.children[p] \o @, ![p] = <<>>]]
children_not_given(s, p) == s

(* The children of an exiting process go to the front of Idle's list. *)
give_children_to_init(s, p) ==
    [s EXCEPT !.parent = [c \in Pids |-> IF c \in Members(s.children[p]) THEN Idle
                                         ELSE s.parent[c]],
              !.children = [s.children EXCEPT ![Idle] = s.children[p] \o @, ![p] = <<>>]]

(* Mutant: only the exiting process's own wait queue is woken. *)
exit_process_only_queue(s, p) ==
    wait_queue_wake_all(give_children_to_init([s EXCEPT !.state[p] = "Zombie"], p), WaitQueue(p))

exit_process(s, p) ==
    LET t == wait_queue_wake_all(
                 give_children_to_init([s EXCEPT !.state[p] = "Zombie"], p), WaitQueue(p))
        father == t.parent[p]
    IN  IF father \in t.list /\ t.state[father] = "Waiting"
        THEN scheduler_wake_process_locked(t, father) ELSE t

(* Unlink a zombie from its parent's children and from the process list;   *)
(* the process that did it frees the structure afterwards.                 *)
detach(s, target) ==
    [s EXCEPT !.list = @ \ {target},
              !.children[s.parent[target]] = Without(@, target),
              !.dying[s.current] = [pid |-> target, at |-> "detached"]]

kernel_zombies(s) ==
    {p \in s.list \ {s.current, Kernel} : s.parent[p] = Kernel /\ s.state[p] = "Zombie"}

-----------------------------------------------------------------------------
(* The actions.  Current is the running process; Free says that it is not  *)
(* inside waitpid or a reaper, so that it may make any call.  The idle     *)
(* task only halts, and pid 0 and pid 1 never return.                      *)

Current == k.current
Reaper == k.reaping[Current] \/ k.dying[Current] # NotDying
Free == Current # Idle /\ ~Reaper /\ k.call[Current] = NoCall

(* One timer interrupt or a yield, diff ticks after the last schedule; the *)
(* process reaps the kernel's zombies when it runs again.                  *)
scheduler_schedule(diff) ==
    k' = scheduler_schedule_internal([k EXCEPT !.reaping[Current] = TRUE], diff)

irq_handler == \E diff \in 1 .. MaxLag : scheduler_schedule(diff)

scheduler_yield == Free /\ scheduler_schedule(0)

reap_kernel_zombies ==
    /\ k.reaping[Current] /\ k.dying[Current] = NotDying
    /\ k' = IF kernel_zombies(k) = {} THEN [k EXCEPT !.reaping[Current] = FALSE]
            ELSE detach(k, Least(kernel_zombies(k)))

(* Mutant: the page table is freed without looking for other users. *)
process_free_reaped_unchecked ==
    LET d == k.dying[Current]
    IN  /\ d.at = "detached"
        /\ k' = [k EXCEPT !.dying[Current].at =
                     IF k.space[d.pid] = KernelSpace THEN "keep" ELSE "free"]

(* Under the lock: is the page table used by a process still in the list?  *)
process_free_reaped_check ==
    LET d == k.dying[Current]
        shared == \E p \in k.list \ {d.pid} : k.space[p] = k.space[d.pid]
    IN  /\ d.at = "detached"
        /\ k' = [k EXCEPT !.dying[Current].at =
                     IF shared \/ k.space[d.pid] = KernelSpace THEN "keep" ELSE "free"]

(* After the unlock: free the page table if it was not, and the structure. *)
process_free_reaped_free ==
    LET d == k.dying[Current]
    IN  /\ d # NotDying /\ d.at # "detached"
        /\ k' = [k EXCEPT !.dying[Current] = NotDying,
                          !.state[d.pid] = "Unused",
                          !.freed_spaces = IF d.at = "free" THEN @ \cup {k.space[d.pid]} ELSE @]

(* kmain starts the kernel's tasks; a kernel task starts the first program *)
(* in a new address space.                                                 *)
scheduler_create_task ==
    Free /\ Current = Kernel /\ k.next_pid <= MaxPid /\ k' = add_process(k, 1, KernelSpace)

kernel_exec ==
    /\ Free /\ k.space[Current] = KernelSpace /\ k.next_pid <= MaxPid
    /\ k' = add_process(k, 1, k.next_pid)

process_fork ==
    /\ Free /\ k.space[Current] # KernelSpace /\ k.next_pid <= MaxPid
    /\ k' = add_process(k, k.priority[Current], k.next_pid)

sys_thread_create ==
    /\ Free /\ k.space[Current] # KernelSpace /\ k.next_pid <= MaxPid
    /\ k' = add_process(k, k.priority[Current], k.space[Current])

(* The old page table is freed whoever else uses it.  A process executes   *)
(* one program in the model: a bound on the address spaces.                *)
do_exec ==
    /\ Free /\ k.space[Current] \notin {KernelSpace, ExecSpace(Current)}
    /\ k' = [k EXCEPT !.space[Current] = ExecSpace(Current),
                      !.freed_spaces = @ \cup {k.space[Current]}]

(* A process that shares its page table with no other, zombies included,   *)
(* when it executes a program.                                             *)
do_exec_alone ==
    /\ \A p \in Pids \ {Current} : k.state[p] = "Unused" \/ k.space[p] # k.space[Current]
    /\ do_exec

process_exit ==
    /\ Free /\ Current # Kernel
    /\ k' = scheduler_schedule_internal(exit_process(k, Current), 0)

(* One turn of waitpid's loop: reap the first zombie that fits, or wait on *)
(* the child's queue, or on no queue at all for any child.                 *)
waitpid_turn(s, pid, nohang) ==
    LET c == s.current
        mine == s.children[c]
        fits == {i \in DOMAIN mine : s.state[mine[i]] = "Zombie" /\ pid \in {AnyChild, mine[i]}}
        done == [s EXCEPT !.call[c] = NoCall]
        waiting == [s EXCEPT !.call[c] = pid]
    IN  IF fits # {} THEN detach(done, mine[Least(fits)])
        ELSE IF nohang \/ (pid # AnyChild /\ pid \notin Members(mine)) THEN done
        ELSE scheduler_schedule_internal(
                 IF pid = AnyChild THEN [waiting EXCEPT !.state[c] = "Waiting"]
                 ELSE wait_queue_push(waiting, WaitQueue(pid), c), 0)

process_waitpid ==
    /\ Free
    /\ \E pid \in {AnyChild} \cup (k.list \ {Current}), nohang \in BOOLEAN :
           k' = waitpid_turn(k, pid, nohang)

process_waitpid_again ==
    /\ ~Reaper /\ k.call[Current] # NoCall
    /\ k' = waitpid_turn(k, k.call[Current], FALSE)

(* A lock held across the call may have put off ticks until now. *)
scheduler_wait ==
    /\ Free
    /\ \E q \in {Epoll, EventQueue(Current)} \cup ({"other"} \X OtherQueues),
          diff \in 0 .. MaxLag :
           k' = scheduler_schedule_internal(wait_queue_push(k, q, Current), diff)

scheduler_sleep ==
    /\ Free
    /\ \E ticks \in 1 .. MaxSleep :
           k' = scheduler_schedule_internal(sleep_queue_push(k, Current, ticks), 0)

(* Wakes come from any process and from interrupt handlers. *)
wake_all ==
    \E q \in {Epoll} \cup {EventQueue(p) : p \in k.list} \cup ({"other"} \X OtherQueues) :
        k' = scheduler_wake_all(k, q)

wake_one == \E q \in {"other"} \X OtherQueues : k' = scheduler_wake_one(k, q)

scheduler_wake_process == \E p \in k.list : k' = scheduler_wake_process_locked(k, p)

scheduler_notify_input_waiters ==
    LET woken[n \in 0 .. MaxPid + 1] ==
            IF n = 0 THEN k
            ELSE IF n - 1 \in k.list THEN wait_queue_wake_all(woken[n - 1], EventQueue(n - 1))
            ELSE woken[n - 1]
    IN  k' = woken[MaxPid + 1]

boost_process_priority ==
    \E p \in k.list, new \in Levels : k' = scheduler_boost_process_priority(k, p, new)

(* After scheduler_init and the creation of the idle task. *)
Init ==
    k = [list |-> {Kernel, Idle}, current |-> Kernel, next_pid |-> 2,
         state |-> [p \in Pids |-> CASE p = Kernel -> "Running" [] p = Idle -> "Ready"
                                     [] OTHER -> "Unused"],
         parent |-> [p \in Pids |-> Kernel],
         children |-> [p \in Pids |-> IF p = Kernel THEN <<Idle>> ELSE <<>>],
         priority |-> [p \in Pids |-> 2],
         time_slice |-> [p \in Pids |-> 0],
         space |-> [p \in Pids |-> KernelSpace], freed_spaces |-> {},
         ready |-> [l \in Levels |-> IF l = 1 THEN <<Idle>> ELSE <<>>],
         sleepq |-> <<>>,
         waiters |-> [q \in Queues |-> <<>>],
         waiting_queue |-> [p \in Pids |-> NoQueue],
         due |-> [p \in Pids |-> 0],
         call |-> [p \in Pids |-> NoCall],
         reaping |-> [p \in Pids |-> FALSE],
         dying |-> [p \in Pids |-> NotDying]]

Running == irq_handler \/ scheduler_yield

Lifecycle ==
    \/ Running \/ reap_kernel_zombies
    \/ process_free_reaped_check \/ process_free_reaped_free
    \/ scheduler_create_task \/ process_fork \/ sys_thread_create \/ kernel_exec
    \/ do_exec_alone \/ process_exit \/ process_waitpid \/ process_waitpid_again

Blocking ==
    \/ Running \/ reap_kernel_zombies \/ scheduler_create_task
    \/ scheduler_wait \/ scheduler_sleep
    \/ wake_all \/ wake_one \/ scheduler_wake_process \/ scheduler_notify_input_waiters
    \/ boost_process_priority

Next == Lifecycle \/ Blocking

Spec == Init /\ [][Next]_k

(* Tasks that only compute. *)
Computing == Running \/ reap_kernel_zombies \/ scheduler_create_task

-----------------------------------------------------------------------------
(* How often a process is linked into the ready, sleep and wait queues.    *)
(* They share the one queue_next link, so more than once corrupts a queue. *)
Count(q, p) == Cardinality({i \in DOMAIN q : q[i] = p})
ReadyAt(p) == {l \in Levels : p \in Members(k.ready[l])}
SleepingIn == [i \in DOMAIN k.sleepq |-> k.sleepq[i].pid]
WaitsIn(p) == {q \in Queues : p \in Members(k.waiters[q])}

(* Every process is in the one queue its state names and nowhere else: a   *)
(* ready process once in a ready queue, a sleeper once in the sleep queue, *)
(* a waiter once in the queue waiting_queue points to (none when it waits  *)
(* for any child), and the running process, zombies and freed structures   *)
(* in no queue.  The pid 0 fallback of scheduler_schedule_internal, which  *)
(* would run a process that is still queued, is therefore never taken.     *)
OneQueue ==
    /\ \A p \in Pids :
        /\ (k.state[p] = "Running") <=> (p = k.current)
        /\ Cardinality(ReadyAt(p)) = IF k.state[p] = "Ready" THEN 1 ELSE 0
        /\ p \in Members(SleepingIn) <=> k.state[p] = "Sleeping"
        /\ WaitsIn(p) = IF k.waiting_queue[p] = NoQueue THEN {} ELSE {k.waiting_queue[p]}
        /\ k.waiting_queue[p] # NoQueue => k.state[p] = "Waiting"
        /\ k.state[p] = "Waiting" /\ k.waiting_queue[p] = NoQueue => k.call[p] = AnyChild
        /\ \A l \in Levels : Count(k.ready[l], p) <= 1
        /\ Count(SleepingIn, p) <= 1
        /\ \A q \in Queues : Count(k.waiters[q], p) <= 1

(* parent_pid, children_list and the process list agree: every process but *)
(* pid 0 is once in the children of its parent, the parent is in the list  *)
(* too, and no children list holds a process that was reaped.              *)
FamilyTree ==
    \A p \in Pids :
        /\ \A c \in Members(k.children[p]) : c \in k.list /\ k.parent[c] = p
        /\ p \in k.list \ {Kernel} =>
               k.parent[p] \in k.list /\ Count(k.children[k.parent[p]], p) = 1

(* A structure that is being freed, or was freed, can no longer be reached: *)
(* it is not running, one reaper owns it, nothing waits on its queues, and  *)
(* no process in the list has it as its parent.                             *)
FreedIsUnreachable ==
    /\ \A p, q \in Pids : k.dying[p].pid = k.dying[q].pid /\ p # q => k.dying[p] = NotDying
    /\ \A p \in Pids : p < k.next_pid /\ p \notin k.list =>
           /\ p # k.current
           /\ k.waiters[WaitQueue(p)] = <<>> /\ k.waiters[EventQueue(p)] = <<>>
           /\ \A c \in k.list : k.parent[c] # p
           /\ k.state[p] = "Unused" \/ \E r \in Pids : k.dying[r].pid = p

(* A page table is freed only when no process uses it, and once: the share  *)
(* check of process_free_reaped is still true when the table is freed.      *)
SpacesFreedOnce ==
    LET freeing == {p \in Pids : k.dying[p].at = "free"}
    IN  /\ \A p \in k.list : k.space[p] \notin k.freed_spaces
        /\ \A r \in freeing : LET a == k.space[k.dying[r].pid] IN
               /\ a \notin k.freed_spaces
               /\ \A p \in k.list : k.space[p] # a
               /\ \A o \in freeing \ {r} : k.space[k.dying[o].pid] # a

(* No exit is missed: a process that waits for a child, or for any child,   *)
(* has no child it could reap already.                                      *)
NoMissedExit ==
    \A p \in Pids : k.state[p] = "Waiting" /\ k.call[p] # NoCall =>
        \A c \in Members(k.children[p]) :
            k.call[p] \in {AnyChild, c} => k.state[c] # "Zombie"

(* The deltas of the sleep queue add up to the ticks each sleeper still has *)
(* to wait; nobody wakes before its time and, once a schedule has counted   *)
(* the tick after it, nobody sleeps past it.                                *)
SleepIsExact ==
    /\ \A i \in DOMAIN k.sleepq :
           Deltas(k.sleepq)[i] = k.due[k.sleepq[i].pid] /\ k.due[k.sleepq[i].pid] >= 0
    /\ \A p \in Pids : k.state[p] # "Sleeping" => k.due[p] = 0

(* Among tasks that never block, demotion brings every task to the lowest  *)
(* level in the end, so every task in the list, pid 0 included, runs again *)
(* and again.                                                              *)
EveryTaskRuns == \A p \in Pids : p \in k.list ~> p = k.current

(* "User processes occupy isolated lower-half address spaces"              *)
(* (docs/reference/architecture.md:42): a process that can still run has   *)
(* a page table that was not freed.  do_exec frees the old one even when   *)
(* another thread uses it.                                                 *)
ProcessesHaveTheirSpace ==
    \A p \in k.list : k.state[p] # "Zombie" => k.space[p] \notin k.freed_spaces
=============================================================================
