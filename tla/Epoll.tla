------------------------------- MODULE Epoll -------------------------------
(***************************************************************************)
(* sys_epoll_wait and sys_epoll_ctl of src/kernel/sync/epoll.cpp: threads  *)
(* that share an epoll instance wait for the read ends of pipes.  All      *)
(* waiters of all instances sleep in the one g_epoll_wait_queue, which     *)
(* every scheduler_wake_all empties.                                       *)
(*                                                                         *)
(* A call looks at its items, then at the event queue and the clock with   *)
(* interrupts on, and once more at its items with interrupts off before it *)
(* sleeps.  No timer wakes a waiter: a timeout is looked at when something *)
(* else has woken it.                                                      *)
(***************************************************************************)
EXTENDS Integers, FiniteSets

CONSTANTS Procs, Fds,
          MaxTicks              \* bound on the clock, and the longest timeout

VARIABLES items,        \* the descriptors the instance watches
          count,        \* descriptor -> bytes in its pipe (0 or 1)
          write_closed, \* the descriptors whose pipe has no writer
          events,       \* thread -> events in its event queue (0 or 1)
          g_epoll_wait_queue,
          ticks,
          pc            \* thread -> where it is, its timeout (-1: none) and start

vars == <<items, count, write_closed, events, g_epoll_wait_queue, ticks, pc>>
pipevars == <<count, write_closed>>

User == [at |-> "user"]

Init ==
    /\ items = {} /\ write_closed = {} /\ g_epoll_wait_queue = {} /\ ticks = 0
    /\ count = [f \in Fds |-> 0]
    /\ events = [p \in Procs |-> 0]
    /\ pc = [p \in Procs |-> User]

(* pipe_is_ready for EPOLLIN. *)
pipe_is_ready(f) == count[f] > 0 \/ f \in write_closed
ReadyItems == {f \in items : pipe_is_ready(f)}

(* sys_epoll_ctl.  No waiter is woken. *)
epoll_ctl_add(p, f) ==
    /\ pc[p] = User /\ f \notin items
    /\ items' = items \cup {f}
    /\ UNCHANGED <<pipevars, events, g_epoll_wait_queue, ticks, pc>>
epoll_ctl_del(p, f) ==
    /\ pc[p] = User /\ f \in items
    /\ items' = items \ {f}
    /\ UNCHANGED <<pipevars, events, g_epoll_wait_queue, ticks, pc>>

(* sys_epoll_wait up to its loop, and the scan and the tests that end it.  *)
sys_epoll_wait(p, timeout) ==
    /\ pc[p] = User
    /\ pc' = [pc EXCEPT ![p] = [at |-> "scan", timeout |-> timeout, start |-> ticks]]
    /\ UNCHANGED <<items, pipevars, events, g_epoll_wait_queue, ticks>>

(* Mutant: the first scan sees only data, the second also hang-ups. *)
Found_data_only == \E f \in items : count[f] > 0
Found   == ReadyItems # {}
Late(p) == pc[p].timeout > 0 /\ ticks - pc[p].start >= pc[p].timeout

epoll_scan(p) ==
    /\ pc[p].at = "scan"
    /\ pc' = [pc EXCEPT ![p] = IF Found THEN User ELSE [@ EXCEPT !.at = "test"]]
    /\ UNCHANGED <<items, pipevars, events, g_epoll_wait_queue, ticks>>

epoll_test(p) ==
    /\ pc[p].at = "test"
    /\ pc' = [pc EXCEPT ![p] = IF @.timeout = 0 \/ events[p] > 0 \/ Late(p) THEN User
                               ELSE [@ EXCEPT !.at = "rescan"]]
    /\ UNCHANGED <<items, pipevars, events, g_epoll_wait_queue, ticks>>

(* The second scan and the sleep, with interrupts off.  Mutant: no second  *)
(* scan.                                                                   *)
Sleep(p) == /\ g_epoll_wait_queue' = g_epoll_wait_queue \cup {p}
            /\ pc' = [pc EXCEPT ![p] = [at |-> "sleep", timeout |-> @.timeout, start |-> @.start,
                                        watched |-> items]]
epoll_rescan_skipped(p) ==
    /\ pc[p].at = "rescan" /\ Sleep(p)
    /\ UNCHANGED <<items, pipevars, events, ticks>>
epoll_rescan(p) ==
    /\ pc[p].at = "rescan"
    /\ IF ReadyItems # {} THEN pc' = [pc EXCEPT ![p].at = "scan"] /\ UNCHANGED g_epoll_wait_queue
       ELSE Sleep(p)
    /\ UNCHANGED <<items, pipevars, events, ticks>>

(* scheduler_wake_all of any other queue. *)
Awake == [p \in Procs |-> IF p \notin g_epoll_wait_queue THEN pc[p]
                          ELSE [at |-> "scan", timeout |-> pc[p].timeout, start |-> pc[p].start]]
wake_all == g_epoll_wait_queue' = {} /\ pc' = Awake

(* scheduler_wake_one of a mutex wakes one epoll waiter, and only when a   *)
(* process waits for the mutex; a signal wakes any.                        *)
wake_one(p) ==
    /\ p \in g_epoll_wait_queue
    /\ g_epoll_wait_queue' = g_epoll_wait_queue \ {p}
    /\ pc' = [pc EXCEPT ![p] = Awake[p]]
    /\ UNCHANGED <<items, pipevars, events, ticks>>

-----------------------------------------------------------------------------
(* What other processes do to the pipes; every step wakes all waiters. *)
pipe_write(f) ==
    /\ count[f] = 0 /\ f \notin write_closed
    /\ count' = [count EXCEPT ![f] = 1]
    /\ wake_all
    /\ UNCHANGED <<items, write_closed, events, ticks>>
pipe_read(f) ==
    /\ count[f] = 1
    /\ count' = [count EXCEPT ![f] = 0]
    /\ wake_all
    /\ UNCHANGED <<items, write_closed, events, ticks>>
pipe_close_write(f) ==
    /\ f \notin write_closed
    /\ write_closed' = write_closed \cup {f}
    /\ wake_all
    /\ UNCHANGED <<items, count, events, ticks>>

(* SYS_POST_EVENT, SYS_GET_EVENT and the timer. *)
post_event(p) ==
    /\ events[p] = 0
    /\ events' = [events EXCEPT ![p] = 1]
    /\ wake_all
    /\ UNCHANGED <<items, pipevars, ticks>>
get_event(p) ==
    /\ pc[p] = User /\ events[p] = 1
    /\ events' = [events EXCEPT ![p] = 0]
    /\ UNCHANGED <<items, pipevars, g_epoll_wait_queue, ticks, pc>>
tick ==
    /\ ticks < MaxTicks
    /\ ticks' = ticks + 1
    /\ UNCHANGED <<items, pipevars, events, g_epoll_wait_queue, pc>>

Control(p) == \E f \in Fds : epoll_ctl_add(p, f) \/ epoll_ctl_del(p, f)
Call(p)    == \E t \in -1 .. MaxTicks : sys_epoll_wait(p, t)
Wait(p)    == epoll_scan(p) \/ epoll_test(p) \/ epoll_rescan(p)
Pipes      == \E f \in Fds : pipe_write(f) \/ pipe_read(f) \/ pipe_close_write(f)

Next ==
    \/ \E p \in Procs : Control(p) \/ Call(p) \/ Wait(p) \/ wake_one(p) \/ post_event(p) \/ get_event(p)
    \/ Pipes \/ tick

(* A thread inside sys_epoll_wait goes on when it is ready to run. *)
Fairness == \A p \in Procs : WF_vars(Wait(p))
Spec == Init /\ [][Next]_vars /\ Fairness

-----------------------------------------------------------------------------
TypeOK ==
    /\ items \subseteq Fds /\ write_closed \subseteq Fds
    /\ count \in [Fds -> {0, 1}] /\ events \in [Procs -> {0, 1}]
    /\ g_epoll_wait_queue = {p \in Procs : pc[p].at = "sleep"}
    /\ ticks \in 0 .. MaxTicks

(* A thread sleeps only while none of the descriptors it went to sleep     *)
(* with is readable: a byte or an end of file that comes between its scans *)
(* is not missed.                                                          *)
NoLostReadiness ==
    \A p \in Procs : pc[p].at = "sleep" => pc[p].watched \cap ReadyItems = {}

(* A thread inside the call that watches a pipe without writers returns,   *)
(* unless such descriptors are taken out of the instance: the two scans    *)
(* never send it round for ever.                                           *)
HangupReturns ==
    \A p \in Procs :
        pc[p].at \in {"scan", "test", "rescan"} /\ items \cap write_closed # {}
            ~> pc[p] = User \/ items \cap write_closed = {}
=============================================================================
