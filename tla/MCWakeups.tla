----------------------------- MODULE MCWakeups -----------------------------
(***************************************************************************)
(* The calls that test a condition, sleep and are woken by others: the     *)
(* mutex of the kernel, the futex of its programs, and epoll.  They share  *)
(* no state, so one of the three, the subject, takes its steps and the     *)
(* others stay as they begin.                                              *)
(***************************************************************************)
EXTENDS MCMutex

CONSTANTS Threads, Words, Frames, FUTEX_HASH_SIZE, WakeCounts,    \* of Futex
          Pollers, Fds, MaxTicks                                  \* of Epoll

VARIABLES subject,
          futex_inited, g_futex_table, value, frame, futex_pc,
          items, count, write_closed, events, g_epoll_wait_queue, ticks, epoll_pc

PageOfItsOwn == [w \in Words |-> w]
Futexes == INSTANCE Futex WITH Procs <- Threads, Page <- PageOfItsOwn, pc <- futex_pc
Epolls  == INSTANCE Epoll WITH Procs <- Pollers, pc <- epoll_pc

futex_vars == <<futex_inited, g_futex_table, value, frame, futex_pc>>
epoll_vars == <<items, count, write_closed, events, g_epoll_wait_queue, ticks, epoll_pc>>
all == <<subject, vars, futex_vars, epoll_vars>>

(* Where the words are matters to the futex only. *)
AllInit ==
    /\ subject \in {"mutex", "futex", "epoll"}
    /\ Init /\ Futexes!Init /\ Epolls!Init
    /\ \/ subject = "futex"
       \/ frame = CHOOSE f \in [Words -> Frames] : \A v, w \in Words : f[v] = f[w] => v = w

mutex_step == subject = "mutex" /\ Next /\ UNCHANGED <<subject, futex_vars, epoll_vars>>
futex_step == subject = "futex" /\ Futexes!CalmNext /\ UNCHANGED <<subject, vars, epoll_vars>>
epoll_step == subject = "epoll" /\ Epolls!Next /\ UNCHANGED <<subject, vars, futex_vars>>

(* The steps fairness asks for are not enabled before a call. *)
AllSpec ==
    /\ AllInit /\ [][mutex_step \/ futex_step \/ epoll_step]_all
    /\ Fairness /\ Epolls!Fairness

(* The queues hold those that wait; priorities stay in their range. *)
AllTypeOK == TypeOK /\ Futexes!TypeOK /\ Epolls!TypeOK

(* A thread that still sleeps on a word after it changed has a waker that  *)
(* has yet to finish its FUTEX_WAKE.                                       *)
NoLostWakeup == Futexes!NoLostWakeup

(* A FUTEX_WAKE of a word somebody sleeps on wakes a thread that sleeps on *)
(* that word.                                                              *)
WakeReachesWord == Futexes!WakeReachesWord

(* A thread sleeps in sys_epoll_wait only while none of the descriptors it *)
(* went to sleep with is readable.                                         *)
NoLostReadiness == Epolls!NoLostReadiness

(* A thread in sys_epoll_wait that watches a pipe without writers returns, *)
(* unless such descriptors are taken out of the instance.                  *)
HangupReturns == Epolls!HangupReturns
=============================================================================
