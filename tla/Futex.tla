------------------------------- MODULE Futex -------------------------------
(***************************************************************************)
(* sys_futex of src/kernel/sync/futex.cpp and the threads that use it: a   *)
(* word is waited on while it has the expected value, and woken after it   *)
(* has been changed.  Waiters queue in a bucket chosen by the physical     *)
(* frame of the word, so the words of a page share a bucket.               *)
(*                                                                         *)
(* Between entering the call, translating the address and taking the       *)
(* bucket's lock a thread can be preempted; under the lock interrupts are  *)
(* off.  The table is initialised by the first call.                       *)
(***************************************************************************)
EXTENDS Integers, Sequences, SequencesExt

CONSTANTS Procs, Words,
          Page,                 \* word -> the page it is in
          Frames,               \* physical frame numbers
          FUTEX_HASH_SIZE,
          WakeCounts            \* how many waiters a FUTEX_WAKE asks for

VARIABLES futex_inited,
          g_futex_table,        \* bucket -> its wait queue
          value,                \* word -> its value
          frame,                \* page -> the frame it is in
          pc                    \* thread -> where it is, with its arguments

vars == <<futex_inited, g_futex_table, value, frame, pc>>

Buckets == 0 .. FUTEX_HASH_SIZE - 1
Pages   == {Page[w] : w \in Words}
User    == [at |-> "user"]

futex_hash(f) == f % FUTEX_HASH_SIZE

Init ==
    /\ futex_inited = FALSE
    /\ g_futex_table = [b \in Buckets |-> <<>>]
    /\ value = [w \in Words |-> 0]
    /\ frame \in {f \in [Pages -> Frames] : \A x, y \in Pages : f[x] = f[y] => x = y}
    /\ pc = [p \in Procs |-> User]

(* A thread changes a word, and will call FUTEX_WAKE. *)
store(p, w) ==
    /\ pc[p] = User
    /\ value' = [value EXCEPT ![w] = 1 - @]
    /\ pc' = [pc EXCEPT ![p] = [at |-> "stored", word |-> w]]
    /\ UNCHANGED <<futex_inited, g_futex_table, frame>>

(* sys_futex up to the lock: the first caller initialises the table, then  *)
(* the address is translated.                                              *)
Call(op, w, x)  == [op |-> op, word |-> w, val |-> x]
Go(p, at, call, b) == pc' = [pc EXCEPT ![p] = [at |-> at, call |-> call, bucket |-> b]]
Bucket(call)    == futex_hash(frame[Page[call.word]])

sys_futex(p) ==
    /\ \E w \in Words :
          \/ /\ pc[p] = User
             /\ \E v \in {0, 1} :
                   Go(p, IF futex_inited THEN "lock" ELSE "init", Call("WAIT", w, v),
                      Bucket(Call("WAIT", w, v)))
          \/ /\ pc[p] = [at |-> "stored", word |-> w]
             /\ \E n \in WakeCounts :
                   Go(p, IF futex_inited THEN "lock" ELSE "init", Call("WAKE", w, n),
                      Bucket(Call("WAKE", w, n)))
    /\ UNCHANGED <<futex_inited, g_futex_table, value, frame>>

futex_init(p) ==
    /\ pc[p].at = "init"
    /\ g_futex_table' = [b \in Buckets |-> <<>>]
    /\ futex_inited' = TRUE
    /\ Go(p, "lock", pc[p].call, Bucket(pc[p].call))
    /\ UNCHANGED <<value, frame>>

(* FUTEX_WAIT under the bucket's lock.  Mutant: the value was compared     *)
(* before the lock was taken.                                              *)
futex_wait_unchecked(p) ==
    /\ pc[p].at = "lock" /\ pc[p].call.op = "WAIT"
    /\ g_futex_table' = [g_futex_table EXCEPT ![pc[p].bucket] = Append(@, p)]
    /\ pc' = [pc EXCEPT ![p].at = "sleep"]
    /\ UNCHANGED <<futex_inited, value, frame>>
futex_wait(p) ==
    /\ pc[p].at = "lock" /\ pc[p].call.op = "WAIT"
    /\ IF value[pc[p].call.word] # pc[p].call.val
       THEN pc' = [pc EXCEPT ![p] = User] /\ UNCHANGED g_futex_table
       ELSE /\ g_futex_table' = [g_futex_table EXCEPT ![pc[p].bucket] = Append(@, p)]
            /\ pc' = [pc EXCEPT ![p].at = "sleep"]
    /\ UNCHANGED <<futex_inited, value, frame>>

(* FUTEX_WAKE under the lock: the first val waiters of the bucket, whatever *)
(* word they wait on.  Mutant: nobody is woken while the first waiter's     *)
(* word has the value it waits with.                                        *)
Smaller(a, b) == IF a < b THEN a ELSE b
Woken(q, n) == Smaller(n, Len(q))

futex_wake(p) ==
    /\ pc[p].at = "lock" /\ pc[p].call.op = "WAKE"
    /\ LET q == g_futex_table[pc[p].bucket]
           k == Woken(q, pc[p].call.val)
           woken == {q[i] : i \in 1 .. k}
       IN  /\ g_futex_table' = [g_futex_table EXCEPT ![pc[p].bucket] = SubSeq(q, k + 1, Len(q))]
           /\ pc' = [x \in Procs |-> IF x = p \/ x \in woken THEN User ELSE pc[x]]
    /\ UNCHANGED <<futex_inited, value, frame>>

(* A signal or the exit of a child ends the wait.  Mutant: the thread      *)
(* stays in the queue.                                                     *)
scheduler_wake_stays_queued(p) ==
    /\ pc[p].at = "sleep"
    /\ pc' = [pc EXCEPT ![p] = User]
    /\ UNCHANGED <<futex_inited, g_futex_table, value, frame>>
scheduler_wake_process(p) ==
    /\ pc[p].at = "sleep"
    /\ g_futex_table' = [g_futex_table EXCEPT ![pc[p].bucket] = Remove(@, p)]
    /\ pc' = [pc EXCEPT ![p] = User]
    /\ UNCHANGED <<futex_inited, value, frame>>

(* The process forks and one of its threads writes to the page: the page   *)
(* fault moves it to a new frame.                                          *)
copy_on_write(g, f) ==
    /\ \A h \in Pages : frame[h] # f
    /\ frame' = [frame EXCEPT ![g] = f]
    /\ UNCHANGED <<futex_inited, g_futex_table, value, pc>>

Steps(p) ==
    \/ \E w \in Words : store(p, w)
    \/ futex_init(p) \/ futex_wait(p) \/ futex_wake(p) \/ scheduler_wake_process(p)

(* Whatever the threads do, on pages that stay where they are. *)
Next == \E p \in Procs : sys_futex(p) \/ Steps(p)
Spec == Init /\ [][Next]_vars

(* The first call does not overlap another. *)
CalmNext == \E p \in Procs : \/ (\A q \in Procs : pc[q].at # "init") /\ sys_futex(p)
                             \/ Steps(p)
CalmSpec == Init /\ [][CalmNext]_vars

(* The first call does not overlap another, and pages move. *)
MovingNext == CalmNext \/ \E g \in Pages, f \in Frames : copy_on_write(g, f)
MovingSpec == Init /\ [][MovingNext]_vars

-----------------------------------------------------------------------------
(* The buckets hold the threads that sleep, each once and in the bucket it *)
(* was put in, with arguments of the right kind.                           *)
TypeOK ==
    /\ \A p \in Procs : pc[p].at \in {"user", "stored", "init", "lock", "sleep"}
    /\ \A b \in Buckets : /\ g_futex_table[b] \in Seq(Procs) /\ IsInjective(g_futex_table[b])
                          /\ {p \in Procs : pc[p].at = "sleep" /\ pc[p].bucket = b} = Range(g_futex_table[b])

Sleepers(w) == {p \in Procs : pc[p].at = "sleep" /\ pc[p].call.word = w}

(* The comparison and the sleep are one step: a thread that still sleeps   *)
(* on a word after it changed has a waker that has yet to finish its call. *)
NoLostWakeup ==
    \A w \in Words : \A p \in Sleepers(w) :
        \/ value[w] = pc[p].call.val
        \/ \E q \in Procs : \/ pc[q] = [at |-> "stored", word |-> w]
                            \/ pc[q].at \in {"init", "lock"} /\ pc[q].call.op = "WAKE" /\ pc[q].call.word = w

(* "Wake the waiter thread" (extended_syscall_tests.cpp:92): a FUTEX_WAKE  *)
(* of a word somebody sleeps on wakes a thread that sleeps on that word.   *)
WakeReachesWord ==
    [][\A p \in Procs, w \in Words :
          futex_wake(p) /\ pc[p].call.word = w /\ Sleepers(w) # {} => Sleepers(w)' # Sleepers(w)]_vars
=============================================================================
