---------------------------- MODULE MutexProofs ----------------------------
(***************************************************************************)
(* Mutual exclusion and the absence of stranded waiters, for every set of  *)
(* processes and every assignment of priorities.                           *)
(***************************************************************************)
EXTENDS Mutex, SequenceTheorems, TLAPS

(* The queue holds processes that wait, each once. *)
QueuedWait ==
    /\ \A i \in 1 .. Len(wait_queue) : pc[wait_queue[i]] = "wait"
    /\ \A i, j \in 1 .. Len(wait_queue) : wait_queue[i] = wait_queue[j] => i = j

MutexInv == TypeOK /\ QueuedWait /\ MutualExclusion /\ NoStrandedWaiter

(* Two intervals from 1 that are the same set end at the same number. *)
LEMMA IntervalLength ==
    ASSUME NEW a \in Nat, NEW b \in Nat, 1 .. a = 1 .. b
    PROVE  a = b
<1>1. CASE a = 0 \/ b = 0
  <2>1. a > 0 => 1 \in 1 .. a
    OBVIOUS
  <2>2. b > 0 => 1 \in 1 .. b
    OBVIOUS
  <2>3. (1 \in 1 .. a => a > 0) /\ (1 \in 1 .. b => b > 0)
    OBVIOUS
  <2> QED BY <1>1, <2>1, <2>2, <2>3
<1>2. CASE a > 0 /\ b > 0
  <2>1. a \in 1 .. a /\ b \in 1 .. b
    BY <1>2
  <2>2. a \in 1 .. b /\ b \in 1 .. a
    BY <2>1
  <2> QED BY <2>2
<1> QED BY <1>1, <1>2

(* Taking one element out of a queue leaves a queue, whose elements are    *)
(* elements of the old one at other places (wait_queue_remove).            *)
LEMMA RemoveAtFacts ==
    ASSUME NEW q \in Seq(Procs), NEW i \in 1 .. Len(q)
    PROVE  /\ RemoveAt(q, i) \in Seq(Procs)
           /\ Len(RemoveAt(q, i)) = Len(q) - 1
           /\ \A j \in 1 .. Len(q) - 1 :
                 RemoveAt(q, i)[j] = IF j < i THEN q[j] ELSE q[j + 1]
<1> DEFINE n == Len(q) - 1
<1>1. n \in Nat /\ Len(q) \in Nat /\ q \in [1 .. Len(q) -> Procs]
  BY LenProperties
<1>2. RemoveAt(q, i) \in [1 .. n -> Procs]
  BY <1>1 DEF RemoveAt
<1>3. RemoveAt(q, i) \in Seq(Procs)
  BY <1>1, <1>2, SeqDef
<1>4. DOMAIN RemoveAt(q, i) = 1 .. n
  BY <1>2
<1>5. Len(RemoveAt(q, i)) = n
  <2>1. Len(RemoveAt(q, i)) \in Nat /\ DOMAIN RemoveAt(q, i) = 1 .. Len(RemoveAt(q, i))
    BY <1>3, LenProperties
  <2> HIDE DEF n
  <2> QED BY <1>1, <1>4, <2>1, IntervalLength
<1> QED
  BY <1>3, <1>5 DEF RemoveAt

(* The free mutex satisfies the invariant. *)
LEMMA InitInv == Init => MutexInv
  BY MutexAssumption DEF Init, MutexInv, TypeOK, QueuedWait, MutualExclusion, NoStrandedWaiter,
     Holders, Positions

(* mutex_lock that finds the word clear. *)
LEMMA AcquireKeeps ==
    ASSUME MutexInv, NEW p \in Procs, pc[p] \in {"outside", "enter"}, acquire(p)
    PROVE  MutexInv'
<1> USE DEF MutexInv
<1>1. TypeOK'
  BY DEF TypeOK, acquire, Positions
<1>2. QueuedWait'
  BY DEF TypeOK, acquire, QueuedWait
<1>3. MutualExclusion'
  BY DEF TypeOK, acquire, MutualExclusion, Holders
<1>4. NoStrandedWaiter'
  BY DEF acquire, NoStrandedWaiter
<1> QED BY <1>1, <1>2, <1>3, <1>4

(* mutex_lock that blocks: the new last element of the queue waits. *)
LEMMA BlockKeeps ==
    ASSUME MutexInv, NEW p \in Procs, pc[p] \in {"outside", "enter"}, block(p)
    PROVE  MutexInv'
<1> USE DEF MutexInv
<1>1. priority' \in [Procs -> 0 .. 2]
  BY DEF TypeOK, block, inherit
<1>2. TypeOK'
  BY <1>1, AppendProperties DEF TypeOK, block, Positions
<1>3. QueuedWait'
  <2>1. /\ Len(wait_queue') = Len(wait_queue) + 1
        /\ \A i \in 1 .. Len(wait_queue) : wait_queue'[i] = wait_queue[i]
        /\ wait_queue'[Len(wait_queue) + 1] = p
    BY AppendProperties DEF TypeOK, block
  <2>2. \A i \in 1 .. Len(wait_queue) : wait_queue[i] # p /\ wait_queue[i] \in Procs
    BY DEF TypeOK, QueuedWait
  <2>3. Len(wait_queue) \in Nat
    BY DEF TypeOK
  <2> QED BY <2>1, <2>2, <2>3 DEF TypeOK, QueuedWait, block
<1>4. MutualExclusion'
  BY DEF TypeOK, block, MutualExclusion, Holders
<1>5. NoStrandedWaiter'
  BY DEF block, NoStrandedWaiter
<1> QED BY <1>2, <1>3, <1>4, <1>5

(* The two steps of mutex_try_lock. *)
LEMMA TryKeeps ==
    ASSUME MutexInv, NEW p \in Procs, mutex_try_lock(p) \/ mutex_try_lock_owner(p)
    PROVE  MutexInv'
<1> USE DEF MutexInv, mutex_try_lock, mutex_try_lock_owner
<1>1. TypeOK'
  BY DEF TypeOK, Positions
<1>2. QueuedWait'
  BY DEF TypeOK, QueuedWait
<1>3. MutualExclusion'
  BY DEF TypeOK, MutualExclusion, Holders
<1>4. NoStrandedWaiter'
  BY DEF TypeOK, MutualExclusion, Holders, NoStrandedWaiter
<1> QED BY <1>1, <1>2, <1>3, <1>4

(* mutex_unlock: the head of the queue, if any, is on its way. *)
LEMMA UnlockKeeps ==
    ASSUME MutexInv, NEW p \in Procs, mutex_unlock(p)
    PROVE  MutexInv'
<1> USE DEF MutexInv
<1>1. CASE wait_queue = <<>>
  <2> USE <1>1 DEF mutex_unlock
  <2>1. TypeOK'
    BY DEF TypeOK, Positions
  <2>2. QueuedWait'
    BY DEF QueuedWait
  <2>3. MutualExclusion'
    BY DEF TypeOK, MutualExclusion, Holders
  <2>4. NoStrandedWaiter'
    BY DEF NoStrandedWaiter
  <2> QED BY <2>1, <2>2, <2>3, <2>4
<1>2. CASE wait_queue # <<>>
  <2> DEFINE h == Head(wait_queue)
  <2>1. /\ h = wait_queue[1] /\ h \in Procs /\ Len(wait_queue) \in Nat /\ Len(wait_queue) > 0
        /\ wait_queue' = Tail(wait_queue) /\ wait_queue' \in Seq(Procs)
        /\ Len(wait_queue') = Len(wait_queue) - 1
        /\ \A i \in 1 .. Len(wait_queue') : wait_queue'[i] = wait_queue[i + 1]
    BY <1>2, HeadTailProperties, EmptySeq, LenProperties DEF TypeOK, mutex_unlock
  <2>2. pc[h] = "wait" /\ h # p
    BY <2>1 DEF QueuedWait, mutex_unlock
  <2> HIDE DEF h
  <2>3. pc' = [pc EXCEPT ![p] = "outside", ![h] = "enter"] /\ locked' = 0 /\ owner_pid' = 0
        /\ pc[p] = "owned" /\ UNCHANGED priority
    BY <1>2 DEF mutex_unlock, h
  <2>4. TypeOK'
    BY <2>1, <2>3 DEF TypeOK, Positions
  <2>5. QueuedWait'
    BY <2>1, <2>2, <2>3 DEF TypeOK, QueuedWait
  <2>6. MutualExclusion'
    BY <2>1, <2>2, <2>3 DEF TypeOK, MutualExclusion, Holders
  <2>7. NoStrandedWaiter'
    BY <2>1, <2>2, <2>3 DEF TypeOK, NoStrandedWaiter
  <2> QED BY <2>4, <2>5, <2>6, <2>7
<1> QED BY <1>1, <1>2

(* A waiter woken for another reason leaves the middle of the queue. *)
LEMMA WakeKeeps ==
    ASSUME MutexInv, NEW i \in 1 .. Len(wait_queue), scheduler_wake_process(i)
    PROVE  MutexInv'
<1> USE DEF MutexInv
<1> DEFINE w == wait_queue[i]
<1>1. /\ wait_queue' \in Seq(Procs) /\ Len(wait_queue') = Len(wait_queue) - 1
      /\ \A j \in 1 .. Len(wait_queue) - 1 :
            wait_queue'[j] = IF j < i THEN wait_queue[j] ELSE wait_queue[j + 1]
  BY RemoveAtFacts DEF TypeOK, scheduler_wake_process
<1>2. w \in Procs /\ pc[w] = "wait" /\ Len(wait_queue) \in Nat
  BY DEF TypeOK, QueuedWait
<1>3. pc' = [pc EXCEPT ![w] = "enter"] /\ UNCHANGED <<locked, owner_pid, priority>>
  BY DEF scheduler_wake_process
<1>4. TypeOK'
  BY <1>1, <1>2, <1>3 DEF TypeOK, Positions
<1>5. \A j \in 1 .. Len(wait_queue') : pc'[wait_queue'[j]] = "wait"
  BY <1>1, <1>2, <1>3 DEF TypeOK, QueuedWait
<1>6. \A j, k \in 1 .. Len(wait_queue') : wait_queue'[j] = wait_queue'[k] => j = k
  BY <1>1, <1>2 DEF QueuedWait
<1>7. MutualExclusion'
  BY <1>2, <1>3 DEF TypeOK, MutualExclusion, Holders
<1>8. NoStrandedWaiter'
  BY <1>2, <1>3 DEF TypeOK, NoStrandedWaiter
<1> QED BY <1>4, <1>5, <1>6, <1>7, <1>8 DEF QueuedWait

(* Every step keeps the invariant. *)
LEMMA NextInv == MutexInv /\ [Next]_vars => MutexInv'
<1> SUFFICES ASSUME MutexInv, [Next]_vars PROVE MutexInv'
  OBVIOUS
<1>1. ASSUME NEW p \in Procs, mutex_lock(p) PROVE MutexInv'
  BY <1>1, AcquireKeeps, BlockKeeps DEF mutex_lock
<1>2. CASE UNCHANGED vars
  BY <1>2 DEF vars, MutexInv, TypeOK, QueuedWait, MutualExclusion, Holders, NoStrandedWaiter
<1> QED BY <1>1, <1>2, TryKeeps, UnlockKeeps, WakeKeeps DEF Next

(* At most one process is between lock and unlock, the lock word says      *)
(* whether one is and owner_pid which.                                     *)
THEOREM MutexExcludes == Spec => []MutualExclusion
<1>1. MutexInv => MutualExclusion
  BY DEF MutexInv
<1> QED BY <1>1, InitInv, NextInv, PTL DEF Spec

(* A free mutex with waiters always has a woken process about to take it:  *)
(* the one wake per unlock of mutex_unlock is enough.                      *)
THEOREM NobodyIsStranded == Spec => [](TypeOK /\ NoStrandedWaiter)
<1>1. MutexInv => TypeOK /\ NoStrandedWaiter
  BY DEF MutexInv
<1> QED BY <1>1, InitInv, NextInv, PTL DEF Spec
=============================================================================
