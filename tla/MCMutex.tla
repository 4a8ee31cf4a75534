------------------------------ MODULE MCMutex ------------------------------
(* Processes of the three priorities. *)
EXTENDS Mutex

MCBase == [p \in Procs |-> (p - 1) % 3]

(* As the kernel uses it today: nobody calls mutex_try_lock, and no waiter *)
(* is woken by anything but an unlock.                                     *)
LockNext == \E p \in Procs : mutex_lock(p) \/ mutex_unlock(p)
LockSpec == Init /\ [][LockNext]_vars
=============================================================================
