-------------------------------- MODULE Pipe --------------------------------
(***************************************************************************)
(* The pipes of src/fs/pipe.cpp: a fixed table of slots, each a ring       *)
(* buffer with a queue of readers and one of writers, reached through the  *)
(* vnodes of its two ends.  The body of a read or write runs under the     *)
(* slot's lock with interrupts off, one step per turn of its loop;         *)
(* pipe_create takes no lock and can be preempted between finding a slot   *)
(* and claiming it.                                                        *)
(***************************************************************************)
EXTENDS Integers, Sequences, FiniteSets

CONSTANTS Procs, First,         \* the processes, the one alive at the start
          MAX_PIPES, PIPE_BUFFER_SIZE,
          Bytes,                \* the values of a byte
          MaxRequest            \* bound on the size of a read or write

ASSUME PipeAssumption ==
    /\ First \in Procs /\ MAX_PIPES \in Nat \ {0}
    /\ PIPE_BUFFER_SIZE \in Nat \ {0} /\ MaxRequest \in Nat /\ Bytes # {}

VARIABLES pipes,        \* slot -> the Pipe structure
          held,         \* process -> the vnodes its file descriptors reach
          pc,           \* process -> what it is doing, with its arguments
          result        \* what the last operation that finished returned

vars == <<pipes, held, pc, result>>

Slots == 0 .. MAX_PIPES - 1
Data  == UNION {[1 .. n -> Bytes] : n \in 0 .. MaxRequest}
Idle  == [at |-> "idle"]
Dead  == [at |-> "dead"]

(* A vnode of pipe_get_vnode: an end of a slot.  Two vnodes of one end     *)
(* exist only when two calls of pipe_create claimed the same slot.         *)
Vnode(s, e, n) == [slot |-> s, end |-> e, copy |-> n]
Vnodes == {Vnode(s, e, n) : s \in Slots, e \in {"read", "write"}, n \in 0 .. Cardinality(Procs)}
Live   == UNION {held[p] : p \in Procs}

FreshPipe == [in_use |-> TRUE, read_pos |-> 0, write_pos |-> 0, count |-> 0,
              write_closed |-> FALSE, read_closed |-> FALSE, data_wait |-> {}, space_wait |-> {}]
ZeroBuffer == [i \in 0 .. PIPE_BUFFER_SIZE - 1 |-> CHOOSE b \in Bytes : TRUE]

TypeOK ==
    /\ \A s \in Slots : /\ pipes[s].read_pos \in 0 .. PIPE_BUFFER_SIZE - 1
                        /\ pipes[s].write_pos \in 0 .. PIPE_BUFFER_SIZE - 1
                        /\ pipes[s].count \in 0 .. PIPE_BUFFER_SIZE
                        /\ pipes[s].buffer \in [0 .. PIPE_BUFFER_SIZE - 1 -> Bytes]
                        /\ pipes[s].data_wait \cup pipes[s].space_wait \subseteq Procs
    /\ held \in [Procs -> SUBSET Vnodes]
    /\ \A p \in Procs : pc[p].at \in {"idle", "dead", "found", "read", "rwait", "write", "wwait"}

(* pipe_init, then one process without pipes. *)
EmptySlot(s) == [in_use |-> FALSE, read_pos |-> 0, write_pos |-> 0, count |-> 0,
                 write_closed |-> FALSE, read_closed |-> FALSE, data_wait |-> {},
                 space_wait |-> {}, buffer |-> ZeroBuffer]
Init ==
    /\ pipes = [s \in Slots |-> EmptySlot(s)]
    /\ held = [p \in Procs |-> {}]
    /\ pc = [p \in Procs |-> IF p = First THEN Idle ELSE Dead]
    /\ result = <<"none">>

-----------------------------------------------------------------------------
(* pipe_create: the first slot not in use; later, the claim and the vnodes *)
(* of SYS_PIPE.                                                            *)
FreeSlots == {s \in Slots : ~pipes[s].in_use}

pipe_create_find(p) ==
    /\ pc[p] = Idle /\ FreeSlots # {}
    /\ pc' = [pc EXCEPT ![p] = [at |-> "found",
                 slot |-> CHOOSE s \in FreeSlots : \A t \in FreeSlots : s <= t]]
    /\ UNCHANGED <<pipes, held, result>>

pipe_create_claim(p) ==
    /\ pc[p].at = "found"
    /\ LET s == pc[p].slot
           n == CHOOSE i \in 0 .. Cardinality(Procs) :
                   \A e \in {"read", "write"} : Vnode(s, e, i) \notin Live
       IN  /\ pipes' = [pipes EXCEPT ![s] =
                 [f \in DOMAIN pipes[s] |-> IF f = "buffer" THEN pipes[s].buffer ELSE FreshPipe[f]]]
           /\ held' = [held EXCEPT ![p] = @ \cup {Vnode(s, "read", n), Vnode(s, "write", n)}]
    /\ pc' = [pc EXCEPT ![p] = Idle]
    /\ UNCHANGED result

(* scheduler_wake_all: the woken go to the head of their loop. *)
Awake(P) == [p \in Procs |-> IF p \notin P THEN pc[p]
                             ELSE [pc[p] EXCEPT !.at = IF @ = "rwait" THEN "read" ELSE "write"]]

(* pipe_read from the check of in_use to the lock. *)
pipe_read(p, v, n) ==
    /\ pc[p] = Idle /\ v \in held[p] /\ pipes[v.slot].in_use
    /\ pc' = [pc EXCEPT ![p] = [at |-> "read", slot |-> v.slot, n |-> n]]
    /\ UNCHANGED <<pipes, held, result>>

(* Mutant: the position wraps one cell late. *)
Advance_past_end(pos, k) == IF pos + k > PIPE_BUFFER_SIZE THEN (pos + k) % PIPE_BUFFER_SIZE
                            ELSE (pos + k) % (PIPE_BUFFER_SIZE + 1)
Advance(pos, k) == (pos + k) % PIPE_BUFFER_SIZE
Smaller(a, b)   == IF a < b THEN a ELSE b

(* One turn of pipe_read's loop.  Mutant: the end of file is looked for    *)
(* before the data.                                                        *)
read_data(p) ==
    LET r == pipes[pc[p].slot]
        k == Smaller(pc[p].n, r.count)
    IN  /\ r.count > 0
        /\ pipes' = [pipes EXCEPT ![pc[p].slot].read_pos = Advance(@, k),
                                  ![pc[p].slot].count = @ - k,
                                  ![pc[p].slot].space_wait = {}]
        /\ pc' = [Awake(r.space_wait) EXCEPT ![p] = Idle]
        /\ result' = <<"read", [i \in 1 .. k |-> r.buffer[Advance(r.read_pos, i - 1)]]>>
        /\ UNCHANGED held
read_eof(p) ==
    /\ pipes[pc[p].slot].write_closed
    /\ pc' = [pc EXCEPT ![p] = Idle]
    /\ result' = <<"eof">>
    /\ UNCHANGED <<pipes, held>>
read_wait(p) ==
    /\ ~pipes[pc[p].slot].write_closed
    /\ pipes' = [pipes EXCEPT ![pc[p].slot].data_wait = @ \cup {p}]
    /\ pc' = [pc EXCEPT ![p].at = "rwait"]
    /\ UNCHANGED <<held, result>>

pipe_read_turn_eof_first(p) ==
    /\ pc[p].at = "read"
    /\ \/ read_eof(p)
       \/ ~pipes[pc[p].slot].write_closed /\ read_data(p)
       \/ pipes[pc[p].slot].count = 0 /\ read_wait(p)
pipe_read_turn(p) ==
    /\ pc[p].at = "read"
    /\ \/ read_data(p)
       \/ pipes[pc[p].slot].count = 0 /\ (read_eof(p) \/ read_wait(p))

(* pipe_write from the check of in_use to the lock, and one turn. *)
pipe_write(p, v, data) ==
    /\ pc[p] = Idle /\ v \in held[p] /\ pipes[v.slot].in_use
    /\ pc' = [pc EXCEPT ![p] = [at |-> "write", slot |-> v.slot, data |-> data]]
    /\ UNCHANGED <<pipes, held, result>>

write_broken(p) ==
    /\ pipes[pc[p].slot].read_closed
    /\ pc' = [pc EXCEPT ![p] = Idle]
    /\ result' = <<"broken">>
    /\ UNCHANGED <<pipes, held>>
write_data(p) ==
    LET r == pipes[pc[p].slot]
        k == Smaller(Len(pc[p].data), PIPE_BUFFER_SIZE - r.count)
        Cell(j) == {i \in 1 .. k : Advance(r.write_pos, i - 1) = j}
    IN  /\ r.count < PIPE_BUFFER_SIZE
        /\ pipes' = [pipes EXCEPT ![pc[p].slot].write_pos = Advance(@, k),
                 ![pc[p].slot].count = @ + k,
                 ![pc[p].slot].buffer = [j \in DOMAIN @ |->
                      IF Cell(j) = {} THEN @[j] ELSE pc[p].data[CHOOSE i \in Cell(j) : TRUE]],
                 ![pc[p].slot].data_wait = {}]
        /\ pc' = [Awake(r.data_wait) EXCEPT ![p] = Idle]
        /\ result' = <<"wrote", k>>
        /\ UNCHANGED held
write_wait(p) ==
    /\ pipes[pc[p].slot].count = PIPE_BUFFER_SIZE
    /\ pipes' = [pipes EXCEPT ![pc[p].slot].space_wait = @ \cup {p}]
    /\ pc' = [pc EXCEPT ![p].at = "wwait"]
    /\ UNCHANGED <<held, result>>

pipe_write_turn(p) ==
    /\ pc[p].at = "write"
    /\ \/ write_broken(p)
       \/ ~pipes[pc[p].slot].read_closed /\ (write_data(p) \/ write_wait(p))

-----------------------------------------------------------------------------
(* vfs_close_vnode: the last holder of a vnode closes its end, which wakes *)
(* the other side and frees the slot when the other end is closed too.     *)
(* Mutants: nobody is woken; the slot is freed with one end open.          *)
pipe_close(s, end, wakes, frees) ==
    LET r == pipes[s]
        w == IF ~wakes THEN {} ELSE IF end = "read" THEN r.space_wait ELSE r.data_wait
    IN  /\ pipes' = [pipes EXCEPT ![s] = [r EXCEPT
              !.read_closed = @ \/ end = "read", !.write_closed = @ \/ end = "write",
              !.space_wait = @ \ w, !.data_wait = @ \ w,
              !.in_use = @ /\ ~frees]]
        /\ pc' = Awake(w)

OtherClosed(v) == IF v.end = "read" THEN pipes[v.slot].write_closed ELSE pipes[v.slot].read_closed
LastHolder(p, v) == \A q \in Procs \ {p} : v \notin held[q]

vfs_close_no_wake(p, v) ==
    /\ pc[p] = Idle /\ v \in held[p]
    /\ held' = [held EXCEPT ![p] = @ \ {v}]
    /\ IF LastHolder(p, v) THEN pipe_close(v.slot, v.end, FALSE, OtherClosed(v))
       ELSE UNCHANGED <<pipes, pc>>
    /\ UNCHANGED result
vfs_close_frees_early(p, v) ==
    /\ pc[p] = Idle /\ v \in held[p]
    /\ held' = [held EXCEPT ![p] = @ \ {v}]
    /\ IF LastHolder(p, v) THEN pipe_close(v.slot, v.end, TRUE, v.end = "write" \/ OtherClosed(v))
       ELSE UNCHANGED <<pipes, pc>>
    /\ UNCHANGED result
vfs_close(p, v) ==
    /\ pc[p] = Idle /\ v \in held[p]
    /\ held' = [held EXCEPT ![p] = @ \ {v}]
    /\ IF LastHolder(p, v) THEN pipe_close(v.slot, v.end, TRUE, OtherClosed(v))
       ELSE UNCHANGED <<pipes, pc>>
    /\ UNCHANGED result

(* process_fork: the child's descriptors reach the same vnodes. *)
process_fork(p, q) ==
    /\ pc[p] = Idle /\ pc[q] = Dead
    /\ held' = [held EXCEPT ![q] = held[p]]
    /\ pc' = [pc EXCEPT ![q] = Idle]
    /\ UNCHANGED <<pipes, result>>

(* process_exit, after the closes of process_release_private_fds. *)
process_exit(p) ==
    /\ pc[p] = Idle /\ held[p] = {}
    /\ pc' = [pc EXCEPT ![p] = Dead]
    /\ UNCHANGED <<pipes, held, result>>

(* A signal or the exit of a child wakes a reader or writer early. *)
scheduler_wake_process(p) ==
    /\ pc[p].at \in {"rwait", "wwait"}
    /\ pipes' = [pipes EXCEPT ![pc[p].slot].data_wait = @ \ {p}, ![pc[p].slot].space_wait = @ \ {p}]
    /\ pc' = Awake({p})
    /\ UNCHANGED <<held, result>>

Uses(p) ==
    \/ pipe_create_claim(p) \/ pipe_read_turn(p) \/ pipe_write_turn(p)
    \/ \E v \in held[p] : \/ \E n \in 0 .. MaxRequest : pipe_read(p, v, n)
                          \/ \E data \in Data : pipe_write(p, v, data)
                          \/ vfs_close(p, v)
    \/ \E q \in Procs : process_fork(p, q)
    \/ process_exit(p)
    \/ scheduler_wake_process(p)

Next == \E p \in Procs : pipe_create_find(p) \/ Uses(p)
Spec == Init /\ [][Next]_vars

(* As long as no call of pipe_create overlaps another. *)
SerialNext ==
    \E p \in Procs : \/ (\A q \in Procs : pc[q].at # "found") /\ pipe_create_find(p)
                     \/ Uses(p)

-----------------------------------------------------------------------------
(* No wakeup is lost: a reader that sleeps is in its queue and has nothing *)
(* to read and a writer left; a writer that sleeps is in its queue and has *)
(* no room and a reader left.                                              *)
NoLostWakeup ==
    \A p \in Procs :
        /\ pc[p].at = "rwait" => LET r == pipes[pc[p].slot]
                                 IN  p \in r.data_wait /\ r.count = 0 /\ ~r.write_closed
        /\ pc[p].at = "wwait" => LET r == pipes[pc[p].slot]
                                 IN  p \in r.space_wait /\ r.count = PIPE_BUFFER_SIZE /\ ~r.read_closed

(* A slot is in use exactly while a descriptor reaches it, and the closed  *)
(* flags of a slot in use say which ends nobody reaches: no slot leaks,    *)
(* and none is given away under a reader or writer.                        *)
SlotsFollowEnds ==
    \A s \in Slots :
        LET Ends == {v.end : v \in {w \in Live : w.slot = s}}
        IN  /\ pipes[s].in_use <=> Ends # {}
            /\ Ends # {} => /\ pipes[s].read_closed <=> "read" \notin Ends
                            /\ pipes[s].write_closed <=> "write" \notin Ends

(* pipe.h:22, "Returns pipe ID": the number pipe_create returns names one  *)
(* pipe, so no two pipes have the same slot.                               *)
OneIdPerPipe == \A v, w \in Live : v.slot = w.slot /\ v.end = w.end => v = w

(* A slot as a sequence of bytes, and its open ends. *)
Ring(r) == [i \in 1 .. r.count |-> r.buffer[(r.read_pos + i - 1) % PIPE_BUFFER_SIZE]]
OpenEnds(r) == IF ~r.in_use THEN {}
               ELSE (IF r.read_closed THEN {} ELSE {"read"})
                    \cup (IF r.write_closed THEN {} ELSE {"write"})
=============================================================================
