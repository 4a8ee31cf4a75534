--------------------------- MODULE ProcessMemory ---------------------------
(***************************************************************************)
(* What the virtual memory of uniOS promises a program.  Every page a      *)
(* process can reach is either its own, and then only its own stores       *)
(* change it, or it belongs to a shared block, and then a store through    *)
(* any attachment is seen through all of them.  A fork gives the child a   *)
(* copy of the parent's own pages and the same shared blocks.              *)
(***************************************************************************)
EXTENDS Integers

CONSTANTS Procs, Pages, Slots, Objects, Values, Stack, Own

VARIABLES mem,      \* mem[p][v]: what process p finds at its page v
          name,     \* name[i]: the shared block that can be attached by number i
          op        \* what the last step was: "store", "exec" or "kernel"

memoryVars == <<mem, name, op>>

None == [object |-> Own, value |-> -1]
Cell(o, x) == [object |-> o, value |-> x]
Zero == Cell(Own, 0)

Init ==
    /\ \E p \in Procs : mem = [q \in Procs |-> [v \in Pages |->
                                  IF q = p /\ v = Stack THEN Zero ELSE None]]
    /\ name = [i \in Slots |-> None]
    /\ op = "kernel"

Map(p, v) ==
    /\ mem[p][v] = None
    /\ mem' = [mem EXCEPT ![p][v] = Zero]
    /\ UNCHANGED name
    /\ op' = "kernel"

\* Some pages of p and some block numbers go away; nobody else's view changes.
Drop(p) ==
    /\ mem' = [mem EXCEPT ![p] = mem'[p]]
    /\ \A v \in Pages : mem'[p][v] \in {mem[p][v], None}
    /\ \A i \in Slots : name'[i] \in {name[i], None}
    /\ op' = "kernel"

Fork(p, c) ==
    /\ \A v \in Pages : mem[c][v] = None
    /\ mem' = [mem EXCEPT ![c] = mem[p]]
    /\ UNCHANGED name
    /\ op' = "kernel"

Exec(p) ==
    /\ mem' = [mem EXCEPT ![p] = [v \in Pages |-> IF v = Stack THEN Zero ELSE None]]
    /\ UNCHANGED name
    /\ op' = "exec"

Written(cell, o, x) == IF cell.object = o THEN Cell(o, x) ELSE cell

Store(p, v, x) ==
    /\ mem[p][v] # None
    /\ LET o == mem[p][v].object IN
         IF o = Own
         THEN mem' = [mem EXCEPT ![p][v] = Cell(Own, x)] /\ UNCHANGED name
         ELSE /\ mem' = [q \in Procs |-> [w \in Pages |-> Written(mem[q][w], o, x)]]
              /\ name' = [i \in Slots |-> Written(name[i], o, x)]
    /\ op' = "store"

\* A new block is an object that no process and no number refers to.
Create(i, o) ==
    /\ name[i] = None
    /\ \A q \in Procs, w \in Pages : mem[q][w].object # o
    /\ \A j \in Slots : name[j].object # o
    /\ name' = [name EXCEPT ![i] = Cell(o, 0)]
    /\ UNCHANGED mem
    /\ op' = "kernel"

Attach(p, v, i) ==
    /\ mem[p][v] = None /\ name[i] # None
    /\ mem' = [mem EXCEPT ![p][v] = name[i]]
    /\ UNCHANGED name
    /\ op' = "kernel"

Next ==
    \/ \E p \in Procs :
         \/ Exec(p)
         \/ \E c \in Procs : Fork(p, c)
         \/ Drop(p)
         \/ \E v \in Pages :
              \/ Map(p, v)
              \/ \E x \in Values : Store(p, v, x)
              \/ \E i \in Slots : Attach(p, v, i)
    \/ \E i \in Slots, o \in Objects : Create(i, o)

Spec == Init /\ [][Next]_memoryVars
=============================================================================
