---------------------------- MODULE AddressSpace ----------------------------
(***************************************************************************)
(* The address spaces of user processes: page tables and memory areas      *)
(* (VMAs), the copy-on-write fork of src/mm/vmm.cpp, its page-fault        *)
(* handler, the mmap, munmap, mprotect, shared-memory and framebuffer      *)
(* system calls of src/kernel/core/syscall.cpp, exec, exit and reaping,    *)
(* all over the frames and reference counts of the physical memory         *)
(* manager.                                                                *)
(*                                                                         *)
(* A process has one thread here, so its own calls do not overlap; calls   *)
(* of different processes meet in the frames they share.  An area is one   *)
(* page long, and the frames of the page tables themselves are left out.   *)
(***************************************************************************)
EXTENDS Integers, FiniteSets, FiniteSetsExt

CONSTANTS Procs,    \* process slots
          Frames,   \* physical frames of the allocator, not 0
          Device,   \* frames of the framebuffer: the allocator has counts for
                    \* them and has them marked as taken, at a count of 0
          Heap,     \* how many pages SYS_MMAP has to give
          Slots,    \* shared-memory blocks, 1 .. n (64 in the code)
          Values,   \* what a store can write; 0 is the cleared page
          Root      \* the processes whose uid is 0

VARIABLES state,    \* "none", "live" or "zombie"
          vma,      \* the area of a page, NoArea when there is none
          pt,       \* the page-table entry of a page, NoPage when not present
          taken,    \* the frames whose bitmap bit is set
          refs,     \* g_pmm_refcounts
          content,  \* what a frame holds
          block,    \* g_shm_blocks
          mapping,  \* the block a process has looked up in SYS_SHM_MAP and
                    \* not yet mapped, NoBlock otherwise
          op        \* whether the last step was a program's store, an exec or
                    \* another step of the kernel (for the refinement only)

space == <<vma, pt>>
frames == <<taken, refs, content>>
vars == <<state, vma, pt, taken, refs, content, block, mapping, op>>

Stack == 0
SlotPage(i) == Heap + i
Framebuffer == Heap + Cardinality(Slots) + 1
Pages == 0 .. Framebuffer
AllFrames == Frames \cup Device

NoFrame == 0
NoPage == [frame |-> NoFrame, writable |-> FALSE, shared |-> FALSE]
NoArea == [type |-> "none", writable |-> FALSE, shared |-> FALSE]
NoBlock == [slot |-> 0, frame |-> NoFrame, owner |-> 0]

Area(t, w, s) == [type |-> t, writable |-> w, shared |-> s]
Entry(f, w, s) == [frame |-> f, writable |-> w, shared |-> s]
Empty == [v \in Pages |-> NoPage]

TypeOK ==
    /\ state \in [Procs -> {"none", "live", "zombie"}]
    /\ vma \in [Procs -> [Pages -> [type : {"none", "Data", "Stack", "Shared"},
                                    writable : BOOLEAN, shared : BOOLEAN]]]
    /\ \A p \in Procs, v \in Pages :
         pt[p][v] = NoPage \/ pt[p][v] \in [frame : AllFrames, writable : BOOLEAN,
                                            shared : BOOLEAN]
    /\ taken \subseteq AllFrames
    /\ refs \in [AllFrames -> Nat]
    /\ content \in [AllFrames -> Values]
    /\ \A i \in Slots : block[i] = NoBlock \/ block[i] \in [slot : {i}, frame : AllFrames, owner : Procs]
    /\ \A p \in Procs : mapping[p] = NoBlock \/ mapping[p] \in [slot : Slots, frame : AllFrames, owner : Procs]
    /\ op \in {"store", "exec", "kernel"}

(***************************************************************************)
(* Frames.                                                                 *)
(***************************************************************************)
FreeFrames == AllFrames \ taken

\* pmm_alloc_frame, and the page cleared or filled by the caller.
Allocate(f, x) ==
    /\ f \in FreeFrames
    /\ taken' = taken \cup {f}
    /\ refs' = [refs EXCEPT ![f] = 1]
    /\ content' = [content EXCEPT ![f] = x]

\* How many entries of a page table, among the pages S, are of frame f.
Uses(table, S, f) == Cardinality({v \in S : table[v].frame = f})

\* drop[f] calls of pmm_refcount_dec for each frame: a count that reaches 0
\* gives the frame back, a count that is 0 is left alone.
Release(drop) ==
    /\ refs' = [f \in AllFrames |-> IF refs[f] <= drop[f] THEN 0 ELSE refs[f] - drop[f]]
    /\ taken' = taken \ {f \in AllFrames : refs[f] > 0 /\ refs[f] <= drop[f]}
    /\ UNCHANGED content

Dropped(p, S) == [f \in AllFrames |-> Uses(pt[p], S, f)]

(***************************************************************************)
(* Loads are not steps.  A store goes to memory when the entry allows it   *)
(* and traps otherwise.                                                    *)
(***************************************************************************)
Running(p) == state[p] = "live" /\ mapping[p] = NoBlock

Store(p, v, x) ==
    /\ Running(p) /\ pt[p][v].writable
    /\ content' = [content EXCEPT ![pt[p][v].frame] = x]
    /\ op' = "store"
    /\ UNCHANGED <<state, space, taken, refs, block, mapping>>

\* Mutant of copy_page: the page is not copied.
copy_page_cleared(p, v) ==
    LET old == pt[p][v].frame IN
    \E f \in FreeFrames :
      /\ taken' = taken \cup {f}
      /\ refs' = [refs EXCEPT ![f] = 1, ![old] = @ - 1]
      /\ content' = [content EXCEPT ![f] = 0]
      /\ pt' = [pt EXCEPT ![p][v] = Entry(f, vma[p][v].writable, vma[p][v].shared)]

\* The copy of a page that others hold too.
copy_page(p, v) ==
    LET old == pt[p][v].frame IN
    \E f \in FreeFrames :
      /\ taken' = taken \cup {f}
      /\ refs' = [refs EXCEPT ![f] = 1, ![old] = @ - 1]
      /\ content' = [content EXCEPT ![f] = content[old]]
      /\ pt' = [pt EXCEPT ![p][v] = Entry(f, vma[p][v].writable, vma[p][v].shared)]

\* A write fault on a page whose entry does not allow the store.  Where the
\* area does not allow it either, or no frame is left, nothing changes and
\* the caller ends the process.
vmm_handle_page_fault(p, v) ==
    /\ Running(p) /\ pt[p][v] # NoPage /\ ~pt[p][v].writable
    /\ vma[p][v].writable
    /\ IF vma[p][v].type = "Shared"
       THEN /\ pt' = [pt EXCEPT ![p][v].writable = TRUE, ![p][v].shared = @ \/ vma[p][v].shared]
            /\ UNCHANGED frames
       ELSE IF refs[pt[p][v].frame] > 1
       THEN copy_page(p, v)
       ELSE /\ pt' = [pt EXCEPT ![p][v] = Entry(@.frame, vma[p][v].writable, vma[p][v].shared)]
            /\ UNCHANGED frames
    /\ UNCHANGED <<state, vma, block, mapping>>

(***************************************************************************)
(* System calls on private memory.                                         *)
(***************************************************************************)
\* Mutant of sys_mmap: the result of pmm_alloc_frame is not tested.
sys_mmap_unchecked(p, w) ==
    /\ Running(p)
    /\ \E v \in 1 .. Heap :
         /\ vma[p][v] = NoArea /\ \A u \in 1 .. v - 1 : vma[p][u] # NoArea
         /\ pt' = [pt EXCEPT ![p][v] =
                     Entry(IF FreeFrames = {} THEN NoFrame ELSE CHOOSE f \in FreeFrames : TRUE, w, FALSE)]
         /\ IF FreeFrames = {} THEN UNCHANGED frames
            ELSE Allocate(CHOOSE f \in FreeFrames : TRUE, 0)
         /\ vma' = [vma EXCEPT ![p][v] = Area("Data", w, FALSE)]
    /\ UNCHANGED <<state, block, mapping>>

sys_mmap(p, w) ==
    /\ Running(p)
    /\ \E v \in 1 .. Heap :
         /\ vma[p][v] = NoArea /\ \A u \in 1 .. v - 1 : vma[p][u] # NoArea
         /\ \E f \in FreeFrames :
              /\ Allocate(f, 0)
              /\ pt' = [pt EXCEPT ![p][v] = Entry(f, w, FALSE)]
         /\ vma' = [vma EXCEPT ![p][v] = Area("Data", w, FALSE)]
    /\ UNCHANGED <<state, block, mapping>>

munmap_process_range(p, v) ==
    /\ Running(p) /\ pt[p][v] # NoPage /\ vma[p][v].type # "Stack"
    /\ vma' = [vma EXCEPT ![p][v] = NoArea]
    /\ pt' = [pt EXCEPT ![p][v] = NoPage]
    /\ Release(Dropped(p, {v}))
    /\ UNCHANGED <<state, block, mapping>>

sys_mprotect(p, v, w) ==
    /\ Running(p) /\ pt[p][v] # NoPage
    /\ vma' = [vma EXCEPT ![p][v] = IF @ = NoArea THEN @ ELSE Area(@.type, w, FALSE)]
    /\ pt' = [pt EXCEPT ![p][v] = Entry(@.frame, w, FALSE)]
    /\ UNCHANGED <<state, frames, block, mapping>>

\* Mutant of cow_entry: the write bit stays.
cow_entry_writable(e) == e

\* The entry a fork leaves in both page tables.
cow_entry(e) == IF e.shared THEN e ELSE [e EXCEPT !.writable = FALSE]

\* Mutant of process_fork: shared pages are not counted.
process_fork_uncounted(p, c) ==
    /\ Running(p) /\ state[c] = "none"
    /\ state' = [state EXCEPT ![c] = "live"]
    /\ LET table == [v \in Pages |-> cow_entry(pt[p][v])] IN
         pt' = [pt EXCEPT ![p] = table, ![c] = table]
    /\ vma' = [vma EXCEPT ![c] = vma[p]]
    /\ refs' = [f \in AllFrames |-> refs[f] + Uses(pt[p], {v \in Pages : ~pt[p][v].shared}, f)]
    /\ UNCHANGED <<taken, content, block, mapping>>

process_fork(p, c) ==
    /\ Running(p) /\ state[c] = "none"
    /\ state' = [state EXCEPT ![c] = "live"]
    /\ LET table == [v \in Pages |-> cow_entry(pt[p][v])] IN
         pt' = [pt EXCEPT ![p] = table, ![c] = table]
    /\ vma' = [vma EXCEPT ![c] = vma[p]]
    /\ refs' = [f \in AllFrames |-> refs[f] + Uses(pt[p], Pages, f)]
    /\ UNCHANGED <<taken, content, block, mapping>>

\* A fork that runs out of memory after the pages below n were cloned: the
\* counts are given back, the parent's entries stay as the clone left them.
process_fork_fails(p, n) ==
    /\ Running(p)
    /\ pt' = [pt EXCEPT ![p] = [v \in Pages |-> IF v < n THEN cow_entry(@[v]) ELSE @[v]]]
    /\ UNCHANGED <<state, vma, frames, block, mapping>>

\* The new image is loaded first, then the old page table is freed.
do_exec(p) ==
    /\ Running(p)
    /\ \E f \in FreeFrames :
         LET drop == Dropped(p, Pages) IN
         /\ refs' = [g \in AllFrames |-> IF g = f THEN 1 ELSE
                                         IF refs[g] <= drop[g] THEN 0 ELSE refs[g] - drop[g]]
         /\ taken' = (taken \cup {f}) \ {g \in AllFrames : refs[g] > 0 /\ refs[g] <= drop[g]}
         /\ content' = [content EXCEPT ![f] = 0]
         /\ pt' = [pt EXCEPT ![p] = [Empty EXCEPT ![Stack] = Entry(f, TRUE, FALSE)]]
    /\ vma' = [vma EXCEPT ![p] = [v \in Pages |-> IF v = Stack THEN Area("Stack", TRUE, FALSE)
                                                  ELSE NoArea]]
    /\ UNCHANGED <<state, block, mapping>>

(***************************************************************************)
(* Shared memory.                                                          *)
(***************************************************************************)
shm_get(p) ==
    /\ Running(p)
    /\ \E i \in Slots :
         /\ block[i] = NoBlock /\ \A j \in 1 .. i - 1 : block[j] # NoBlock
         /\ \E f \in FreeFrames :
              /\ Allocate(f, 0)
              /\ block' = [block EXCEPT ![i] = [slot |-> i, frame |-> f, owner |-> p]]
    /\ UNCHANGED <<state, space, mapping>>

\* SYS_SHM_MAP up to the release of g_shm_lock, and the look at the areas: a
\* page that has one already is taken for the mapping, and nothing is done.
shm_map_lookup(p, i) ==
    /\ Running(p) /\ block[i] # NoBlock /\ vma[p][SlotPage(i)] = NoArea
    /\ mapping' = [mapping EXCEPT ![p] = block[i]]
    /\ UNCHANGED <<state, space, frames, block>>

\* The rest of it: the count of the frame goes up and the page is mapped.
shm_map_attach(p) ==
    LET m == mapping[p] IN
    /\ state[p] = "live" /\ m # NoBlock
    /\ refs' = [refs EXCEPT ![m.frame] = @ + 1]
    /\ pt' = [pt EXCEPT ![p][SlotPage(m.slot)] = Entry(m.frame, TRUE, TRUE)]
    /\ vma' = [vma EXCEPT ![p][SlotPage(m.slot)] = Area("Shared", TRUE, TRUE)]
    /\ mapping' = [mapping EXCEPT ![p] = NoBlock]
    /\ UNCHANGED <<state, taken, content, block>>

\* The slot pages that shm_unmap_from_process would unmap.
Attached(p) == {v \in {SlotPage(i) : i \in Slots} : vma[p][v].type = "Shared"}

\* shm_unmap_from_process for the pages S, then the owner's reference of the
\* blocks in I.
shm_drop(p, S, I) ==
    /\ vma' = [vma EXCEPT ![p] = [v \in Pages |-> IF v \in S THEN NoArea ELSE @[v]]]
    /\ pt' = [pt EXCEPT ![p] = [v \in Pages |-> IF v \in S THEN NoPage ELSE @[v]]]
    /\ block' = [i \in Slots |-> IF i \in I THEN NoBlock ELSE block[i]]
    /\ Release([f \in AllFrames |-> Uses(pt[p], S, f) + Uses(block, I, f)])

shm_unmap(p, i) ==
    /\ Running(p) /\ SlotPage(i) \in Attached(p)
    /\ shm_drop(p, {SlotPage(i)}, {})
    /\ UNCHANGED <<state, mapping>>

shm_free(p, i) ==
    /\ Running(p)
    /\ shm_drop(p, {SlotPage(i)} \cap Attached(p),
                {j \in {i} : block[j] # NoBlock /\ (p \in Root \/ block[j].owner = p)})
    /\ UNCHANGED <<state, mapping>>

(***************************************************************************)
(* The end of a process, and the framebuffer.                              *)
(***************************************************************************)
process_exit(p) ==
    /\ Running(p)
    /\ shm_drop(p, Attached(p), {i \in Slots : block[i].owner = p})
    /\ state' = [state EXCEPT ![p] = "zombie"]
    /\ UNCHANGED mapping

vmm_free_address_space(p) ==
    /\ state[p] = "zombie"
    /\ state' = [state EXCEPT ![p] = "none"]
    /\ Release(Dropped(p, Pages))
    /\ pt' = [pt EXCEPT ![p] = Empty]
    /\ vma' = [vma EXCEPT ![p] = [v \in Pages |-> NoArea]]
    /\ UNCHANGED <<block, mapping>>

fb_mmap(p) ==
    /\ Running(p) /\ vma[p][Framebuffer] = NoArea
    /\ \E f \in Device : pt' = [pt EXCEPT ![p][Framebuffer] = Entry(f, TRUE, FALSE)]
    /\ vma' = [vma EXCEPT ![p][Framebuffer] = Area("Shared", TRUE, FALSE)]
    /\ UNCHANGED <<state, frames, block, mapping>>

(***************************************************************************)
(* The first process starts as exec leaves it.                             *)
(***************************************************************************)
Init ==
    /\ \E p \in Procs, f \in Frames :
         /\ state = [q \in Procs |-> IF q = p THEN "live" ELSE "none"]
         /\ vma = [q \in Procs |-> [v \in Pages |->
                     IF q = p /\ v = Stack THEN Area("Stack", TRUE, FALSE) ELSE NoArea]]
         /\ pt = [q \in Procs |-> IF q = p THEN [Empty EXCEPT ![Stack] = Entry(f, TRUE, FALSE)]
                                  ELSE Empty]
         /\ taken = {f} \cup Device
         /\ refs = [g \in AllFrames |-> IF g = f THEN 1 ELSE 0]
    /\ content = [f \in AllFrames |-> 0]
    /\ block = [i \in Slots |-> NoBlock]
    /\ mapping = [p \in Procs |-> NoBlock]
    /\ op = "kernel"

\* What a process, and the kernel for it, does with its private memory.
Private(p) ==
    \/ \E v \in Pages : vmm_handle_page_fault(p, v) \/ munmap_process_range(p, v)
    \/ \E w \in BOOLEAN : sys_mmap(p, w)
    \/ \E c \in Procs : process_fork(p, c)
    \/ \E n \in Pages : process_fork_fails(p, n)
    \/ process_exit(p)
    \/ vmm_free_address_space(p)

Shm(p) ==
    \/ shm_get(p)
    \/ shm_map_attach(p)
    \/ \E i \in Slots : shm_map_lookup(p, i) \/ shm_unmap(p, i) \/ shm_free(p, i)

Protect(p) == \E v \in Pages, w \in BOOLEAN : sys_mprotect(p, v, w)

\* No call comes between the two halves of another process's SYS_SHM_MAP.
Undisturbed == {p \in Procs : \A q \in Procs \ {p} : mapping[q] = NoBlock}

Stores(p) == \E v \in Pages, x \in Values : Store(p, v, x)

Exec(p) == do_exec(p) /\ op' = "exec"
Kernel(A) == A /\ op' = "kernel"

Next == \E p \in Undisturbed : Stores(p) \/ Exec(p) \/ Kernel(Private(p) \/ Shm(p))

Spec == Init /\ [][Next]_vars
RacingSpec == Init /\ [][\E p \in Procs : Stores(p) \/ Exec(p) \/ Kernel(Private(p) \/ Shm(p))]_vars
ProtectSpec == Init /\ [][\E p \in Procs : Stores(p) \/ Exec(p) \/ Kernel(Private(p) \/ Protect(p))]_vars
FramebufferSpec == Init /\ [][\E p \in Procs : Stores(p) \/ Exec(p) \/ Kernel(Private(p) \/ fb_mmap(p))]_vars

(***************************************************************************)
(* Properties.                                                             *)
(***************************************************************************)
\* The count of a frame is the number of page-table entries and shared
\* blocks that refer to it, and the allocator takes it for free exactly when
\* there are none (clone_page_table_level, free_page_table_level, the fault
\* handler and the shared-memory calls all keep it so).
FramesAreCounted ==
    \A f \in Frames :
      /\ refs[f] = Cardinality({pv \in Procs \X Pages : pt[pv[1]][pv[2]].frame = f})
                   + Cardinality({i \in Slots : block[i].frame = f})
      /\ f \in taken <=> refs[f] > 0

\* The frames of the framebuffer are never given to the allocator.
DeviceStaysReserved == Device \subseteq taken

\* A page a process can write without a fault, and that is not shared
\* memory, is in no other page table: after clone_page_table_level the first
\* store of either process goes through the fault handler.
Isolated ==
    \A p, q \in Procs, v, w \in Pages :
      /\ pt[p][v].writable /\ ~pt[p][v].shared
      /\ pt[q][w].frame = pt[p][v].frame
      => p = q /\ v = w

\* The page of slot i, where it is mapped while block i exists, is the memory
\* of that block: SYS_SHM_MAP answers with the address without mapping
\* anything when it finds an area there.
SlotPageIsItsBlock ==
    \A p \in Procs, i \in Slots :
      block[i] # NoBlock /\ vma[p][SlotPage(i)].type = "Shared"
        => pt[p][SlotPage(i)].frame = block[i].frame

Own == 0
CellOf(table, v) ==
    IF table[v].frame = NoFrame THEN [object |-> Own, value |-> -1]
    ELSE [object |-> IF table[v].shared THEN table[v].frame ELSE Own,
          value |-> content[table[v].frame]]

Abstract == INSTANCE ProcessMemory WITH
    Objects <- AllFrames,
    mem <- [p \in Procs |-> [v \in Pages |-> CellOf(pt[p], v)]],
    name <- [i \in Slots |-> IF block[i] = NoBlock THEN [object |-> Own, value |-> -1]
                             ELSE [object |-> block[i].frame, value |-> content[block[i].frame]]]

\* Frames, counts and copy-on-write faults give every process the memory of
\* its own that module ProcessMemory describes: a store is seen by the
\* processes that share the block and by nobody else, whatever was forked,
\* unmapped, executed or reaped before.
ImplementsProcessMemory == Abstract!Spec
=============================================================================
