# uniOS: a TLA+ verification of the kernel

uniOS is a C++20 operating system for x86-64. This directory models its kernel
in TLA+. Small instances are model-checked with TLC; the properties on which the
rest of the system leans most are proved with TLAPS for every size. Paths below
are relative to the repository's root.

## 1. The system

One CPU runs the kernel. System calls run with interrupts on and may be
preempted, so two calls of different processes interleave wherever no spinlock
is held; a spinlock raises `preempt_count`, and its `_irqsave` form also masks
interrupts. Everything that blocks does so on a wait queue of the scheduler, and
every queue links processes through the one field `Process::queue_next`.

| Part | State | Operations | Interacts with | What is hard |
|---|---|---|---|---|
| Bitmap (`src/mm/bitmap.cpp`) | bits, hint | set, set_range, three searches | PMM | word boundaries, sizes that are no multiple of 64 |
| Physical memory (`src/mm/pmm.cpp`) | bitmap, 16-bit counts, free memory | init, alloc, alloc_frames, refcount_inc/dec, free | everything that maps memory | counts at their limit, releases in any order, placing its own tables |
| Virtual memory (`src/mm/vmm.cpp`, `vma.cpp`) | page tables, areas | map, clone, fault, free | PMM, scheduler, SHM | copy-on-write among generations, a clone that runs out of memory |
| Shared memory (`SYS_SHM_*` in `syscall.cpp`) | 64 blocks | get, map, unmap, free, clean-up at exit | VMM, PMM | owners that exit while others map, numbers given out again |
| Kernel heap (`src/mm/heap.cpp`) | buckets, page headers | malloc, free | PMM | large ranges, coalescing |
| Scheduler (`src/kernel/sched/scheduler.cpp`) | process list, ready, sleep and wait queues, family tree | create, fork, thread, exec, exit, waitpid, reap, wait, sleep, wake, boost, tick | everything that blocks | one link for all queues, two-phase freeing, deltas with late ticks |
| Shutdown (same file) | g_shutdown_action | reboot, power off | scheduler, VFS | a second request |
| Spinlocks, preemption (`include/kernel/sync/spinlock.h`, `irq.cpp`) | lock word, preempt_count, preempt_pending | acquire, release, tick | everything | a tick in a critical section, the lock that crosses a context switch |
| Mutex, futex, epoll (`src/kernel/sync/`) | lock word and queue; hash buckets; watch list and global queue | lock, unlock; wait, wake; add, del, wait | scheduler, pipes, events | lost wakeups, stale addresses |
| Pipes (`src/fs/pipe.cpp`) | ring, closed flags, slots | create, read, write, close | VFS descriptors, scheduler, epoll | wrap-around, closing under sleepers, slot reuse |
| Input events (`src/kernel/core/input_event.cpp`, `syscall.cpp`) | ring per process | push, poll, wait | drivers, window manager | producers in interrupts |
| Signals, memfd, VFS and page cache, FAT32, uniFS, storage guard | | | | descriptors shared by fork, eviction, order of disk writes |
| TCP, UDP, ARP, DHCP, DNS, network drivers | | | | loss, duplicates, timeouts, sequence numbers modulo 2^32 |
| xHCI, AHCI, display, audio, window manager, boot loader, user programs | | | | rings shared with devices, buffer retirement |

`PROJECT.json` lists every part with its files and status ("components") and
the hazards of the code at the lines where they bite ("hazards").

## 2. Plan

Order: what everything else rests on comes first.

1. **Done.** Frames (bitmap, PMM, its start-up), the scheduler, spinlocks and
   preemption, mutex, futex, epoll, pipes, input events, and the address spaces
   of processes with copy-on-write and shared memory. Abstract specifications:
   `FrameStore` for the PMM, `Channel` for pipes, `ProcessMemory` for address
   spaces. Theorems for PMM, spinlocks and mutex.
2. **Next, memory:** threads in one address space (`vma_lock` and
   `vma_lock_ptr`, the range race of mmap, clone against munmap), the sorted VMA
   list with its trims and splits and the ELF loader's merging of segments, the
   heap, DMA and MMIO ranges with the TLB shootdown, memfd.
3. **Files:** descriptors and vnode counts, mounts, the page cache and its
   eviction, FAT32 cluster chains and the order of writes around a power loss,
   the storage guard. Signals over the scheduler.
4. **Network and devices:** TCP connections over a network that loses,
   duplicates and reorders; ARP retries; UDP rings; DHCP and DNS exchanges; the
   descriptor rings of e1000 and xHCI; AHCI command slots; display buffers and
   the window registry.
5. **Proofs:** isolation and frame counts of `AddressSpace`; the refinement of
   `Channel` by `Pipe`; the scheduler's queue invariant, one lemma per operator.

## 3. Modules

| Module | Models |
|---|---|
| `FrameSearch` | the definition of the three bitmap searches over single bits |
| `Bitmap` | the word-at-a-time searches and `set_range` of `bitmap.cpp` |
| `PmmBoot` | `pmm_init`, one step per memory-map entry |
| `Pmm`, `FrameStore`, `PmmProofs` | the PMM after start-up; what it promises; proofs |
| `MCPmm` | instances of the three above |
| `Scheduler`, `MCScheduler` | the scheduler |
| `Shutdown`, `MCShutdown` | reboot and power-off, on top of `Scheduler` |
| `Preempt`, `PreemptProofs` | spinlocks, `preempt_count`, the timer interrupt |
| `Mutex`, `MCMutex`, `MutexProofs` | the mutex with priority inheritance |
| `Futex`, `MCFutex` | futex buckets, wait and wake |
| `Epoll` | epoll over pipes and the event queue |
| `MCWakeups` | instances of mutex, futex and epoll |
| `Pipe`, `Channel`, `MCPipe` | pipes with their slots and descriptors; a bounded channel; instances |
| `Events` | the window manager's event queue, its producers and its consumer |
| `AddressSpace`, `ProcessMemory`, `MCAddressSpace` | page tables, areas, faults, fork, exec, SHM; the memory a process sees; instances |

How state and steps correspond:

- A definition carries the name of the function it models; "map" in
  `PROJECT.json` gives its lines. Operators whose names extend a function's name
  and whose comment starts with "Mutant" (or says what was changed) are
  deliberately wrong variants, used to show that a property can fail.
- A function that runs from its first read to its last write under a spinlock
  with interrupts off is one action. Where the code releases a lock and uses
  what it read, the function is several actions: `pipe_create_find` and
  `pipe_create_claim`, `shm_map_lookup` and `shm_map_attach`, the detached,
  checked and freed stages of `process_free_reaped`, the two scans of
  `sys_epoll_wait`, `event_push`, `event_store` and `event_publish`.
- `Scheduler` holds its state in one record `k`. Each C function is an operator
  from record to record, and an action is the composition of the operators its
  handler calls, so a handler is never split. A pid names its `Process`
  structure, since `g_next_pid` only grows. `due` is a ghost field: the ticks a
  sleeper has left, beside the deltas the code keeps.
- `Preempt` leaves open which ready process runs next; `Scheduler` chooses it.
  `Mutex`, `Futex`, `Epoll`, `Pipe` and `Events` use wait queues as `Scheduler`
  implements them: a waiter is linked before the lock is released, and a wake
  removes it. Each has an action for a wake from elsewhere (a signal, the exit
  of a child), which the code's loops have to survive.
- `Pmm`'s ghost variable `held` counts the references callers were given. Callers
  return only references they hold; that they do so is what
  `AddressSpace!FramesAreCounted` shows for the VMM.
- In `AddressSpace` the four levels of a page table are one function from pages
  to entries and an area is one page. A process has one thread. The frames of
  page tables are left out. `op` labels a step as a store of the program, an
  exec or another kernel step, so that the refinement cannot explain lost data
  as a store that never happened.

## 4. Runs

An MC module can hold several instances: a variable that no step changes
(`subject`, `workload`, `instance` or `scene`) says which of them a behaviour is
about, and the others stay in their initial state. The state space is the sum of
theirs, not the product.

Passing runs:

| Run | Instances | Shows |
|---|---|---|
| `pmm` | all bitmaps of up to 7 bits, words of 2; memory maps of 3 entries with ends on and off frame edges, one whose end overflows; 8 frames, 5 free at first, counts up to 2, runs up to 3 | every word-at-a-time search agrees with `FrameSearch` and `set_range` writes its range only; the tables fit where `pmm_init` puts them, and it leaves the state `Pmm` starts from; counts, bitmap and free memory agree, and the calls refine `FrameStore` |
| `scheduler` | pid 0, idle and one more, all actions; two more, through three generations of processes and threads; two more, waiting, sleeping and boosted | one queue per process, the family tree, no reachable freed structure, page tables freed once, no missed exit, exact sleeps with late ticks |
| `scheduler_computing` | three tasks beside pid 0 and idle | every computing task keeps getting the CPU |
| `preempt` | 3 processes | no switch inside a critical section, exact counters, deferred ticks are served |
| `pipe` | 2 processes, 3 bytes of 2 values; 2 slots; 3 processes and 1 byte | refines `Channel` across wrap-around and reuse; slots follow descriptors; no lost wakeup |
| `wakeups` | mutex: 3 processes, 3 priorities; futex: 3 threads, 2 words in 2 pages, 3 frames, 2 buckets; epoll: 2 threads, 2 pipes, 1 tick | exclusion, no stranded waiter, every waiter is woken; no lost wakeup, a wake reaches its word; no lost readiness, a hang-up ends the call |
| `events` | 2 producers, devices, ring of 2 events | the consumer never sleeps on a queue that has an event; first in first out and delivery until two pushes overlap |
| `address_space` | 2 processes, a stack, a heap and an SHM page, 4 frames; 3 generations over one page | exact counts, isolation, refines `ProcessMemory` |

Some passing runs are restricted to what the code does safely, because the
unrestricted behaviour has one of the counterexamples below:

- `pipe` lets no two `pipe_create` overlap (`SerialNext`).
- `wakeups` keeps the first futex call apart from others and pages where they are
  (`CalmNext`). It puts each word in a page of its own, and its one wake count, 3,
  reaches every waiter.
- `address_space` lets nothing come between the halves of `SYS_SHM_MAP`, and
  leaves out `sys_mprotect` and `SYS_FB_MMAP`.
- The scheduler's runs use `do_exec_alone`, an exec by a process that shares its
  address space with no thread.

`events` is not restricted: pushes may overlap, and then overwrite each other's
event or move the tail back. The history variable `overlap` says that this may
have happened; `FirstInFirstOut` and `EventIsDelivered` speak of behaviours up to
then, `NoMissedEvent` of all.

Runs that end in a counterexample, each a disagreement between the code and what
the repository says of it ("findings" in `PROJECT.json` quotes the lines):

| Run | What happens |
|---|---|
| `shutdown_duplicate` | the "ignored" second request stops the CPU before the first has written the disks |
| `futex_one_page` | a wake of one word wakes a waiter of another word of the page |
| `address_space_mprotect` | mprotect makes a copy-on-write page writable in place |
| `address_space_shm_race` | a block freed between the halves of `SYS_SHM_MAP` is mapped while free |

Configurations kept for further counterexamples, not in the list of runs:

| Module, configuration | Property | What happens |
|---|---|---|
| `MCScheduler`, `SchedulerExec.cfg` | `ProcessesHaveTheirSpace` | exec by one thread frees the page table its other threads run in |
| `MCMutex`, `MutexInherit.cfg` | `OwnerInherits` | a lent priority is not lent to the next owner |
| `Pipe`, `PipeCreate.cfg` | `OneIdPerPipe` | two simultaneous creations get the same slot |
| `MCFutex`, `FutexInit.cfg` | `WakeReachesWord` | lazy initialisation empties a queue a thread already sleeps in |
| `MCFutex`, `FutexCow.cfg` | `WakeReachesWord` | a copy-on-write fault moves the word, and the wake looks in another bucket |
| `AddressSpace`, `AddressSpaceShmReuse.cfg` | `SlotPageIsItsBlock` | a reused number is answered with the old block's mapping |
| `AddressSpace`, `AddressSpaceFb.cfg` | `DeviceStaysReserved` | fork and unmap free the framebuffer's frames |

**Bounds.** All bounds are constants of the modules, and guards use them by name. Words of
2 bits and up to seven bits make head, whole words and tail of a search each empty,
partial or full. Counts up to 2 reach the limit and the increment beyond it.
Three pids beside the kernel are enough for a grandchild whose parent is reaped
while it runs; four tasks for competition on each of the three levels. A ring of
3 bytes with requests of 2 wraps inside a request. Four frames are fewer than
two processes can ask for, so every allocation of `AddressSpace` also fails.
Frames are symmetric there in its run: no step depends on a frame's number, and no
liveness property is checked with the symmetry (the refinement is a safety
property).

**Deadlock** is checked except where the system may stop: `Pmm` (panic),
`Pipe` and `AddressSpace` (all processes have exited), `Shutdown` (the machine
is off).

**Fairness.**

- `scheduler_computing`: the timer keeps ticking (`[]<><<irq_handler>>`); the
  interrupt is periodic and never masked for good.
- `preempt`: the CPU executes the running process's next step.
- `wakeups`, mutex: a process inside `mutex_lock` or holding the mutex gets the CPU, which
  is what `EveryTaskRuns` says of the scheduler for tasks that do not block, and
  holders unlock. Nobody has to ask for the mutex.
- `wakeups`, epoll: a thread inside the call goes on when it is ready.
- `events`: producers finish what they began and the window manager inside the
  call goes on; no fairness is assumed of devices.

Fairness is weak throughout.

## 5. Proofs

| Theorem | Statement |
|---|---|
| `PmmProofs!PmmIsConsistent` | types, counts, reserved frames and free memory stay exact |
| `PmmProofs!PmmImplementsFrameStore` | `Pmm` implements `FrameStore` |
| `PreemptProofs!NoPreemptionInCriticalSection` | `HolderRuns` |
| `PreemptProofs!CountsAreExact` | types and `CountsHeldLocks` |
| `MutexProofs!MutexExcludes` | `MutualExclusion` |
| `MutexProofs!NobodyIsStranded` | types and `NoStrandedWaiter` |

**PMM.** Assumption `PmmAssumption`: at least one frame, a pool below the highest
usable page, reserved frames apart from it and frame 0 among them; `PmmBoot`
checks that `pmm_init` leaves such a state. `PmmInv` is the conjunction of the
four properties. No conjunct is inductive alone: an allocation keeps the
counts exact because clear bits are pool frames (`OthersStayReserved`), which
follows from counts and bitmap agreeing; the free-memory counter then follows
from cardinalities. The lemmas on `Lowest` and `Highest` (well-foundedness of
the naturals) say that a search returns a clear bit or run, or `NotFound` only
when there is none. That the word scans compute these searches is checked by
TLC, not proved.

**Spinlocks.** No assumption on the set of processes. `PreemptInv` adds where a
process that does not run can be (outside the lock's code, or about to take the
lock again after a wait), that one process runs, that the lock word is the
position, and when a yield is owed. The central lemma, `SwitchKeeps`, is about
the context switch: `g_sched_lock` is taken on one process's counter and
released on another's.

**Mutex.** `MutexAssumption`: pids are positive, priorities 0 to 2. `MutexInv`
adds that the queue holds waiting processes, each once; without it a wake could
set a process going that holds the mutex.

**Only model-checked:** everything else, in particular liveness
(`DeferredTickIsServed`, `WaitersAreWoken`, `EveryTaskRuns`, `HangupReturns`,
`EventIsDelivered`), which is out of the prover's reach; the word scans of
`Bitmap`, which are recursive; the invariants of `Scheduler`, `Futex`, `Epoll`
and `Events`; the refinements by `Pipe` and `AddressSpace`.

## 6. Not modelled

- Planned: see section 2.
- Register-level programming of devices, drawing, decoders, ACPI and partition
  parsing: data transformations or pure I/O without shared state.
- More than one CPU: the kernel starts one.
- The boot loader and user programs, except for the memory map the first passes
  on.
- In modelled parts: `EPOLL_CTL_MOD` and descriptors that are not pipes; scan
  code translation and focus rules; copying from and to user memory; the return
  of a sleeping `epoll_wait` at its timeout, which the code only tests after a
  wake.
