----------------------------- MODULE FrameStore -----------------------------
(***************************************************************************)
(* What the physical memory manager promises the rest of the kernel: a     *)
(* pool of frames, each carrying the number of references its users hold.  *)
(* An allocation hands out frames nobody holds and fails only when there   *)
(* are none; a frame goes back to the pool with its last reference.        *)
(***************************************************************************)
EXTENDS Integers

CONSTANTS Pool,     \* the frames an allocation may return
          RefMax,   \* the largest reference count (UINT16_MAX)
          MaxRun    \* longest contiguous allocation a caller asks for

VARIABLES held,     \* held[f]: references to frame f held by the kernel's parts
          ret       \* frames handed out by the last call, {} when it gave none

storeVars == <<held, ret>>

StoreInit ==
  /\ held = [f \in Pool |-> 0]
  /\ ret = {}

\* Runs of count consecutive frames that nobody holds.
UnheldRuns(count) ==
  {S \in SUBSET Pool : \E b \in Pool : S = b .. b + count - 1 /\ \A f \in S : held[f] = 0}

Allocate(count) ==
  \/ \E S \in UnheldRuns(count) :
       /\ held' = [f \in Pool |-> IF f \in S THEN 1 ELSE held[f]]
       /\ ret' = S
  \/ /\ UnheldRuns(count) = {}
     /\ ret' = {}
     /\ UNCHANGED held

Share(f) ==
  /\ held[f] \in 1 .. RefMax - 1
  /\ held' = [held EXCEPT ![f] = @ + 1]
  /\ ret' = {}

Release(f) ==
  /\ held[f] > 0
  /\ held' = [held EXCEPT ![f] = @ - 1]
  /\ ret' = {}

StoreNext ==
  \/ \E count \in 1 .. MaxRun : Allocate(count)
  \/ \E f \in Pool : Share(f) \/ Release(f)

StoreSpec == StoreInit /\ [][StoreNext]_storeVars
=============================================================================
