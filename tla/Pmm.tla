-------------------------------- MODULE Pmm --------------------------------
(***************************************************************************)
(* The physical memory manager (src/mm/pmm.cpp) as it runs after pmm_init: *)
(* a bitmap of frames, a 16-bit reference count per frame, the search hint *)
(* and the free-memory counter.  Every operation holds g_pmm_lock with     *)
(* interrupts off from its first read to its last write, so each is one    *)
(* step.  The bitmap searches are the ones FrameSearch defines; module     *)
(* Bitmap checks the word scans against them.                              *)
(*                                                                         *)
(* held is not in the code: it counts the references that the callers have *)
(* been given and have not returned.                                       *)
(***************************************************************************)
EXTENDS Integers, FiniteSets, FrameSearch

CONSTANTS g_bitmap_bits,   \* frames the bitmap covers
          Pool,            \* frames pmm_init left free
          Reserved,        \* frame 0 and the frames of the bitmap and the counts
          g_highest_page,  \* last usable frame
          RefMax,          \* UINT16_MAX
          MaxRun           \* longest pmm_alloc_frames request examined

Frames == 0 .. g_bitmap_bits - 1

ASSUME PmmAssumption ==
  /\ g_bitmap_bits \in Nat \ {0}
  /\ g_highest_page \in Frames
  /\ Pool \subseteq 1 .. g_highest_page
  /\ Reserved \subseteq Frames /\ 0 \in Reserved /\ Reserved \cap Pool = {}
  /\ RefMax \in Nat \ {0}
  /\ MaxRun \in Nat \ {0}

VARIABLES bitmap,     \* g_pmm_bitmap: 1 means allocated
          refcounts,  \* g_pmm_refcounts
          hint,       \* m_next_free_hint of the bitmap
          free,       \* g_free_memory, in frames
          panicked,   \* panic() was called: the machine has stopped
          held,       \* references the callers hold
          ret         \* frames returned by the last call

vars == <<bitmap, refcounts, hint, free, panicked, held, ret>>

\* What pmm_init leaves behind.
Init ==
  /\ bitmap = [f \in Frames |-> IF f \in Pool THEN 0 ELSE 1]
  /\ refcounts = [f \in Frames |-> IF f \in Reserved THEN 1 ELSE 0]
  /\ hint = IF g_bitmap_bits > 1 THEN 1 ELSE 0
  /\ free = Cardinality(Pool)
  /\ panicked = FALSE
  /\ held = [f \in Pool |-> 0]
  /\ ret = {}

\* The hint find_first_free leaves when it was h and the search returned f.
HintAfter(h, f) ==
  IF f = NotFound THEN h ELSE IF f + 1 < g_bitmap_bits THEN f + 1 ELSE 0

\* Where a search asked to begin at i begins.
SearchStart(i) == IF i >= g_bitmap_bits THEN 0 ELSE i

\* The frames S leave the bitmap for the caller; frame 0, found in the bitmap by
\* mistake (zero is {0}), leaves it for good.
HandOut(S, zero) ==
  /\ bitmap' = [f \in Frames |-> IF f \in S \cup zero THEN 1 ELSE bitmap[f]]
  /\ refcounts' = [f \in Frames |->
                     IF f \in S \/ (f \in zero /\ refcounts[f] = 0) THEN 1 ELSE refcounts[f]]
  /\ held' = [f \in Pool |-> IF f \in S THEN held[f] + 1 ELSE held[f]]
  /\ ret' = S

\* pmm_alloc_frame: from the hint, and once more past frame 0 if that was found.
pmm_alloc_frame ==
  LET first == FirstFree(bitmap, SearchStart(hint))
      zero == IF first = 0 THEN {0} ELSE {}
      frame_idx == IF first = 0
                   THEN FirstFree([bitmap EXCEPT ![0] = 1], SearchStart(1))
                   ELSE first
      taken == {frame_idx} \cap Frames
  IN
  /\ ~panicked
  /\ hint' = HintAfter(HintAfter(hint, first), frame_idx)
  /\ HandOut(taken, zero)
  /\ free' = free - Cardinality(taken)
                  - (IF zero # {} /\ free > 0 THEN 1 ELSE 0)
  /\ UNCHANGED panicked

\* Mutant: the run may not reach the last usable frame.
pmm_alloc_frames_below_highest(count) ==
  LET frame_idx == LastFreeRun(bitmap, count)
      found == frame_idx # NotFound /\ frame_idx + count - 1 < g_highest_page
  IN
  /\ ~panicked
  /\ \/ /\ found
        /\ HandOut(frame_idx .. frame_idx + count - 1, {})
        /\ free' = free - count
        /\ UNCHANGED hint
     \/ /\ ~found
        /\ ret' = {}
        /\ UNCHANGED <<bitmap, refcounts, free, held, hint>>
  /\ UNCHANGED panicked

\* Mutant: a run costs one frame of free memory.
pmm_alloc_frames_counts_once(count) ==
  LET frame_idx == LastFreeRun(bitmap, count) IN
  /\ ~panicked
  /\ frame_idx # NotFound
  /\ HandOut(frame_idx .. frame_idx + count - 1, {})
  /\ free' = free - 1
  /\ UNCHANGED <<hint, panicked>>

\* pmm_alloc_frames(count) for count > 1: the highest run that is free.
pmm_alloc_frames(count) ==
  LET frame_idx == LastFreeRun(bitmap, count)
      found == /\ frame_idx # NotFound
               /\ count <= g_bitmap_bits - frame_idx
               /\ frame_idx + count - 1 <= g_highest_page
  IN
  /\ ~panicked
  /\ \/ /\ found
        /\ HandOut(frame_idx .. frame_idx + count - 1, {})
        /\ free' = free - count
        /\ hint' = IF frame_idx <= hint /\ frame_idx + count > hint
                   THEN frame_idx + count ELSE hint
     \/ /\ ~found
        /\ ret' = {}
        /\ UNCHANGED <<bitmap, refcounts, free, held, hint>>
  /\ UNCHANGED panicked

\* Mutant: no test against UINT16_MAX.
pmm_refcount_inc_unchecked(f) ==
  /\ ~panicked
  /\ held[f] > 0
  /\ refcounts' = [refcounts EXCEPT ![f] = @ + 1]
  /\ held' = [held EXCEPT ![f] = @ + 1]
  /\ ret' = {}
  /\ UNCHANGED <<bitmap, hint, free, panicked>>

\* pmm_refcount_inc by a caller that holds a reference to f.
pmm_refcount_inc(f) ==
  /\ ~panicked
  /\ held[f] > 0
  /\ \/ /\ refcounts[f] = RefMax
        /\ panicked' = TRUE
        /\ UNCHANGED <<refcounts, held, ret>>
     \/ /\ refcounts[f] # RefMax
        /\ refcounts' = [refcounts EXCEPT ![f] = @ + 1]
        /\ held' = [held EXCEPT ![f] = @ + 1]
        /\ ret' = {}
        /\ UNCHANGED panicked
  /\ UNCHANGED <<bitmap, hint, free>>

\* Mutant: the bit is cleared before the last reference is gone.
pmm_refcount_dec_frees_early(f) ==
  /\ ~panicked
  /\ held[f] > 0
  /\ held' = [held EXCEPT ![f] = @ - 1]
  /\ ret' = {}
  /\ refcounts' = [refcounts EXCEPT ![f] = IF @ = 0 THEN 0 ELSE @ - 1]
  /\ bitmap' = [bitmap EXCEPT ![f] = 0]
  /\ free' = IF bitmap[f] = 1 THEN free + 1 ELSE free
  /\ hint' = f
  /\ UNCHANGED panicked

\* pmm_refcount_dec, and pmm_free_frame, by a caller giving up its reference.
pmm_refcount_dec(f) ==
  /\ ~panicked
  /\ held[f] > 0
  /\ held' = [held EXCEPT ![f] = @ - 1]
  /\ ret' = {}
  /\ refcounts' = [refcounts EXCEPT ![f] = IF @ = 0 THEN 0 ELSE @ - 1]
  /\ \/ /\ refcounts[f] = 1
        /\ bitmap' = [bitmap EXCEPT ![f] = 0]
        /\ hint' = f
        /\ free' = free + 1
     \/ /\ refcounts[f] # 1
        /\ UNCHANGED <<bitmap, hint, free>>
  /\ UNCHANGED panicked

Next ==
  \/ pmm_alloc_frame
  \/ \E count \in 2 .. MaxRun : pmm_alloc_frames(count)
  \/ \E f \in Pool : pmm_refcount_inc(f) \/ pmm_refcount_dec(f)

Spec == Init /\ [][Next]_vars

-----------------------------------------------------------------------------
TypeOK ==
  /\ bitmap \in [Frames -> {0, 1}]
  /\ refcounts \in [Frames -> 0 .. RefMax]
  /\ hint \in 0 .. g_bitmap_bits
  /\ free \in Nat
  /\ panicked \in BOOLEAN
  /\ held \in [Pool -> 0 .. RefMax]
  /\ ret \in SUBSET Pool

\* The 16-bit count of a frame is the number of references its users hold, and
\* its bit is set exactly while there is one: alloc (set the bit, count 1), share
\* and release agree on when a frame is in use.
CountsAreReferences ==
  \A f \in Pool : refcounts[f] = held[f] /\ (bitmap[f] = 1 <=> held[f] > 0)

\* A frame that pmm_init did not free, frame 0 included, never becomes free, so
\* the special case of frame 0 in pmm_alloc_frame is never taken.
OthersStayReserved ==
  \A f \in Frames \ Pool : bitmap[f] = 1 /\ refcounts[f] = IF f \in Reserved THEN 1 ELSE 0

\* g_free_memory is exactly the free frames of the bitmap, whatever mixture of
\* single frames, runs, shares and releases led here; it never wraps below zero.
FreeMemoryIsExact == free = Cardinality(ClearBits(bitmap))

\* The manager implements FrameStore: no frame is handed out while somebody holds
\* it, and an allocation fails only when no run of that length is free.
Store == INSTANCE FrameStore
ImplementsFrameStore == Store!StoreSpec
=============================================================================
