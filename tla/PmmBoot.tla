------------------------------ MODULE PmmBoot ------------------------------
(***************************************************************************)
(* pmm_init (src/mm/pmm.cpp): from the boot loader's memory map to the     *)
(* bitmap, the reference counts and the counters that module Pmm starts    *)
(* from.  The three loops over the map are three phases of one entry per   *)
(* step.                                                                   *)
(*                                                                         *)
(* Addresses are multiples of half a frame (Unit = 2 per frame), so that   *)
(* the map may begin and end inside a frame.  The bitmap needs one frame   *)
(* per BitsPerFrame frames of memory and the counts one per RefsPerFrame.  *)
(***************************************************************************)
EXTENDS Integers, Sequences, FiniteSets

CONSTANTS Maps,           \* memory maps examined: sequences of entries
          BitsPerFrame,   \* 32768
          RefsPerFrame,   \* 2048
          AddrMax         \* UINT64_MAX

Unit == 2

VARIABLES memory_map, phase, i,
          highest_phys_addr, g_bitmap_bits,
          bitmap_at, refcounts_at,        \* first frame of each table, or None
          bitmap, refcounts, g_free_memory, g_highest_page, hint

vars == <<memory_map, phase, i, highest_phys_addr, g_bitmap_bits, bitmap_at,
          refcounts_at, bitmap, refcounts, g_free_memory, g_highest_page, hint>>

None == -1
DivUp(a, b) == (a + b - 1) \div b
Larger(a, b) == IF a > b THEN a ELSE b

End(e) == e.base + e.length
Overflows(e) == End(e) > AddrMax

\* get_aligned_usable_range: the frames that lie wholly inside the entry.
FirstFrame(e) == DivUp(e.base, Unit)
FrameCount(e) ==
  IF e.length = 0 \/ Overflows(e) \/ FirstFrame(e) >= End(e) \div Unit
  THEN 0 ELSE End(e) \div Unit - FirstFrame(e)

\* Frames of the two tables.
bitmap_frames == DivUp(g_bitmap_bits, BitsPerFrame)
refcount_frames == DivUp(g_bitmap_bits, RefsPerFrame)

Init ==
  /\ memory_map \in Maps
  /\ phase = "measure" /\ i = 1
  /\ highest_phys_addr = 0 /\ g_bitmap_bits = 0
  /\ bitmap_at = None /\ refcounts_at = None
  /\ bitmap = <<>> /\ refcounts = <<>>
  /\ g_free_memory = 0 /\ g_highest_page = 0 /\ hint = 0

\* First loop: the highest address of usable or reclaimable memory.
Measure ==
  /\ phase = "measure" /\ i <= Len(memory_map)
  /\ LET e == memory_map[i] IN
     highest_phys_addr' = IF e.type \in {"usable", "reclaimable"} /\ ~Overflows(e)
                          THEN Larger(highest_phys_addr, End(e)) ELSE highest_phys_addr
  /\ i' = i + 1
  /\ UNCHANGED <<memory_map, phase, g_bitmap_bits, bitmap_at, refcounts_at, bitmap,
                 refcounts, g_free_memory, g_highest_page, hint>>

Measured ==
  /\ phase = "measure" /\ i > Len(memory_map)
  /\ \/ /\ highest_phys_addr > AddrMax - (Unit - 1)
        /\ phase' = "panic"
        /\ UNCHANGED <<g_bitmap_bits, i>>
     \/ /\ highest_phys_addr <= AddrMax - (Unit - 1)
        /\ g_bitmap_bits' = DivUp(highest_phys_addr, Unit)
        /\ phase' = "place" /\ i' = 1
  /\ UNCHANGED <<memory_map, highest_phys_addr, bitmap_at, refcounts_at, bitmap, refcounts,
                 g_free_memory, g_highest_page, hint>>

\* Mutant: the range need only hold the larger of the two tables.
Place_larger_fits ==
  /\ phase = "place" /\ i <= Len(memory_map)
  /\ ~(bitmap_at # None /\ refcounts_at # None)
  /\ LET e == memory_map[i]
         length == FrameCount(e)
         fits == e.type = "usable" /\ length > 0
         takes_bitmap == fits /\ bitmap_at = None /\ length >= bitmap_frames
         both == takes_bitmap /\ refcounts_at = None /\ length >= refcount_frames
         takes_refcounts == fits /\ ~takes_bitmap /\ refcounts_at = None
                                 /\ length >= refcount_frames
     IN /\ bitmap_at' = IF takes_bitmap THEN FirstFrame(e) ELSE bitmap_at
        /\ refcounts_at' = IF both THEN FirstFrame(e) + bitmap_frames
                           ELSE IF takes_refcounts THEN FirstFrame(e) ELSE refcounts_at
  /\ i' = i + 1
  /\ UNCHANGED <<memory_map, phase, highest_phys_addr, g_bitmap_bits, bitmap, refcounts,
                 g_free_memory, g_highest_page, hint>>

\* Second loop: the first range that holds both tables, or one range for each.
Place ==
  /\ phase = "place" /\ i <= Len(memory_map)
  /\ ~(bitmap_at # None /\ refcounts_at # None)
  /\ LET e == memory_map[i]
         length == FrameCount(e)
         fits == e.type = "usable" /\ length > 0
         takes_bitmap == fits /\ bitmap_at = None /\ length >= bitmap_frames
         both == takes_bitmap /\ refcounts_at = None /\ length >= bitmap_frames + refcount_frames
         takes_refcounts == fits /\ ~takes_bitmap /\ refcounts_at = None
                                 /\ length >= refcount_frames
     IN /\ bitmap_at' = IF takes_bitmap THEN FirstFrame(e) ELSE bitmap_at
        /\ refcounts_at' = IF both THEN FirstFrame(e) + bitmap_frames
                           ELSE IF takes_refcounts THEN FirstFrame(e) ELSE refcounts_at
  /\ i' = i + 1
  /\ UNCHANGED <<memory_map, phase, highest_phys_addr, g_bitmap_bits, bitmap, refcounts,
                 g_free_memory, g_highest_page, hint>>

\* Both tables found (every bit set, every count zero), or panic.
Placed ==
  /\ phase = "place"
  /\ \/ /\ bitmap_at # None /\ refcounts_at # None
        /\ bitmap' = [f \in 0 .. g_bitmap_bits - 1 |-> 1]
        /\ refcounts' = [f \in 0 .. g_bitmap_bits - 1 |-> 0]
        /\ phase' = "clear" /\ i' = 1
     \/ /\ i > Len(memory_map) /\ (bitmap_at = None \/ refcounts_at = None)
        /\ phase' = "panic"
        /\ UNCHANGED <<bitmap, refcounts, i>>
  /\ UNCHANGED <<memory_map, highest_phys_addr, g_bitmap_bits, bitmap_at, refcounts_at,
                 g_free_memory, g_highest_page, hint>>

\* Third loop: the whole frames of every usable entry become free.
Clear ==
  /\ phase = "clear" /\ i <= Len(memory_map)
  /\ LET e == memory_map[i]
         start == FirstFrame(e)
         frames == IF e.type # "usable" \/ start >= g_bitmap_bits THEN 0
                   ELSE IF start + FrameCount(e) > g_bitmap_bits
                   THEN g_bitmap_bits - start ELSE FrameCount(e)
     IN /\ bitmap' = [f \in DOMAIN bitmap |->
                        IF f >= start /\ f < start + frames THEN 0 ELSE bitmap[f]]
        /\ g_free_memory' = g_free_memory + frames
        /\ g_highest_page' = IF frames > 0 THEN Larger(g_highest_page, start + frames - 1)
                             ELSE g_highest_page
  /\ i' = i + 1
  /\ UNCHANGED <<memory_map, phase, highest_phys_addr, g_bitmap_bits, bitmap_at,
                 refcounts_at, refcounts, hint>>

\* The frames of the tables.
Metadata ==
  IF bitmap_at = None \/ refcounts_at = None THEN {}
  ELSE (bitmap_at .. bitmap_at + bitmap_frames - 1)
         \cup (refcounts_at .. refcounts_at + refcount_frames - 1)

\* Mutant: frame 0 is charged to the counter although the tables already took it.
Reserve_charges_zero ==
  /\ phase = "clear" /\ i > Len(memory_map)
  /\ bitmap' = [f \in DOMAIN bitmap |-> IF f \in Metadata \cup {0} THEN 1 ELSE bitmap[f]]
  /\ refcounts' = [f \in DOMAIN refcounts |->
                     IF f \in Metadata \cup {0} THEN 1 ELSE refcounts[f]]
  /\ g_free_memory' = g_free_memory - bitmap_frames - refcount_frames - 1
  /\ hint' = IF g_bitmap_bits > 1 /\ hint = 0 THEN 1 ELSE hint
  /\ phase' = "done"
  /\ UNCHANGED <<memory_map, i, highest_phys_addr, g_bitmap_bits, bitmap_at, refcounts_at,
                 g_highest_page>>

\* The tables' frames and frame 0 are taken back, with one reference each, and
\* frame 0 is subtracted from the free memory only if it was still free.
Reserve ==
  /\ phase = "clear" /\ i > Len(memory_map)
  /\ LET left == g_free_memory - bitmap_frames - refcount_frames
         zero_was_free == bitmap[0] = 0 /\ 0 \notin Metadata
     IN g_free_memory' = IF zero_was_free /\ left >= 1 THEN left - 1 ELSE left
  /\ bitmap' = [f \in DOMAIN bitmap |-> IF f \in Metadata \cup {0} THEN 1 ELSE bitmap[f]]
  /\ refcounts' = [f \in DOMAIN refcounts |->
                     IF f \in Metadata \cup {0} THEN 1 ELSE refcounts[f]]
  /\ hint' = IF g_bitmap_bits > 1 /\ hint = 0 THEN 1 ELSE hint
  /\ phase' = "done"
  /\ UNCHANGED <<memory_map, i, highest_phys_addr, g_bitmap_bits, bitmap_at, refcounts_at,
                 g_highest_page>>

\* A panic and the end of pmm_init are final.
Stopped == phase \in {"done", "panic"} /\ UNCHANGED vars

Next == Measure \/ Measured \/ Place \/ Placed \/ Clear \/ Reserve \/ Stopped

Spec == Init /\ [][Next]_vars

-----------------------------------------------------------------------------
\* Frames that a usable entry covers from their first to their last byte.
UsableFrames ==
  {f \in 0 .. g_bitmap_bits - 1 :
     \E k \in 1 .. Len(memory_map) :
       LET e == memory_map[k] IN
       /\ e.type = "usable" /\ ~Overflows(e)
       /\ e.base <= f * Unit /\ (f + 1) * Unit <= End(e)}

\* pmm_init hands Pmm the state its Init describes: free are exactly the usable
\* frames that hold neither table and are not frame 0, the tables' frames and
\* frame 0 carry one reference and everything else none; the free memory is the
\* number of free frames, also when frame 0 is not usable or holds a table.
BootLeavesPool ==
  phase = "done" =>
    /\ \A f \in 0 .. g_bitmap_bits - 1 :
         /\ bitmap[f] = 0 <=> f \in UsableFrames \ (Metadata \cup {0})
         /\ refcounts[f] = IF f \in Metadata \cup {0} THEN 1 ELSE 0
    /\ g_free_memory = Cardinality({f \in DOMAIN bitmap : bitmap[f] = 0})

\* The tables lie in usable memory inside the bitmap, do not overlap, and no free
\* frame lies above g_highest_page, which pmm_alloc_frames tests against.
TablesFit ==
  phase = "done" =>
    /\ Metadata \subseteq UsableFrames
    /\ Cardinality(Metadata) = bitmap_frames + refcount_frames
    /\ \A f \in DOMAIN bitmap : bitmap[f] = 0 => f <= g_highest_page
=============================================================================
