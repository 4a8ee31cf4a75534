------------------------------- MODULE MCPmm -------------------------------
(***************************************************************************)
(* The memory manager in three parts: its bitmap (every bitmap of up to    *)
(* MaxSize bits), its start, and its calls.  One of them is the subject of *)
(* a behaviour and the others stay as they begin.                          *)
(*                                                                         *)
(* The calls have five free frames around the frame that holds the bitmap  *)
(* and the counts, and a frame past the last usable one.                   *)
(***************************************************************************)
EXTENDS Pmm, Bitmap, Sequences

CONSTANTS MaxSize, Maps, BitsPerFrame, RefsPerFrame, AddrMax

VARIABLES subject, bits,
          memory_map, phase, i, highest_phys_addr, bitmap_at, refcounts_at, g_free_memory,
          boot_size, boot_bitmap, boot_refcounts, boot_highest, boot_hint

Boot == INSTANCE PmmBoot WITH
    g_bitmap_bits <- boot_size, bitmap <- boot_bitmap, refcounts <- boot_refcounts,
    g_highest_page <- boot_highest, hint <- boot_hint

boot_vars == <<memory_map, phase, i, highest_phys_addr, bitmap_at, refcounts_at, g_free_memory,
               boot_size, boot_bitmap, boot_refcounts, boot_highest, boot_hint>>
all == <<subject, bits, vars, boot_vars>>

MCPool == {1, 2, 4, 5, 6}
MCReserved == {0, 3}

\* Cut points of the address line below 15, with frames of two units; the
\* stretches between them are the entries.  One more map has an entry whose end
\* overflows, one reaches the last address.
Entry(t, b, l) == [type |-> t, base |-> b, length |-> l]
Overflowing == <<Entry("usable", 0, 11), Entry("usable", 16, 20)>>
MCMaps ==
  {<<Entry(t[1], c[1], c[2] - c[1]), Entry(t[2], c[2], c[3] - c[2]),
     Entry(t[3], c[3], c[4] - c[3])>> :
     c \in {d \in (0 .. 1) \X (2 .. 9) \X (3 .. 13) \X (11 .. 15) :
              d[1] < d[2] /\ d[2] < d[3] /\ d[3] < d[4]},
     t \in [1 .. 3 -> {"usable", "reclaimable", "reserved"}]}
  \cup {Overflowing, <<Entry("usable", 0, 11), Entry("usable", 16, 14)>>}

AllInit ==
  /\ subject \in {"bitmap", "boot", "calls"}
  /\ Init /\ Boot!Init
  /\ subject # "boot" => memory_map = Overflowing
  /\ bits \in IF subject = "bitmap" THEN UNION {[0 .. n - 1 -> {0, 1}] : n \in 0 .. MaxSize}
              ELSE {<<>>}

boot_step == subject = "boot" /\ Boot!Next /\ UNCHANGED <<subject, bits, vars>>
call_step == subject = "calls" /\ Next /\ UNCHANGED <<subject, bits, boot_vars>>

AllSpec == AllInit /\ [][boot_step \/ call_step]_all

\* On every bitmap find_first_free returns the first clear bit from where it
\* starts, or else the first of all; find_first_free_sequence the first and
\* find_last_free_sequence the last run that is long enough.
SearchesAreExact ==
  LET size == Cardinality(DOMAIN bits)
  IN FirstFreeIsFirst(bits, size) /\ FirstRunIsFirst(bits, size) /\ LastRunIsLast(bits, size)

\* On every bitmap set_range writes the bits of its range and no other.
RangeIsWritten == RangeWritten(bits, Cardinality(DOMAIN bits))

\* pmm_init puts its two tables in usable memory, apart from each other.
TablesFit == Boot!TablesFit

\* pmm_init leaves the state the calls start from: exactly the other usable
\* frames but frame 0 are free, and they are counted.
BootLeavesPool == Boot!BootLeavesPool
=============================================================================
