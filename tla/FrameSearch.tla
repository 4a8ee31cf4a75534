----------------------------- MODULE FrameSearch -----------------------------
(***************************************************************************)
(* What the searches of the Bitmap class promise their caller, without the *)
(* word-at-a-time scanning: the physical memory manager's model uses these *)
(* definitions and the Bitmap module's run checks the scans against them.  *)
(***************************************************************************)
EXTENDS Integers

NotFound == -1    \* static_cast<size_t>(-1)

Lowest(S) == CHOOSE i \in S : \A j \in S : i <= j
Highest(S) == CHOOSE i \in S : \A j \in S : i >= j

ClearBits(bits) == {i \in DOMAIN bits : bits[i] = 0}

\* Starts of the runs of count clear bits.
FreeRuns(bits, count) ==
  {i \in DOMAIN bits : \A k \in i .. i + count - 1 : k \in DOMAIN bits /\ bits[k] = 0}

\* The first clear bit at or after start, else the first one before it.
FirstFree(bits, start) ==
  LET above == {i \in ClearBits(bits) : i >= start} IN
  IF above # {} THEN Lowest(above)
  ELSE IF ClearBits(bits) # {} THEN Lowest(ClearBits(bits))
  ELSE NotFound

\* The first run of count clear bits at or after start.
FirstFreeRun(bits, count, start) ==
  LET above == {i \in FreeRuns(bits, count) : i >= start} IN
  IF above = {} THEN NotFound ELSE Lowest(above)

\* The last run of count clear bits.
LastFreeRun(bits, count) ==
  IF FreeRuns(bits, count) = {} THEN NotFound ELSE Highest(FreeRuns(bits, count))
=============================================================================
