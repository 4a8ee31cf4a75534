------------------------------- MODULE Bitmap -------------------------------
(***************************************************************************)
(* The Bitmap class (src/mm/bitmap.cpp): the word-at-a-time searches the   *)
(* physical memory manager is built on, next to what each one must return. *)
(*                                                                         *)
(* A bitmap is a function from 0..size-1 to {0, 1}; 1 is an allocated      *)
(* frame.  WordBits stands for the 64 bits of a qword, so that bitmaps of  *)
(* a few bits already have a head, whole words and a tail.                 *)
(***************************************************************************)
EXTENDS Integers, FrameSearch

CONSTANT WordBits    \* bits the scans test at once (64 in the code)

ASSUME BitmapAssumption == WordBits \in Nat \ {0}

WordEnd(n) == n - (n % WordBits)          \* n & ~63
WordUp(n) == WordEnd(n + WordBits - 1)    \* (n + 63) & ~63

WordFull(bits, w) == \A i \in w .. w + WordBits - 1 : bits[i] = 1
WordEmpty(bits, w) == \A i \in w .. w + WordBits - 1 : bits[i] = 0

\* The lambda of find_first_free: bits up to a word boundary one by one, then
\* whole words (the lowest clear bit of the first word that is not full), then
\* the tail one by one.
scan_range(bits, begin, end) ==
  LET qword_end == WordEnd(end)
      scan[i \in Nat] ==
        IF i >= end THEN NotFound
        ELSE IF i % WordBits = 0 /\ i < qword_end
             THEN IF WordFull(bits, i) THEN scan[i + WordBits]
                  ELSE CHOOSE f \in i .. i + WordBits - 1 :
                         bits[f] = 0 /\ \A g \in i .. f - 1 : bits[g] = 1
             ELSE IF bits[i] = 0 THEN i ELSE scan[i + 1]
  IN IF begin >= end THEN NotFound ELSE scan[begin]

\* find_first_free(start_index): from the hint (start_index 0) or from the given
\* index to the end, then once more from the beginning.
find_first_free(bits, size, hint, start_index) ==
  LET wanted == IF start_index = 0 THEN hint ELSE start_index
      search_start == IF wanted >= size THEN 0 ELSE wanted
      high == scan_range(bits, search_start, size)
  IN IF size = 0 THEN NotFound
     ELSE IF high = NotFound /\ search_start # 0
          THEN scan_range(bits, 0, search_start)
          ELSE high

\* find_first_free_sequence(count, start_index): the scan carries the position,
\* the length of the current run of clear bits and where that run began.
find_first_free_sequence(bits, size, count, start_index) ==
  LET start == IF start_index >= size THEN 0 ELSE start_index
      qword_start == IF WordUp(start) > size THEN size ELSE WordUp(start)
      scan[i \in Nat, run \in Nat, run_start \in Int] ==
        IF i >= size THEN NotFound
        ELSE LET from == IF run = 0 THEN i ELSE run_start IN
             IF i >= qword_start /\ i < WordEnd(size) /\ i % WordBits = 0
                /\ WordEmpty(bits, i)
             THEN IF run + WordBits >= count THEN from
                  ELSE scan[i + WordBits, run + WordBits, from]
             ELSE IF i >= qword_start /\ i < WordEnd(size) /\ i % WordBits = 0
                     /\ WordFull(bits, i)
             THEN scan[i + WordBits, 0, run_start]
             ELSE IF bits[i] = 0
             THEN IF run + 1 = count THEN from ELSE scan[i + 1, run + 1, from]
             ELSE scan[i + 1, 0, run_start]
  IN IF count = 0 \/ count > size THEN NotFound ELSE scan[start, 0, NotFound]

\* Mutant: a clear word is counted but the answer is the word's own start.
find_last_free_sequence_word_start(bits, size, count) ==
  LET scan[i \in Nat, run \in Nat] ==
        IF i = 0 THEN NotFound
        ELSE LET w == i - WordBits
                 whole == i % WordBits = 0 /\ i <= WordEnd(size) IN
             IF whole /\ WordEmpty(bits, w)
             THEN IF run + WordBits >= count THEN w ELSE scan[w, run + WordBits]
             ELSE IF bits[i - 1] = 0
             THEN IF run + 1 = count THEN i - 1 ELSE scan[i - 1, run + 1]
             ELSE scan[i - 1, 0]
  IN IF count = 0 \/ count > size THEN NotFound ELSE scan[size, 0]

\* find_last_free_sequence(count): downwards from the end; a clear word adds
\* WordBits to the run at once and the answer lies count below the run's top.
find_last_free_sequence(bits, size, count) ==
  LET scan[i \in Nat, run \in Nat] ==    \* every bit at or above i was seen
        IF i = 0 THEN NotFound
        ELSE LET w == i - WordBits
                 whole == i % WordBits = 0 /\ i <= WordEnd(size) IN
             IF whole /\ WordEmpty(bits, w)
             THEN IF run + WordBits >= count THEN w + (run + WordBits - count)
                  ELSE scan[w, run + WordBits]
             ELSE IF whole /\ WordFull(bits, w) THEN scan[w, 0]
             ELSE IF bits[i - 1] = 0
             THEN IF run + 1 = count THEN i - 1 ELSE scan[i - 1, run + 1]
             ELSE scan[i - 1, 0]
  IN IF count = 0 \/ count > size THEN NotFound ELSE scan[size, 0]

\* Mutant: the body is measured from the bitmap's start, not from the head's end.
set_range_body_misplaced(bits, size, start, count, value) ==
  LET end == IF start + count > size THEN size ELSE start + count
      head == IF WordUp(start) > end THEN end ELSE WordUp(start)
      body == head + WordEnd(end)
  IN IF start >= size \/ count = 0 THEN bits
     ELSE [i \in DOMAIN bits |->
             IF i \in start .. head - 1 \/ i \in head .. body - 1 \/ i \in body .. end - 1
             THEN value ELSE bits[i]]

\* set_range(start, count, value): the single bits, the bytes filled at once and
\* the rest write every bit of the clipped range and no other.
set_range(bits, size, start, count, value) ==
  LET end == IF start + count > size THEN size ELSE start + count
      head == IF WordUp(start) > end THEN end ELSE WordUp(start)
      body == head + WordEnd(end - head)
  IN IF start >= size \/ count = 0 THEN bits
     ELSE [i \in DOMAIN bits |->
             IF \/ i \in start .. head - 1
                \/ i \in head .. body - 1
                \/ i \in body .. end - 1
             THEN value ELSE bits[i]]

-----------------------------------------------------------------------------
Clip(start, size) == IF start >= size THEN 0 ELSE start

\* find_first_free returns the first clear bit at or after where it starts and,
\* when there is none, wraps to the first clear bit of all: the head, the words
\* and the tail of scan_range leave no bit out (bitmap.cpp:79-113).
FirstFreeIsFirst(bits, size) ==
  \A hint, start_index \in 0 .. size :
    find_first_free(bits, size, hint, start_index) =
      FirstFree(bits, Clip(IF start_index = 0 THEN hint ELSE start_index, size))

\* find_first_free_sequence returns the first long enough run, including one that
\* begins in one word and ends in another (bitmap.cpp:122-194).
FirstRunIsFirst(bits, size) ==
  \A count \in 0 .. size + 1, start \in 0 .. size :
    find_first_free_sequence(bits, size, count, start) =
      IF count = 0 THEN NotFound ELSE FirstFreeRun(bits, count, Clip(start, size))

\* find_last_free_sequence returns the highest long enough run; the arithmetic
\* q_idx * 64 + (current_run - count) finds it inside a clear word
\* (bitmap.cpp:196-243).
LastRunIsLast(bits, size) ==
  \A count \in 0 .. size + 1 :
    find_last_free_sequence(bits, size, count) =
      IF count = 0 THEN NotFound ELSE LastFreeRun(bits, count)

\* set_range writes exactly the bits of the range that the bitmap has, whatever
\* the alignment of its ends (bitmap.cpp:32-63).
RangeWritten(bits, size) ==
  \A start, count \in 0 .. size + 1, value \in {0, 1} :
    set_range(bits, size, start, count, value) =
      [b \in DOMAIN bits |->
         IF b >= start /\ b < start + count THEN value ELSE bits[b]]
=============================================================================
