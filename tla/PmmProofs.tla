------------------------------ MODULE PmmProofs ------------------------------
(***************************************************************************)
(* Theorems about the physical memory manager, for every number of frames, *)
(* every pool pmm_init may leave and every limit of the reference counts.  *)
(***************************************************************************)
EXTENDS Pmm, FiniteSetTheorems, NaturalsInduction, TLAPS

-----------------------------------------------------------------------------
\* The searches of the bitmap return what they are asked for.

\* A nonempty set of naturals has the least element the scans look for.
LEMMA LowestIsLeast ==
  ASSUME NEW S \in SUBSET Nat, S # {}
  PROVE  Lowest(S) \in S /\ \A j \in S : Lowest(S) <= j
<1> DEFINE R == {ss \in Nat \X Nat : ss[1] < ss[2]}
<1>1. IsWellFoundedOn(R, Nat)
  BY NatLessThanWellFounded DEF OpToRel
<1>2. \E x \in S : \A y \in S : <<y, x>> \notin R
  <2> HIDE DEF R
  <2> QED
    BY <1>1, WFMin
<1>3. PICK x \in S : \A y \in S : <<y, x>> \notin R
  BY <1>2
<1>4. \A y \in S : x <= y
  <2> TAKE y \in S
  <2>1. <<y, x>> \notin R
    BY <1>3
  <2>2. <<y, x>> \in Nat \X Nat
    OBVIOUS
  <2> QED
    BY <2>1, <2>2
<1> QED
  BY <1>4 DEF Lowest

\* A nonempty bounded set of naturals has a greatest element.
LEMMA HighestIsGreatest ==
  ASSUME NEW n \in Nat, NEW S \in SUBSET (0 .. n), S # {}
  PROVE  Highest(S) \in S /\ \A j \in S : Highest(S) >= j
<1> DEFINE T == {n - i : i \in S}
<1>1. T \in SUBSET Nat /\ T # {}
  <2>1. \A i \in S : n - i \in Nat
    OBVIOUS
  <2>2. PICK i \in S : TRUE
    OBVIOUS
  <2>3. n - i \in T
    OBVIOUS
  <2> QED
    BY <2>1, <2>3
<1>2. Lowest(T) \in T /\ \A j \in T : Lowest(T) <= j
  BY <1>1, LowestIsLeast
<1>3. PICK i \in S : Lowest(T) = n - i
  BY <1>2
<1>4. ASSUME NEW j \in S
      PROVE  i >= j
  <2>1. n - j \in T
    OBVIOUS
  <2>2. Lowest(T) <= n - j
    BY <1>2, <2>1
  <2> QED
    BY <1>3, <2>2
<1> QED
  BY <1>4 DEF Highest

\* find_first_free returns a clear bit, or NotFound when there is none.
LEMMA FirstFreeIsClear ==
  ASSUME NEW n \in Nat, NEW bits \in [0 .. n - 1 -> {0, 1}], NEW start \in Nat
  PROVE  \/ FirstFree(bits, start) \in ClearBits(bits)
         \/ FirstFree(bits, start) = NotFound /\ ClearBits(bits) = {}
<1> DEFINE above == {i \in ClearBits(bits) : i >= start}
<1>1. ClearBits(bits) \in SUBSET Nat /\ above \in SUBSET Nat
  BY DEF ClearBits
<1>2. CASE above # {}
  BY <1>1, <1>2, LowestIsLeast DEF FirstFree
<1>3. CASE above = {}
  BY <1>1, <1>3, LowestIsLeast DEF FirstFree
<1> QED
  BY <1>2, <1>3

\* find_last_free_sequence returns the start of a run of clear bits inside the
\* bitmap, or NotFound when there is no such run.
LEMMA LastFreeRunIsClear ==
  ASSUME NEW n \in Nat \ {0}, NEW bits \in [0 .. n - 1 -> {0, 1}], NEW count \in Nat \ {0}
  PROVE  \/ /\ LastFreeRun(bits, count) \in 0 .. n - count
            /\ \A k \in LastFreeRun(bits, count) .. LastFreeRun(bits, count) + count - 1 :
                 k \in ClearBits(bits)
         \/ LastFreeRun(bits, count) = NotFound /\ FreeRuns(bits, count) = {}
<1>1. FreeRuns(bits, count) \in SUBSET (0 .. n - 1)
  BY DEF FreeRuns
<1>2. CASE FreeRuns(bits, count) # {}
  <2> DEFINE b == LastFreeRun(bits, count)
  <2>1. b \in FreeRuns(bits, count)
    BY <1>1, <1>2, HighestIsGreatest, n - 1 \in Nat DEF LastFreeRun
  <2>2. b \in 0 .. n - 1 /\ \A k \in b .. b + count - 1 : k \in 0 .. n - 1 /\ bits[k] = 0
    BY <2>1 DEF FreeRuns
  <2>3. b + count - 1 \in b .. b + count - 1
    BY <2>2
  <2> QED
    BY <2>2, <2>3 DEF ClearBits
<1>3. CASE FreeRuns(bits, count) = {}
  BY <1>3 DEF LastFreeRun
<1> QED
  BY <1>2, <1>3

-----------------------------------------------------------------------------
\* The inductive invariant.  CountsAreReferences alone is not inductive:
\* an allocation must find only pool frames clear (OthersStayReserved) and the
\* types of the counts bound the additions.

PmmInv == TypeOK /\ CountsAreReferences /\ OthersStayReserved /\ FreeMemoryIsExact

\* Memory is finite, so free frames can be counted.
LEMMA FiniteFrames == IsFiniteSet(Frames) /\ IsFiniteSet(Pool)
<1>1. IsFiniteSet(Frames)
  BY PmmAssumption, FS_Interval DEF Frames
<1>2. Pool \in SUBSET Frames
  BY PmmAssumption DEF Frames
<1> QED
  BY <1>1, <1>2, FS_Subset

\* In every reachable state the clear bits are exactly the pool frames nobody
\* holds.
LEMMA ClearFramesAreUnheld ==
  ASSUME PmmInv
  PROVE  /\ ClearBits(bitmap) = {f \in Pool : held[f] = 0}
         /\ ClearBits(bitmap) \in SUBSET Frames
         /\ IsFiniteSet(ClearBits(bitmap))
         /\ 0 \notin ClearBits(bitmap)
<1>1. ClearBits(bitmap) \in SUBSET Frames
  BY DEF ClearBits, PmmInv, TypeOK
<1>2. \A f \in Pool : f \in Frames /\ f # 0
  BY PmmAssumption DEF Frames
<1>3. ClearBits(bitmap) = {f \in Pool : held[f] = 0}
  BY <1>2 DEF ClearBits, PmmInv, TypeOK, CountsAreReferences, OthersStayReserved
<1> QED
  BY <1>1, <1>2, <1>3, FiniteFrames, FS_Subset

\* The state pmm_init leaves satisfies the invariant.
LEMMA InitPmmInv == Init => PmmInv
<1> SUFFICES ASSUME Init PROVE PmmInv
  OBVIOUS
<1>1. \A f \in Pool : f \in Frames /\ f \notin Reserved
  BY PmmAssumption DEF Frames
<1>2. Cardinality(Pool) \in Nat
  BY FiniteFrames, FS_CardinalityType
<1>3. TypeOK
  <2>1. refcounts \in [Frames -> 0 .. RefMax] /\ held \in [Pool -> 0 .. RefMax]
    BY PmmAssumption DEF Init
  <2>2. bitmap \in [Frames -> {0, 1}] /\ hint \in 0 .. g_bitmap_bits
    BY PmmAssumption DEF Init
  <2>3. panicked \in BOOLEAN /\ ret \in SUBSET Pool /\ free \in Nat
    BY <1>2 DEF Init
  <2> QED
    BY <2>1, <2>2, <2>3 DEF TypeOK
<1>4. CountsAreReferences
  BY <1>1 DEF Init, CountsAreReferences
<1>5. OthersStayReserved
  BY DEF Init, OthersStayReserved
<1>6. ClearBits(bitmap) = Pool
  BY <1>1 DEF Init, ClearBits
<1>7. FreeMemoryIsExact
  BY <1>6 DEF Init, FreeMemoryIsExact
<1> QED
  BY <1>3, <1>4, <1>5, <1>7 DEF PmmInv

\* Handing out clear frames keeps every part of the invariant but the counter.
LEMMA HandOutKeeps ==
  ASSUME PmmInv, NEW S \in SUBSET ClearBits(bitmap), HandOut(S, {}),
         hint' \in 0 .. g_bitmap_bits, free' = free - Cardinality(S), UNCHANGED panicked
  PROVE  PmmInv'
<1> USE DEF PmmInv
<1>1. S \in SUBSET Pool /\ \A f \in S : held[f] = 0
  BY ClearFramesAreUnheld
<1>2. \A f \in Pool : f \in Frames
  BY PmmAssumption DEF Frames
<1>3. CountsAreReferences'
  BY <1>1, <1>2 DEF HandOut, CountsAreReferences, TypeOK
<1>4. OthersStayReserved'
  BY <1>1 DEF HandOut, OthersStayReserved
<1>5. ClearBits(bitmap') = ClearBits(bitmap) \ S
  BY DEF HandOut, ClearBits, TypeOK
<1>6. Cardinality(ClearBits(bitmap')) = Cardinality(ClearBits(bitmap)) - Cardinality(S)
  BY <1>5, ClearFramesAreUnheld, FS_Difference, FS_Subset, ClearBits(bitmap) \cap S = S
<1>7. FreeMemoryIsExact' /\ free' \in Nat
  <2>1. Cardinality(ClearBits(bitmap')) \in Nat
    BY <1>5, ClearFramesAreUnheld, FS_Difference, FS_CardinalityType
  <2> QED
    BY <1>6, <2>1 DEF FreeMemoryIsExact
<1>8. TypeOK'
  BY <1>1, <1>2, <1>7, PmmAssumption DEF HandOut, TypeOK
<1> QED
  BY <1>3, <1>4, <1>7, <1>8

\* Every call of the manager keeps the invariant.
LEMMA NextPmmInv == PmmInv /\ [Next]_vars => PmmInv'
<1> SUFFICES ASSUME PmmInv, [Next]_vars PROVE PmmInv'
  OBVIOUS
<1>1. ASSUME pmm_alloc_frame PROVE PmmInv'
  <2> DEFINE first == FirstFree(bitmap, SearchStart(hint))
             taken == {first} \cap Frames
  <2>1. SearchStart(hint) \in Nat
    BY PmmAssumption DEF SearchStart, PmmInv, TypeOK
  <2>2. first \in ClearBits(bitmap) \/ first = NotFound
    BY <2>1, FirstFreeIsClear, PmmAssumption DEF PmmInv, TypeOK, Frames
  <2>3. first # 0
    BY <2>2, ClearFramesAreUnheld DEF NotFound
  <2>4. /\ hint' = HintAfter(HintAfter(hint, first), first)
        /\ HandOut(taken, {})
        /\ free' = free - Cardinality(taken)
        /\ UNCHANGED panicked
    <3>1. free - Cardinality(taken) - 0 = free - Cardinality(taken)
      <4>1. IsFiniteSet(taken)
        BY FS_Intersection, FiniteFrames
      <4> QED
        BY <4>1, FS_CardinalityType DEF PmmInv, TypeOK
    <3> QED
      BY <1>1, <2>3, <3>1 DEF pmm_alloc_frame
  <2>5. taken \in SUBSET ClearBits(bitmap)
    BY <2>2 DEF NotFound, Frames
  <2>6. hint' \in 0 .. g_bitmap_bits
    BY <2>2, <2>4, ClearFramesAreUnheld, PmmAssumption
    DEF HintAfter, PmmInv, TypeOK, Frames
  <2> QED
    BY <2>4, <2>5, <2>6, HandOutKeeps
<1>2. ASSUME NEW count \in 2 .. MaxRun, pmm_alloc_frames(count) PROVE PmmInv'
  <2> DEFINE b == LastFreeRun(bitmap, count)
             run == b .. b + count - 1
  <2>1. \/ b \in 0 .. g_bitmap_bits - count /\ \A k \in run : k \in ClearBits(bitmap)
        \/ b = NotFound
    <3>1. count \in Nat \ {0} /\ g_bitmap_bits \in Nat \ {0}
      BY PmmAssumption
    <3>2. bitmap \in [0 .. g_bitmap_bits - 1 -> {0, 1}]
      BY DEF PmmInv, TypeOK, Frames
    <3> QED
      BY <3>1, <3>2, LastFreeRunIsClear
  <2>2. CASE b # NotFound /\ HandOut(run, {}) /\ free' = free - count
                          /\ hint' \in {hint, b + count} /\ UNCHANGED panicked
    <3>1. Cardinality(run) = count
      BY <2>1, <2>2, FS_Interval, PmmAssumption
    <3>2. hint' \in 0 .. g_bitmap_bits
      BY <2>1, <2>2, PmmAssumption DEF PmmInv, TypeOK
    <3> QED
      BY <2>1, <2>2, <3>1, <3>2, HandOutKeeps
  <2>3. CASE ret' = {} /\ UNCHANGED <<bitmap, refcounts, free, held, hint, panicked>>
    BY <2>3 DEF PmmInv, TypeOK, CountsAreReferences, OthersStayReserved, FreeMemoryIsExact
  <2> QED
    BY <1>2, <2>2, <2>3 DEF pmm_alloc_frames
<1>3. ASSUME NEW f \in Pool, pmm_refcount_inc(f) PROVE PmmInv'
  <2>1. f \in Frames
    BY PmmAssumption DEF Frames
  <2>2. CASE refcounts[f] = RefMax
    BY <1>3, <2>2
    DEF pmm_refcount_inc, PmmInv, TypeOK, CountsAreReferences, OthersStayReserved,
        FreeMemoryIsExact
  <2>3. CASE refcounts[f] # RefMax
    <3>1. refcounts[f] = held[f] /\ refcounts[f] + 1 \in 1 .. RefMax /\ bitmap[f] = 1
      BY <1>3, <2>1, <2>3, PmmAssumption
      DEF pmm_refcount_inc, PmmInv, TypeOK, CountsAreReferences
    <3>2. /\ refcounts' = [refcounts EXCEPT ![f] = @ + 1]
          /\ held' = [held EXCEPT ![f] = @ + 1]
          /\ ret' = {} /\ UNCHANGED <<panicked, bitmap, hint, free>>
      BY <1>3, <2>3 DEF pmm_refcount_inc
    <3>3. TypeOK'
      <4>1. refcounts[f] + 1 \in 0 .. RefMax /\ held[f] + 1 \in 0 .. RefMax
        BY <3>1
      <4>2. refcounts' \in [Frames -> 0 .. RefMax]
        BY <3>2, <4>1 DEF PmmInv, TypeOK
      <4>3. held' \in [Pool -> 0 .. RefMax]
        BY <3>2, <4>1 DEF PmmInv, TypeOK
      <4> QED
        BY <3>2, <4>2, <4>3 DEF PmmInv, TypeOK
    <3>4. CountsAreReferences'
      BY <2>1, <3>1, <3>2, PmmAssumption DEF PmmInv, TypeOK, CountsAreReferences, Frames
    <3>5. OthersStayReserved'
      BY <3>2 DEF PmmInv, TypeOK, OthersStayReserved
    <3>6. FreeMemoryIsExact'
      BY <3>2 DEF PmmInv, FreeMemoryIsExact
    <3> QED
      BY <3>3, <3>4, <3>5, <3>6 DEF PmmInv
  <2> QED
    BY <2>2, <2>3
<1>4. ASSUME NEW f \in Pool, pmm_refcount_dec(f) PROVE PmmInv'
  <2>1. f \in Frames
    BY PmmAssumption DEF Frames
  <2> DEFINE n == refcounts[f] - 1
  <2>2. n = held[f] - 1 /\ n \in 0 .. RefMax
    BY <1>4, <2>1, PmmAssumption DEF pmm_refcount_dec, PmmInv, TypeOK, CountsAreReferences
  <2>3. /\ refcounts' = [refcounts EXCEPT ![f] = n] /\ held' = [held EXCEPT ![f] = n]
        /\ bitmap' = IF n = 0 THEN [bitmap EXCEPT ![f] = 0] ELSE bitmap
        /\ hint' \in {hint, f} /\ ret' = {} /\ UNCHANGED panicked
    <3>1. refcounts' = [refcounts EXCEPT ![f] = n]
      <4>1. (IF refcounts[f] = 0 THEN 0 ELSE refcounts[f] - 1) = n
        BY <2>1, <2>2 DEF PmmInv, TypeOK
      <4> HIDE DEF n
      <4> QED
        BY <1>4, <4>1 DEF pmm_refcount_dec
    <3>2. held' = [held EXCEPT ![f] = n]
      BY <1>4, <2>2 DEF pmm_refcount_dec
    <3>3. refcounts[f] = 1 <=> n = 0
      BY <2>1, <2>2 DEF PmmInv, TypeOK
    <3> QED
      BY <1>4, <3>1, <3>2, <3>3 DEF pmm_refcount_dec
  <2> HIDE DEF n
  <2>4. CountsAreReferences' /\ OthersStayReserved'
    <3>1. ASSUME NEW g \in Pool
          PROVE  refcounts'[g] = held'[g] /\ (bitmap'[g] = 1 <=> held'[g] > 0)
      <4>1. g \in Frames
        BY PmmAssumption DEF Frames
      <4>2. refcounts[g] = held[g] /\ (bitmap[g] = 1 <=> held[g] > 0)
        BY DEF PmmInv, CountsAreReferences
      <4>3. CASE g = f
        BY <1>4, <2>1, <2>2, <2>3, <4>2, <4>3 DEF pmm_refcount_dec, PmmInv, TypeOK
      <4>4. CASE g # f
        BY <2>3, <4>1, <4>2, <4>4 DEF PmmInv, TypeOK
      <4> QED
        BY <4>3, <4>4
    <3>2. OthersStayReserved'
      BY <2>3 DEF PmmInv, TypeOK, OthersStayReserved
    <3> QED
      BY <3>1, <3>2 DEF CountsAreReferences
  <2>5. FreeMemoryIsExact' /\ free' \in Nat
    <3>1. CASE refcounts[f] = 1
      <4>1. ClearBits(bitmap') = ClearBits(bitmap) \cup {f} /\ f \notin ClearBits(bitmap)
        BY <1>4, <2>1, <3>1
        DEF pmm_refcount_dec, ClearBits, PmmInv, TypeOK, CountsAreReferences
      <4>2. Cardinality(ClearBits(bitmap')) = Cardinality(ClearBits(bitmap)) + 1
        BY <4>1, FS_AddElement, ClearFramesAreUnheld
      <4> QED
        BY <1>4, <3>1, <4>2 DEF pmm_refcount_dec, PmmInv, TypeOK, FreeMemoryIsExact
    <3>2. CASE refcounts[f] # 1
      BY <1>4, <3>2 DEF pmm_refcount_dec, PmmInv, TypeOK, FreeMemoryIsExact
    <3> QED
      BY <3>1, <3>2
  <2>6. TypeOK'
    <3>1. refcounts' \in [Frames -> 0 .. RefMax] /\ held' \in [Pool -> 0 .. RefMax]
      BY <2>2, <2>3 DEF PmmInv, TypeOK
    <3>2. bitmap' \in [Frames -> {0, 1}] /\ hint' \in 0 .. g_bitmap_bits
      BY <2>1, <2>3, PmmAssumption DEF PmmInv, TypeOK, Frames
    <3> QED
      BY <2>5, <2>3, <3>1, <3>2 DEF PmmInv, TypeOK
  <2> QED
    BY <2>4, <2>5, <2>6 DEF PmmInv
<1>5. CASE UNCHANGED vars
  BY <1>5
  DEF vars, PmmInv, TypeOK, CountsAreReferences, OthersStayReserved, FreeMemoryIsExact
<1> QED
  BY <1>1, <1>2, <1>3, <1>4, <1>5 DEF Next

\* g_free_memory is exact, the counts are the references held, and the bitmap
\* agrees with them in every reachable state (pmm.cpp:198-294).
THEOREM PmmIsConsistent ==
  Spec => [](TypeOK /\ CountsAreReferences /\ OthersStayReserved /\ FreeMemoryIsExact)
<1>1. Init => PmmInv
  BY InitPmmInv
<1>2. PmmInv /\ [Next]_vars => PmmInv'
  BY NextPmmInv
<1>3. PmmInv => TypeOK /\ CountsAreReferences /\ OthersStayReserved /\ FreeMemoryIsExact
  BY DEF PmmInv
<1> QED
  BY <1>1, <1>2, <1>3, PTL DEF Spec

-----------------------------------------------------------------------------
\* The manager implements FrameStore.

\* After pmm_init nobody holds a frame.
LEMMA InitStore == Init => Store!StoreInit
  BY DEF Init, Store!StoreInit

\* A run of clear bits is a run of pool frames nobody holds, and conversely.
LEMMA FreeRunsAreUnheldRuns ==
  ASSUME PmmInv, NEW count \in Nat \ {0}
  PROVE  Store!UnheldRuns(count) = {b .. b + count - 1 : b \in FreeRuns(bitmap, count)}
<1> DEFINE Runs == {b .. b + count - 1 : b \in FreeRuns(bitmap, count)}
<1>1. \A f : f \in Pool /\ held[f] = 0 <=> f \in DOMAIN bitmap /\ bitmap[f] = 0
  BY ClearFramesAreUnheld DEF ClearBits
<1>2. ASSUME NEW S \in Store!UnheldRuns(count) PROVE S \in Runs
  <2>1. PICK b \in Pool : S = b .. b + count - 1 /\ \A f \in S : f \in Pool /\ held[f] = 0
    BY DEF Store!UnheldRuns
  <2>2. b \in S
    BY <2>1, PmmAssumption DEF Frames
  <2>3. b \in FreeRuns(bitmap, count)
    BY <1>1, <2>1, <2>2 DEF FreeRuns
  <2> QED
    BY <2>1, <2>3
<1>3. ASSUME NEW b \in FreeRuns(bitmap, count)
      PROVE  b .. b + count - 1 \in Store!UnheldRuns(count)
  <2>1. /\ b \in Frames
        /\ \A k \in b .. b + count - 1 : k \in DOMAIN bitmap /\ bitmap[k] = 0
    BY DEF FreeRuns, PmmInv, TypeOK
  <2>2. b \in b .. b + count - 1
    BY <2>1 DEF Frames
  <2>3. b \in Pool /\ \A k \in b .. b + count - 1 : k \in Pool /\ held[k] = 0
    BY <1>1, <2>1, <2>2
  <2> QED
    BY <2>3 DEF Store!UnheldRuns
<1> QED
  BY <1>2, <1>3

\* A step that hands out a free run, or finds none, is an allocation of the store.
LEMMA HandOutAllocates ==
  ASSUME PmmInv, NEW count \in Nat \ {0}, NEW b,
         \/ b \in FreeRuns(bitmap, count) /\ HandOut(b .. b + count - 1, {})
         \/ FreeRuns(bitmap, count) = {} /\ ret' = {} /\ held' = held
  PROVE  Store!Allocate(count)
<1>1. CASE b \in FreeRuns(bitmap, count) /\ HandOut(b .. b + count - 1, {})
  <2> DEFINE S == b .. b + count - 1
  <2>1. S \in Store!UnheldRuns(count)
    BY <1>1, FreeRunsAreUnheldRuns
  <2>2. \A f \in S : f \in Pool /\ held[f] = 0
    BY <2>1 DEF Store!UnheldRuns
  <2>3. held' = [f \in Pool |-> IF f \in S THEN 1 ELSE held[f]]
    BY <1>1, <2>2 DEF HandOut
  <2> HIDE DEF S
  <2> QED
    BY <1>1, <2>1, <2>3 DEF HandOut, Store!Allocate, S
<1>2. CASE FreeRuns(bitmap, count) = {} /\ ret' = {} /\ held' = held
  BY <1>2, FreeRunsAreUnheldRuns DEF Store!Allocate
<1> QED
  BY <1>1, <1>2

\* Every call of the manager is a call of the abstract store, or changes
\* nothing it shows.
LEMMA NextStore == PmmInv /\ [Next]_vars => [Store!StoreNext]_(Store!storeVars)
<1> SUFFICES ASSUME PmmInv, Next PROVE Store!StoreNext \/ UNCHANGED Store!storeVars
  BY DEF vars, Store!storeVars
<1>1. ASSUME pmm_alloc_frame PROVE Store!StoreNext
  <2> DEFINE first == FirstFree(bitmap, SearchStart(hint))
  <2>1. SearchStart(hint) \in Nat
    BY PmmAssumption DEF SearchStart, PmmInv, TypeOK
  <2>2. \/ first \in ClearBits(bitmap)
        \/ first = NotFound /\ ClearBits(bitmap) = {}
    BY <2>1, FirstFreeIsClear, PmmAssumption DEF PmmInv, TypeOK, Frames
  <2>3. first # 0
    BY <2>2, ClearFramesAreUnheld DEF NotFound
  <2>4. HandOut({first} \cap Frames, {})
    BY <1>1, <2>3 DEF pmm_alloc_frame
  <2>5. ClearBits(bitmap) = FreeRuns(bitmap, 1)
    <3>1. \A i \in Frames : i .. i + 1 - 1 = {i}
      BY DEF Frames
    <3> QED
      BY <3>1 DEF ClearBits, FreeRuns, PmmInv, TypeOK
  <2>6. ASSUME first \in ClearBits(bitmap) PROVE Store!Allocate(1)
    <3>1. first \in Frames /\ first .. first + 1 - 1 = {first}
      BY <2>6, ClearFramesAreUnheld DEF Frames
    <3>2. {first} \cap Frames = first .. first + 1 - 1
      BY <3>1
    <3>3. first \in FreeRuns(bitmap, 1) /\ HandOut(first .. first + 1 - 1, {})
      BY <2>4, <2>5, <2>6, <3>2
    <3> HIDE DEF first
    <3> QED
      BY <3>3, HandOutAllocates
  <2>7. ASSUME first = NotFound, ClearBits(bitmap) = {} PROVE Store!Allocate(1)
    <3>1. {first} \cap Frames = {}
      BY <2>7 DEF NotFound, Frames
    <3>2. ret' = {} /\ held' = held
      BY <2>4, <3>1 DEF HandOut, PmmInv, TypeOK
    <3> QED
      BY <2>5, <2>7, <3>2, HandOutAllocates
  <2>8. Store!Allocate(1)
    BY <2>2, <2>6, <2>7
  <2> QED
    BY <2>8, PmmAssumption DEF Store!StoreNext
<1>2. ASSUME NEW count \in 2 .. MaxRun, pmm_alloc_frames(count) PROVE Store!StoreNext
  <2> DEFINE b == LastFreeRun(bitmap, count)
  <2>1. count \in Nat \ {0} /\ g_bitmap_bits \in Nat \ {0}
    BY PmmAssumption
  <2>2. bitmap \in [0 .. g_bitmap_bits - 1 -> {0, 1}]
    BY DEF PmmInv, TypeOK, Frames
  <2>3. \/ /\ b \in 0 .. g_bitmap_bits - count
           /\ \A k \in b .. b + count - 1 : k \in ClearBits(bitmap)
        \/ b = NotFound /\ FreeRuns(bitmap, count) = {}
    BY <2>1, <2>2, LastFreeRunIsClear
  <2>4. ASSUME b = NotFound, FreeRuns(bitmap, count) = {} PROVE Store!Allocate(count)
    BY <1>2, <2>1, <2>4, HandOutAllocates DEF pmm_alloc_frames
  <2>5. ASSUME b \in 0 .. g_bitmap_bits - count,
               \A k \in b .. b + count - 1 : k \in ClearBits(bitmap)
        PROVE  Store!Allocate(count)
    <3>1. b + count - 1 \in ClearBits(bitmap) /\ b \in ClearBits(bitmap)
      BY <2>1, <2>5
    <3>2. b + count - 1 <= g_highest_page
      BY <3>1, ClearFramesAreUnheld, PmmAssumption DEF Frames
    <3>3. HandOut(b .. b + count - 1, {})
      BY <1>2, <2>1, <2>5, <3>2 DEF pmm_alloc_frames, NotFound
    <3>4. b \in FreeRuns(bitmap, count)
      BY <2>5, <3>1 DEF FreeRuns, ClearBits
    <3> QED
      BY <2>1, <3>3, <3>4, HandOutAllocates
  <2>6. Store!Allocate(count)
    BY <2>3, <2>4, <2>5
  <2> QED
    BY <2>6 DEF Store!StoreNext
<1>3. ASSUME NEW f \in Pool, pmm_refcount_inc(f)
      PROVE  Store!StoreNext \/ UNCHANGED Store!storeVars
  <2>1. held[f] \in 1 .. RefMax /\ refcounts[f] = held[f]
    BY <1>3, PmmAssumption DEF pmm_refcount_inc, PmmInv, TypeOK, CountsAreReferences
  <2>2. CASE refcounts[f] = RefMax
    BY <1>3, <2>2 DEF pmm_refcount_inc, Store!storeVars
  <2>3. CASE refcounts[f] # RefMax
    <3>1. Store!Share(f)
      BY <1>3, <2>1, <2>3, PmmAssumption DEF pmm_refcount_inc, Store!Share
    <3> QED
      BY <3>1 DEF Store!StoreNext
  <2> QED
    BY <2>2, <2>3
<1>4. ASSUME NEW f \in Pool, pmm_refcount_dec(f) PROVE Store!StoreNext
  <2>1. Store!Release(f)
    BY <1>4 DEF pmm_refcount_dec, Store!Release
  <2> QED
    BY <2>1 DEF Store!StoreNext
<1> QED
  BY <1>1, <1>2, <1>3, <1>4 DEF Next

\* Every behaviour of the manager is one the rest of the kernel may rely on: no
\* frame is handed out twice, and an allocation fails only when no run is free.
THEOREM PmmImplementsFrameStore == Spec => ImplementsFrameStore
<1>1. Init => Store!StoreInit /\ PmmInv
  BY InitStore, InitPmmInv
<1>2. PmmInv /\ [Next]_vars => PmmInv'
  BY NextPmmInv
<1>3. PmmInv /\ [Next]_vars => [Store!StoreNext]_(Store!storeVars)
  BY NextStore
<1> QED
  BY <1>1, <1>2, <1>3, PTL DEF Spec, ImplementsFrameStore, Store!StoreSpec
=============================================================================
