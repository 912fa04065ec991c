---------------------------- MODULE PagingProofs ----------------------------
(***************************************************************************)
(* Frames, page tables and page replacement, for every number of frames    *)
(* and pages and every memory map: the counters, the scan for a run of     *)
(* free frames, boot and the owners of frames, the tables, and the LRU and *)
(* clock algorithms that choose the pages to swap out.                     *)
(***************************************************************************)
EXTENDS Vmm, PageSwapper, CollectionTheorems, TLAPS

\* Every non-empty set of naturals has a least element.
LEMMA MinFacts ==
    ASSUME NEW T \in SUBSET Nat, T # {}
    PROVE  Min(T) \in T /\ \A y \in T : Min(T) <= y
<1>1. \E m \in T : \A k \in T : m <= k
    BY SmallestNumber
<1>. QED BY <1>1, Zenon DEF Min

-----------------------------------------------------------------------------
(* The frame allocator: counters modulo 2^Width. *)
LEMMA WrapFacts ==
    ASSUME NEW n \in Int
    PROVE  /\ n >= 0 /\ n < 2^Width => Wrap(n) = n
           /\ n < 0 /\ n >= - 2^Width => Wrap(n) = n + 2^Width
           /\ n >= 2^Width /\ n < 2 * 2^Width => Wrap(n) = n - 2^Width
<1> DEFINE M == 2^Width
<1>1. M \in Nat /\ M > 0
    BY PhysicalAssumption
<1>2. Wrap(n) = n % M
    BY DEF Wrap
<1> HIDE DEF M
<1>3. n >= 0 /\ n < M => n % M = n
    BY <1>1
<1>4. n < 0 /\ n >= - M => n % M = n + M
    BY <1>1
<1>5. n >= M /\ n < 2 * M => n % M = n - M
    BY <1>1
<1>. QED BY <1>2, <1>3, <1>4, <1>5 DEF M

LEMMA FrameSets ==
    ASSUME NEW S \in SUBSET Frames
    PROVE  IsFiniteSet(S) /\ Cardinality(S) \in 0 .. TotalFrames
<1>1. TotalFrames \in Nat /\ TotalFrames - 1 \in Int
    BY PhysicalAssumption
<1>2. IsFiniteSet(Frames) /\ Cardinality(Frames) = TotalFrames
    BY <1>1, FS_Interval, PhysicalAssumption DEF Frames
<1>3. IsFiniteSet(S) /\ Cardinality(S) <= Cardinality(Frames)
    BY <1>2, FS_Subset
<1>4. Cardinality(S) \in Nat
    BY <1>3, FS_CardinalityType
<1>. QED BY <1>1, <1>2, <1>3, <1>4

\* The state of the bitmap and its counters
BitmapOK ==
    /\ free \subseteq Frames
    /\ free_frames \in 0..(2^Width - 1) /\ used_frames \in 0..(2^Width - 1)
    /\ CountersFollowBitmap

\* used_frames is what is missing from free_frames to a multiple of 2^Width.
LEMMA UsedFrames ==
    ASSUME NEW n \in 0 .. TotalFrames, NEW u \in 0..(2^Width - 1)
    PROVE  Wrap(n + u) = 0 <=> u = IF n = 0 THEN 0 ELSE 2^Width - n
<1>1. 2^Width \in Nat /\ TotalFrames \in Nat /\ TotalFrames < 2^Width
    BY PhysicalAssumption
<1> DEFINE M == 2^Width
<1> HIDE DEF M
<1>2. n + u \in Int /\ n \in Int /\ u \in Int
    BY <1>1 DEF M
<1>3. CASE n + u < M
    <2>1. Wrap(n + u) = n + u
        BY <1>1, <1>2, <1>3, WrapFacts DEF M
    <2>. QED BY <1>1, <1>3, <2>1 DEF M
<1>4. CASE n + u >= M
    <2>1. Wrap(n + u) = n + u - M
        BY <1>1, <1>2, <1>4, WrapFacts DEF M
    <2>. QED BY <1>1, <1>4, <2>1 DEF M
<1>. QED BY <1>1, <1>2, <1>3, <1>4 DEF M

\* The counters move with the bits, by d frames more or fewer.
LEMMA CountersMove ==
    ASSUME BitmapOK, NEW d \in Int, free' \subseteq Frames,
           Cardinality(free') = Cardinality(free) + d,
           free_frames' = Wrap(free_frames + d), used_frames' = Wrap(used_frames - d)
    PROVE  BitmapOK'
<1> DEFINE M == 2^Width
           n == Cardinality(free)
           m == Cardinality(free')
<1>1. M \in Nat /\ TotalFrames \in Nat /\ TotalFrames < M
    BY PhysicalAssumption
<1>2. n \in 0 .. TotalFrames /\ m \in 0 .. TotalFrames /\ m = n + d
    BY FrameSets DEF BitmapOK
<1>3. free_frames = n /\ used_frames \in 0 .. M - 1 /\ Wrap(n + used_frames) = 0
    BY DEF BitmapOK, CountersFollowBitmap
<1>4. used_frames = IF n = 0 THEN 0 ELSE M - n
    BY <1>2, <1>3, UsedFrames
<1>5. free_frames' = m
    <2>1. Wrap(m) = m
        BY <1>1, <1>2, WrapFacts
    <2>. QED BY <1>2, <1>3, <2>1
<1>6. used_frames' = IF m = 0 THEN 0 ELSE M - m
    <2>1. used_frames - d = (IF n = 0 THEN 0 ELSE M - n) - d /\ used_frames - d \in Int
        BY <1>1, <1>3, <1>4
    <2> HIDE DEF M, n, m
    <2>2. CASE n # 0 /\ m # 0
        <3>1. used_frames - d = M - m /\ M - m >= 0 /\ M - m < M
            BY <1>1, <1>2, <2>1, <2>2
        <3>2. Wrap(used_frames - d) = used_frames - d
            BY <2>1, <3>1, WrapFacts DEF M
        <3>. QED BY <2>2, <3>1, <3>2
    <2>3. CASE n # 0 /\ m = 0
        <3>1. used_frames - d = M /\ M >= M /\ M < 2 * M
            BY <1>1, <1>2, <2>1, <2>3
        <3>2. Wrap(used_frames - d) = 0
            BY <1>1, <2>1, <3>1, WrapFacts DEF M
        <3>. QED BY <2>3, <3>2
    <2>4. CASE n = 0 /\ m # 0
        <3>1. used_frames - d = - m /\ - m < 0 /\ - m >= - M
            BY <1>1, <1>2, <2>1, <2>4
        <3>2. Wrap(used_frames - d) = (used_frames - d) + M
            BY <2>1, <3>1, WrapFacts DEF M
        <3>. QED BY <1>1, <1>2, <2>4, <3>1, <3>2
    <2>5. CASE n = 0 /\ m = 0
        <3>1. used_frames - d = 0 /\ 0 < M
            BY <1>1, <1>2, <2>1, <2>5
        <3>2. Wrap(used_frames - d) = 0
            BY <2>1, <3>1, WrapFacts DEF M
        <3>. QED BY <2>5, <3>2
    <2>. QED BY <2>2, <2>3, <2>4, <2>5
<1> HIDE DEF M, n, m
<1>7. m \in 0 .. M - 1 /\ used_frames' \in 0 .. M - 1
    BY <1>1, <1>2, <1>6
<1>8. Wrap(m + used_frames') = 0
    BY <1>2, <1>6, <1>7, UsedFrames DEF M
<1>. QED BY <1>5, <1>7, <1>8 DEF BitmapOK, CountersFollowBitmap, M, m

LEMMA MarkedUsed ==
    ASSUME BitmapOK, NEW S, mark_frames_used(S)
    PROVE  BitmapOK' /\ free' = free \ S
<1> DEFINE d == Cardinality(S \cap free)
<1>1. IsFiniteSet(free) /\ Cardinality(free) \in Nat
    BY FrameSets DEF BitmapOK
<1>2. free \ S \subseteq Frames /\ S \cap free \subseteq Frames
    BY DEF BitmapOK
<1>3. d \in Nat /\ Cardinality(free \ S) \in Nat
    BY <1>2, FrameSets
<1>4. Cardinality(free \ S) = Cardinality(free) - Cardinality(free \cap S)
    BY <1>1, FS_Difference, Zenon
<1>5. free \cap S = S \cap free
    OBVIOUS
<1>6. /\ free' = free \ S /\ free_frames' = Wrap(free_frames - d)
      /\ used_frames' = Wrap(used_frames + d)
    BY DEF mark_frames_used
<1> HIDE DEF d
<1>7. free_frames \in Int /\ used_frames \in Int
    BY PhysicalAssumption DEF BitmapOK
<1>8. free_frames - d = free_frames + (- d) /\ used_frames + d = used_frames - (- d) /\ - d \in Int
    BY <1>3, <1>7
<1>9. Cardinality(free') = Cardinality(free) + (- d)
    BY <1>1, <1>3, <1>4, <1>5, <1>6 DEF d
<1>10. BitmapOK'
    BY <1>2, <1>6, <1>8, <1>9, CountersMove, Zenon
<1>. QED BY <1>6, <1>10

LEMMA MarkedFree ==
    ASSUME BitmapOK, NEW S, mark_frames_free(S)
    PROVE  BitmapOK' /\ free' = free \cup (S \cap Frames)
<1> DEFINE F == (S \cap Frames) \ free
           d == Cardinality(F)
<1>1. IsFiniteSet(free) /\ IsFiniteSet(F) /\ Cardinality(free) \in Nat /\ d \in Nat
    BY FrameSets DEF BitmapOK
<1>2. /\ free' = free \cup F /\ free_frames' = Wrap(free_frames + d)
      /\ used_frames' = Wrap(used_frames - d)
    BY DEF mark_frames_free
<1>3. free \cup F \subseteq Frames /\ free \cup F = free \cup (S \cap Frames) /\ free \cap F = {}
    BY DEF BitmapOK
<1>4. Cardinality(free \cup F) = Cardinality(free) + d
    <2>1. Cardinality(free \cup F) = Cardinality(free) + d - Cardinality(free \cap F)
        BY <1>1, FS_Union
    <2>2. Cardinality(free \cap F) = 0
        BY <1>3, FS_EmptySet
    <2>. QED BY <1>1, <2>1, <2>2
<1> HIDE DEF F, d
<1>5. d \in Int /\ free' \subseteq Frames /\ Cardinality(free') = Cardinality(free) + d
    BY <1>1, <1>2, <1>3, <1>4
<1>6. BitmapOK'
    BY <1>2, <1>5, CountersMove
<1>. QED BY <1>2, <1>3, <1>6

-----------------------------------------------------------------------------
(* Runs of free frames: the scan of allocate_frames. *)
RunRecursion(r) ==
    r = [f \in Frames |-> IF ~ is_frame_free(f) THEN 0 ELSE IF f = 0 THEN 1 ELSE r[f - 1] + 1]

\* the number of free frames in a row up to f, without the recursion
IsRun(f, k) == k \in 0 .. f + 1 /\ (\A i \in (f - k + 1) .. f : i \in free) /\ (k <= f => f - k \notin free)

LEMMA RunExists ==
    ASSUME NEW f \in Frames
    PROVE  \E k \in 0 .. f + 1 : IsRun(f, k)
<1> DEFINE T == {k \in 0 .. f + 1 : k = f + 1 \/ f - k \notin free}
<1>1. f \in Nat
    BY PhysicalAssumption DEF Frames
<1>2. T \in SUBSET Nat /\ f + 1 \in T
    BY <1>1
<1>3. PICK k \in T : \A j \in T : k <= j
    BY <1>2, SmallestNumber, Zenon
<1>4. ASSUME NEW i \in (f - k + 1) .. f PROVE i \in free
    <2>1. f - i \in 0 .. f + 1 /\ f - i < k /\ f - (f - i) = i /\ f - i # f + 1
        BY <1>1, <1>2, <1>3
    <2>2. f - i \notin T
        <3>1. k \in Nat /\ f - i \in Int
            BY <1>2, <1>3, <2>1
        <3> HIDE DEF T
        <3>. QED BY <1>3, <2>1, <3>1
    <2>. QED BY <2>1, <2>2
<1>5. IsRun(f, k)
    BY <1>1, <1>3, <1>4 DEF IsRun
<1>. QED BY <1>1, <1>3, <1>5

LEMMA RunUnique ==
    ASSUME NEW f \in Nat, NEW j, NEW k, IsRun(f, j), IsRun(f, k)
    PROVE  j = k
<1>1. j \in 0 .. f + 1 /\ k \in 0 .. f + 1
    BY DEF IsRun
<1>2. ASSUME NEW a \in 0 .. f + 1, NEW b \in 0 .. f + 1, a < b, IsRun(f, a), IsRun(f, b) PROVE FALSE
    <2>1. a <= f /\ f - a \in (f - b + 1) .. f
        BY <1>2
    <2>. QED BY <1>2, <2>1 DEF IsRun
<1>3. ~ (j < k) /\ ~ (k < j)
    BY <1>1, <1>2
<1>. QED BY <1>1, <1>3

LEMMA RunStep ==
    ASSUME NEW f \in Frames
    PROVE  /\ f \notin free => IsRun(f, 0)
           /\ f \in free /\ f = 0 => IsRun(f, 1)
           /\ \A k : f \in free /\ f # 0 /\ IsRun(f - 1, k) => IsRun(f, k + 1)
<1>1. f \in Nat
    BY PhysicalAssumption DEF Frames
<1>2. f \notin free => IsRun(f, 0)
    BY <1>1 DEF IsRun
<1>3. f \in free /\ f = 0 => IsRun(f, 1)
    BY <1>1 DEF IsRun
<1>4. ASSUME NEW k, f \in free, f # 0, IsRun(f - 1, k) PROVE IsRun(f, k + 1)
    <2>1. k \in 0 .. f /\ (\A i \in (f - k) .. (f - 1) : i \in free) /\ (k <= f - 1 => f - 1 - k \notin free)
        <3>1. (f - 1) + 1 = f /\ (f - 1) - k + 1 = f - k
            BY <1>1, <1>4 DEF IsRun
        <3>. QED BY <1>4, <3>1 DEF IsRun
    <2>2. k + 1 \in 0 .. f + 1 /\ f - (k + 1) + 1 = f - k /\ f - (k + 1) = f - 1 - k
        BY <1>1, <2>1
    <2>3. \A i \in (f - k) .. f : i \in (f - k) .. (f - 1) \/ i = f
        BY <1>1, <2>1
    <2>4. k + 1 <= f => k <= f - 1
        BY <1>1, <2>1
    <2>. QED BY <1>4, <2>1, <2>2, <2>3, <2>4 DEF IsRun
<1>. QED BY <1>2, <1>3, <1>4

\* The recursion of RunEndingAt counts the free frames in a row, whatever the bitmap.
LEMMA RunEndingAtFacts ==
    \A f \in Frames : IsRun(f, RunEndingAt[f])
<1>1. \A f \in Frames : f \in Nat /\ (f # 0 => f - 1 \in Frames)
    BY PhysicalAssumption DEF Frames
<1> DEFINE r == [f \in Frames |-> CHOOSE k \in 0 .. f + 1 : IsRun(f, k)]
<1>2. \A f \in Frames : IsRun(f, r[f])
    BY RunExists
<1>3. RunRecursion(r)
    <2>1. ASSUME NEW f \in Frames
          PROVE  r[f] = IF ~ is_frame_free(f) THEN 0 ELSE IF f = 0 THEN 1 ELSE r[f - 1] + 1
        <3> HIDE DEF r
        <3>1. CASE f \notin free
            BY <1>1, <1>2, <3>1, RunStep, RunUnique DEF is_frame_free
        <3>2. CASE f \in free /\ f = 0
            BY <1>1, <1>2, <3>2, RunStep, RunUnique DEF is_frame_free
        <3>3. CASE f \in free /\ f # 0
            <4>1. IsRun(f, r[f - 1] + 1)
                BY <1>1, <1>2, <3>3, RunStep
            <4>. QED BY <1>1, <1>2, <3>3, <4>1, RunUnique DEF is_frame_free
        <3>. QED BY <3>1, <3>2, <3>3
    <2>2. r = [f \in Frames |-> r[f]]
        OBVIOUS
    <2> HIDE DEF r
    <2>. QED BY <2>1, <2>2 DEF RunRecursion
<1> HIDE DEF r
<1>4. RunRecursion(RunEndingAt)
    <2>1. RunEndingAt = CHOOSE q : RunRecursion(q)
        BY Zenon DEF RunEndingAt, RunRecursion
    <2>. QED BY <1>3, <2>1, Zenon
<1> DEFINE R == RunEndingAt
           Bad == {f \in Frames : ~ IsRun(f, R[f])}
<1>5. \A f \in Frames : R[f] = IF ~ is_frame_free(f) THEN 0 ELSE IF f = 0 THEN 1 ELSE R[f - 1] + 1
    <2> HIDE DEF R
    <2>1. RunRecursion(R)
        BY <1>4 DEF R
    <2>. QED BY <2>1, Zenon DEF RunRecursion
<1> HIDE DEF R
<1>6. SUFFICES ASSUME Bad # {} PROVE FALSE
    BY DEF R
<1>7. Bad \in SUBSET Nat
    BY <1>1
<1>8. PICK f \in Bad : \A g \in Bad : f <= g
    BY <1>6, <1>7, SmallestNumber, Zenon
<1>9. f \in Frames /\ f \in Nat /\ ~ IsRun(f, R[f])
    BY <1>1, <1>8
<1>10. CASE f \notin free \/ f = 0
    BY <1>5, <1>9, <1>10, RunStep DEF is_frame_free
<1>11. CASE f \in free /\ f # 0
    <2>1. f - 1 \in Frames /\ f - 1 \notin Bad
        BY <1>1, <1>7, <1>8, <1>9, <1>11
    <2>2. IsRun(f - 1, R[f - 1]) /\ R[f] = R[f - 1] + 1
        BY <1>5, <1>9, <1>11, <2>1 DEF is_frame_free
    <2>. QED BY <1>9, <1>11, <2>2, RunStep
<1>. QED BY <1>10, <1>11

LEMMA RunsFoundFacts ==
    ASSUME free \subseteq Frames, NEW count \in 2 .. TotalFrames
    PROVE  \A s : s \in RunsFound(count) <=>
               /\ s \in Frames /\ s + count <= TotalFrames /\ s..(s + count - 1) \subseteq free
               /\ s # 0 => s - 1 \notin free
<1>1. TotalFrames \in Nat /\ count \in Nat /\ count >= 2 /\ \A f : f \in Frames <=> f \in 0 .. TotalFrames - 1
    BY PhysicalAssumption DEF Frames
<1>2. ASSUME NEW s, s \in RunsFound(count)
      PROVE  /\ s \in Frames /\ s + count <= TotalFrames /\ s..(s + count - 1) \subseteq free
             /\ s # 0 => s - 1 \notin free
    <2>1. PICK f \in Frames : RunEndingAt[f] = count /\ s = f - count + 1
        BY <1>2 DEF RunsFound
    <2>2. f \in Nat /\ f <= TotalFrames - 1 /\ IsRun(f, count)
        BY <1>1, <2>1, RunEndingAtFacts
    <2>3. count <= f + 1 /\ s + count - 1 = f /\ s \in 0 .. f /\ s + count <= TotalFrames
          /\ s - 1 = f - count
        BY <1>1, <2>1, <2>2 DEF IsRun
    <2>4. s..(s + count - 1) \subseteq free
        BY <2>1, <2>2, <2>3 DEF IsRun
    <2>5. s # 0 => s - 1 \notin free
        <3>1. s # 0 => count <= f
            BY <1>1, <2>1, <2>2, <2>3
        <3>. QED BY <2>2, <2>3, <3>1 DEF IsRun
    <2>. QED BY <1>1, <2>2, <2>3, <2>4, <2>5
<1>3. ASSUME NEW s \in Frames, s + count <= TotalFrames, s..(s + count - 1) \subseteq free,
             s # 0 => s - 1 \notin free
      PROVE  s \in RunsFound(count)
    <2> DEFINE f == s + count - 1
    <2>1. s \in Nat /\ f \in Frames /\ f \in Nat /\ s = f - count + 1 /\ f - count = s - 1
          /\ count <= f + 1 /\ (count <= f <=> s # 0)
        BY <1>1, <1>3
    <2>2. IsRun(f, count)
        BY <1>1, <1>3, <2>1 DEF IsRun
    <2> HIDE DEF f
    <2>3. RunEndingAt[f] = count
        BY <2>1, <2>2, RunEndingAtFacts, RunUnique
    <2>. QED BY <2>1, <2>3 DEF RunsFound
<1>. QED BY <1>2, <1>3

LEMMA FirstFit ==
    ASSUME free \subseteq Frames
    PROVE  FirstFitIsExact
<1> SUFFICES ASSUME NEW count \in 2 .. TotalFrames
             PROVE  LET runs == {s \in Frames : s + count <= TotalFrames /\ s..(s + count - 1) \subseteq free}
                    IN  /\ (runs = {}) = (RunsFound(count) = {})
                        /\ runs # {} => Min(RunsFound(count)) = Min(runs)
    BY Zenon DEF FirstFitIsExact
<1> DEFINE runs == {s \in Frames : s + count <= TotalFrames /\ s..(s + count - 1) \subseteq free}
           found == RunsFound(count)
<1>1. found \subseteq runs
    BY RunsFoundFacts
<1>2. runs \in SUBSET Nat /\ count \in Nat /\ count >= 2 /\ TotalFrames \in Nat
    BY PhysicalAssumption DEF Frames
<1>3. ASSUME runs # {} PROVE Min(runs) \in found
    <2> DEFINE s == Min(runs)
    <2>1. s \in runs /\ \A t \in runs : s <= t
        BY <1>2, <1>3, MinFacts
    <2>2. s \in Frames /\ s \in Nat /\ s + count <= TotalFrames /\ s..(s + count - 1) \subseteq free
        BY <1>2, <2>1
    <2>3. ASSUME s # 0, s - 1 \in free PROVE FALSE
        <3> HIDE DEF s
        <3>1. s - 1 \in Frames /\ (s - 1) + count <= TotalFrames
            BY <1>2, <2>2, <2>3
        <3>2. \A i \in (s - 1)..((s - 1) + count - 1) : i = s - 1 \/ i \in s..(s + count - 1)
            BY <1>2, <2>2, <2>3
        <3>3. s - 1 \in runs
            BY <2>2, <2>3, <3>1, <3>2
        <3> HIDE DEF runs
        <3>. QED BY <2>1, <2>2, <3>3
    <2> HIDE DEF s
    <2>4. s \in RunsFound(count)
        BY <2>2, <2>3, RunsFoundFacts
    <2>. QED BY <2>4 DEF s
<1> HIDE DEF runs, found
<1>4. (runs = {}) = (found = {})
    BY <1>1, <1>3
<1>5. ASSUME runs # {} PROVE Min(found) = Min(runs)
    <2>1. found \in SUBSET Nat /\ found # {}
        BY <1>1, <1>2, <1>3, <1>5
    <2>2. Min(found) \in found /\ \A t \in found : Min(found) <= t
        BY <2>1, MinFacts
    <2>3. Min(runs) \in runs /\ \A t \in runs : Min(runs) <= t
        BY <1>2, <1>5, MinFacts
    <2>4. Min(found) <= Min(runs) /\ Min(runs) <= Min(found)
        BY <1>1, <1>3, <1>5, <2>2, <2>3
    <2>5. Min(found) \in Nat /\ Min(runs) \in Nat
        BY <1>2, <2>1, <2>2, <2>3, Zenon
    <2>. QED BY <2>4, <2>5
<1>. QED BY <1>4, <1>5 DEF runs, found

-----------------------------------------------------------------------------
(* Boot, and the owners of frames. *)
Parsed(i, f) == i < area \/ (i = area /\ f < frame)

\* what parse_memory_map has made free so far
UsableSoFar ==
    {f \in Frames \ Reserved :
        \E i \in 1..Len(MemoryMap) :
            MemoryMap[i].available /\ f \in MemoryMap[i].first..MemoryMap[i].last /\ Parsed(i, f)}

FramesInv ==
    /\ BitmapOK /\ reserved_frames \in Nat
    /\ area \in 1..(Len(MemoryMap) + 1) /\ frame \in Nat
    /\ owned \subseteq Frames /\ free \cap owned = {}
    /\ Booted => free \cup owned = Usable
    /\ ~ Booted => owned = {} /\ free = UsableSoFar /\ frame >= MemoryMap[area].first

LEMMA FramesInvConserves == FramesInv => FramesConserved /\ FirstFitIsExact
<1>1. FramesInv => FramesConserved
    BY DEF FramesInv, FramesConserved, BitmapOK, TypeOK
<1>. QED BY <1>1, FirstFit DEF FramesInv, BitmapOK

LEMMA Areas ==
    /\ Len(MemoryMap) \in Nat
    /\ \A i \in 1..Len(MemoryMap) :
        MemoryMap[i].first \in Nat /\ MemoryMap[i].last \in Nat /\ MemoryMap[i].available \in BOOLEAN
<1> DEFINE A == [first : Nat, last : Nat, available : BOOLEAN]
<1>0. MemoryMap \in Seq(A)
    BY PhysicalAssumption
<1> HIDE DEF A
<1>1. Len(MemoryMap) \in Nat /\ \A i \in 1..Len(MemoryMap) : MemoryMap[i] \in A
    BY <1>0
<1> USE DEF A
<1>. QED BY <1>1

LEMMA FramesInit == Init => FramesInv
<1> SUFFICES ASSUME Init PROVE FramesInv
    OBVIOUS
<1>1. free = {} /\ free_frames = 0 /\ used_frames = 0 /\ reserved_frames = 0 /\ area = 1 /\ owned = {}
      /\ frame = IF MemoryMap = << >> THEN 0 ELSE MemoryMap[1].first
    BY DEF Init
<1>2. 2^Width \in Nat /\ 2^Width > 0
    BY PhysicalAssumption
<1>3. BitmapOK
    <2>1. Cardinality({}) = 0
        BY FS_EmptySet
    <2>2. Wrap(0) = 0
        BY <1>2, WrapFacts
    <2>. QED BY <1>1, <1>2, <2>1, <2>2 DEF BitmapOK, CountersFollowBitmap
<1>4. MemoryMap # << >> <=> Len(MemoryMap) > 0
    BY PhysicalAssumption
<1>5. CASE Len(MemoryMap) = 0
    <2>1. MemoryMap = << >> /\ Booted
        BY <1>1, <1>4, <1>5 DEF Booted
    <2>2. Usable = {}
        BY <1>5 DEF Usable
    <2>. QED BY <1>1, <1>3, <1>5, <2>1, <2>2 DEF FramesInv
<1>6. CASE Len(MemoryMap) > 0
    <2>1. ~ Booted /\ frame = MemoryMap[1].first /\ frame \in Nat
        BY <1>1, <1>4, <1>6, Areas DEF Booted
    <2>2. UsableSoFar = {}
        BY <1>1, <2>1, Areas DEF UsableSoFar, Parsed
    <2>. QED BY <1>1, <1>3, <1>6, <2>1, <2>2, Areas DEF FramesInv
<1>. QED BY <1>5, <1>6, Areas

LEMMA ParseStep == FramesInv /\ parse_memory_map => FramesInv'
<1> SUFFICES ASSUME FramesInv, parse_memory_map PROVE FramesInv'
    OBVIOUS
<1> DEFINE a == MemoryMap[area]
           In(i, f) == MemoryMap[i].available /\ f \in MemoryMap[i].first..MemoryMap[i].last
<1>1. /\ ~ Booted /\ area \in 1..Len(MemoryMap) /\ area \in Nat /\ frame \in Nat
      /\ owned = {} /\ free = UsableSoFar /\ frame >= a.first /\ owned' = {}
      /\ a.first \in Nat /\ a.last \in Nat /\ a.available \in BOOLEAN
    BY Areas DEF FramesInv, Booted, parse_memory_map
<1>2. \A f : f \in UsableSoFar <=>
            f \in Frames \ Reserved /\ \E i \in 1..Len(MemoryMap) : In(i, f) /\ Parsed(i, f)
    BY DEF UsableSoFar
<1>3. \A f : f \in UsableSoFar' <=>
            f \in Frames \ Reserved /\ \E i \in 1..Len(MemoryMap) : In(i, f) /\ Parsed(i, f)'
    BY DEF UsableSoFar
<1>4. \A f : f \in Usable <=> f \in Frames \ Reserved /\ \E i \in 1..Len(MemoryMap) : In(i, f)
    BY DEF Usable
<1>5. ASSUME NEW i \in 1..Len(MemoryMap), NEW f, In(i, f) PROVE f \in Nat /\ f <= MemoryMap[i].last
    BY <1>5, Areas
<1>6. CASE frame > a.last
    <2>1. /\ area' = area + 1 /\ UNCHANGED <<free, free_frames, used_frames, reserved_frames>>
          /\ frame' = IF area < Len(MemoryMap) THEN MemoryMap[area + 1].first ELSE 0
        BY <1>1, <1>6 DEF parse_memory_map
    <2>2. frame' \in Nat /\ area' \in 1..(Len(MemoryMap) + 1)
        BY <1>1, <2>1, Areas
    <2>3. \A i \in 1..Len(MemoryMap) : \A f : In(i, f) => (Parsed(i, f)' <=> Parsed(i, f))
        <3> SUFFICES ASSUME NEW i \in 1..Len(MemoryMap), NEW f, In(i, f)
                     PROVE  Parsed(i, f)' <=> Parsed(i, f)
            OBVIOUS
        <3>1. f \in Nat /\ f <= MemoryMap[i].last /\ f >= MemoryMap[i].first
            BY <1>5, Areas
        <3> HIDE DEF In
        <3>2. CASE i < area
            BY <1>1, <2>1, <3>2 DEF Parsed
        <3>3. CASE i = area
            BY <1>1, <1>6, <2>1, <3>1, <3>3 DEF Parsed
        <3>4. CASE i > area
            <4>1. ~ Parsed(i, f)
                BY <1>1, <3>4 DEF Parsed
            <4>2. CASE i = area + 1
                <5>1. frame' = MemoryMap[i].first
                    BY <1>1, <2>1, <4>2
                <5>. QED BY <1>1, <2>1, <3>1, <4>1, <4>2, <5>1, Areas DEF Parsed
            <4>3. CASE i # area + 1
                BY <1>1, <2>1, <3>4, <4>1, <4>3 DEF Parsed
            <4>. QED BY <4>2, <4>3
        <3>. QED BY <1>1, <3>2, <3>3, <3>4
    <2> HIDE DEF In
    <2>4. UsableSoFar' = free
        BY <1>1, <1>2, <1>3, <2>3, Zenon
    <2>5. BitmapOK' /\ reserved_frames' \in Nat
        BY <2>1 DEF FramesInv, BitmapOK, CountersFollowBitmap
    <2>6. Booted' => free' \cup owned' = Usable
        <3>1. SUFFICES ASSUME Booted' PROVE UsableSoFar' = Usable
            BY <1>1, <2>1, <2>4
        <3>2. \A i \in 1..Len(MemoryMap) : \A f : Parsed(i, f)'
            BY <1>1, <2>1, <3>1, Areas DEF Booted, Parsed
        <3>. QED BY <1>3, <1>4, <3>2, Zenon
    <2>7. ~ Booted' => frame' >= MemoryMap[area'].first
        BY <1>1, <2>1, Areas DEF Booted
    <2>8. owned' \subseteq Frames /\ free' \cap owned' = {}
        BY <1>1
    <2>. QED BY <1>1, <2>1, <2>2, <2>4, <2>5, <2>6, <2>7, <2>8 DEF FramesInv
<1>7. CASE frame <= a.last
    <2>1. area' = area /\ frame' = frame + 1 /\ ~ Booted'
        BY <1>1, <1>7 DEF parse_memory_map, Booted
    <2>2. \A i \in 1..Len(MemoryMap) : \A f : In(i, f) =>
            (Parsed(i, f)' <=> Parsed(i, f) \/ (i = area /\ f = frame))
        <3> SUFFICES ASSUME NEW i \in 1..Len(MemoryMap), NEW f, In(i, f)
                     PROVE  Parsed(i, f)' <=> Parsed(i, f) \/ (i = area /\ f = frame)
            OBVIOUS
        <3>1. f \in Nat
            BY <1>5
        <3>. QED BY <1>1, <2>1, <3>1 DEF Parsed
    <2>3. In(area, frame) <=> a.available
        BY <1>1, <1>7
    <2> HIDE DEF In
    <2>4. \A f : f \in UsableSoFar' <=>
            f \in free \/ (f = frame /\ a.available /\ frame \in Frames \ Reserved)
        BY <1>1, <1>2, <1>3, <2>2, <2>3
    <2>5. ASSUME UNCHANGED <<free, free_frames, used_frames>>, reserved_frames' \in Nat,
                 ~ (a.available /\ frame \in Frames \ Reserved)
          PROVE  FramesInv'
        <3>1. BitmapOK'
            BY <2>5 DEF FramesInv, BitmapOK, CountersFollowBitmap
        <3>2. free' = UsableSoFar'
            BY <2>4, <2>5
        <3>3. area' \in 1..(Len(MemoryMap) + 1) /\ frame' \in Nat /\ frame' >= MemoryMap[area'].first
            BY <1>1, <2>1, Areas
        <3>. QED BY <1>1, <2>1, <2>5, <3>1, <3>2, <3>3 DEF FramesInv
    <2>6. reserved_frames \in Nat /\ BitmapOK
        BY DEF FramesInv
    <2>7. CASE a.available /\ Skipped(frame)
        <3>1. reserved_frames' = reserved_frames + 1 /\ UNCHANGED <<free, free_frames, used_frames>>
            BY <1>1, <1>7, <2>7 DEF parse_memory_map
        <3>. QED BY <2>5, <2>6, <2>7, <3>1 DEF Skipped
    <2>8. CASE ~ a.available
        <3>1. reserved_frames' = reserved_frames + (IF frame \in Frames THEN 1 ELSE 0)
              /\ UNCHANGED <<free, free_frames, used_frames>>
            BY <1>1, <1>7, <2>8 DEF parse_memory_map
        <3>. QED BY <2>5, <2>6, <2>8, <3>1
    <2>9. CASE a.available /\ ~ Skipped(frame)
        <3>1. mark_frames_free({frame}) /\ UNCHANGED reserved_frames
            BY <1>1, <1>7, <2>9 DEF parse_memory_map
        <3>2. BitmapOK' /\ free' = free \cup ({frame} \cap Frames)
            BY <2>6, <3>1, MarkedFree
        <3>3. free' = UsableSoFar'
            BY <2>4, <2>9, <3>2 DEF Skipped
        <3>4. area' \in 1..(Len(MemoryMap) + 1) /\ frame' \in Nat /\ frame' >= MemoryMap[area'].first
            BY <1>1, <2>1, Areas
        <3>. QED BY <1>1, <2>1, <2>6, <3>1, <3>2, <3>3, <3>4 DEF FramesInv
    <2>. QED BY <1>1, <2>7, <2>8, <2>9
<1>. QED BY <1>1, <1>6, <1>7

\* Frames that are free go to a caller.
LEMMA Handed ==
    ASSUME FramesInv, Booted, NEW S, S \subseteq free, mark_frames_used(S), owned' = owned \cup S,
           UNCHANGED <<reserved_frames, area, frame>>
    PROVE  FramesInv' /\ free' = free \ S
<1>1. BitmapOK' /\ free' = free \ S
    BY MarkedUsed DEF FramesInv
<1>2. Booted' /\ free \subseteq Frames
    BY DEF Booted, FramesInv, BitmapOK
<1>3. free' \cup owned' = free \cup owned /\ free' \cap owned' = {} /\ owned' \subseteq Frames
    BY <1>1, <1>2 DEF FramesInv
<1>. QED BY <1>1, <1>2, <1>3 DEF FramesInv

LEMMA AllocateStep ==
    ASSUME FramesInv, allocate_frame
    PROVE  FramesInv' /\ Min(free) \in free /\ owned' = owned \cup {Min(free)} /\ free' = free \ {Min(free)}
<1>1. free \in SUBSET Nat /\ free # {}
    BY PhysicalAssumption DEF FramesInv, BitmapOK, Frames, allocate_frame
<1>2. Min(free) \in free
    BY <1>1, MinFacts
<1> DEFINE S == {Min(free)}
<1>3. /\ Booted /\ S \subseteq free /\ mark_frames_used(S) /\ owned' = owned \cup S
      /\ UNCHANGED <<reserved_frames, area, frame>>
    BY <1>2 DEF allocate_frame
<1> HIDE DEF S
<1>4. FramesInv' /\ free' = free \ S
    BY <1>3, Handed
<1>. QED BY <1>2, <1>3, <1>4 DEF S

LEMMA AllocateRunStep ==
    ASSUME FramesInv, NEW count \in 2 .. TotalFrames, allocate_frames(count)
    PROVE  FramesInv'
<1> DEFINE start == Min(RunsFound(count))
           S == start..(start + count - 1)
<1>1. /\ Booted /\ RunsFound(count) # {} /\ mark_frames_used(S) /\ owned' = owned \cup S
      /\ UNCHANGED <<reserved_frames, area, frame>>
    BY DEF allocate_frames
<1>2. free \subseteq Frames
    BY DEF FramesInv, BitmapOK
<1>3. RunsFound(count) \in SUBSET Nat
    BY <1>2, RunsFoundFacts, PhysicalAssumption DEF Frames
<1>4. start \in RunsFound(count)
    BY <1>1, <1>3, MinFacts
<1>5. S \subseteq free
    BY <1>2, <1>4, RunsFoundFacts
<1> HIDE DEF S
<1>. QED BY <1>1, <1>5, Handed

LEMMA DeallocateStep ==
    ASSUME FramesInv, NEW start, NEW count, deallocate_frames(start, count)
    PROVE  FramesInv' /\ owned' = owned \ start..(start + count - 1)
<1> DEFINE S == start..(start + count - 1)
<1>1. /\ Booted /\ S \cap Frames \subseteq owned \cup free /\ mark_frames_free(S)
      /\ owned' = owned \ S /\ UNCHANGED <<reserved_frames, area, frame>>
    BY DEF deallocate_frames
<1> HIDE DEF S
<1>2. BitmapOK' /\ free' = free \cup (S \cap Frames)
    BY <1>1, MarkedFree DEF FramesInv
<1>3. Booted'
    BY <1>1 DEF Booted
<1>4. owned \subseteq Frames /\ free \cap owned = {} /\ free \cup owned = Usable
    BY <1>1 DEF FramesInv
<1>5. free' \cup owned' = free \cup owned /\ free' \cap owned' = {} /\ owned' \subseteq Frames
    BY <1>1, <1>2, <1>4
<1>. QED BY <1>1, <1>2, <1>3, <1>4, <1>5 DEF FramesInv, S

LEMMA FramesNext == FramesInv /\ [Next]_vars => FramesInv'
<1> SUFFICES ASSUME FramesInv, [Next]_vars PROVE FramesInv'
    OBVIOUS
<1>1. CASE UNCHANGED vars
    BY <1>1 DEF vars, FramesInv, BitmapOK, CountersFollowBitmap, Booted, UsableSoFar, Parsed
<1>2. CASE parse_memory_map
    BY <1>2, ParseStep
<1>3. CASE allocate_frame
    BY <1>3, AllocateStep
<1>4. CASE \E count \in 2..TotalFrames : allocate_frames(count)
    BY <1>4, AllocateRunStep
<1>5. CASE \E start \in 0..TotalFrames, count \in 1..TotalFrames : deallocate_frames(start, count)
    BY <1>5, DeallocateStep
<1>. QED BY <1>1, <1>2, <1>3, <1>4, <1>5 DEF Next

\* From the all-ones bitmap through every step of boot, allocation, deallocation and double
\* free, for every memory map: no frame is free and owned, none is lost, and the counters,
\* which wrap, are exact.
THEOREM NoFrameIsLost == Spec => []FramesConserved
<1>1. FramesInv => FramesConserved
    BY FramesInvConserves
<1>. QED BY <1>1, FramesInit, FramesNext, PTL DEF Spec

\* In every state the scan of allocate_frames finds the first run that is long enough, and
\* finds none only when there is none: what the recursion over the bitmap computes.
THEOREM ScanFindsFirstRun == Spec => []FirstFitIsExact
<1>1. FramesInv => FirstFitIsExact
    BY FramesInvConserves
<1>. QED BY <1>1, FramesInit, FramesNext, PTL DEF Spec

-----------------------------------------------------------------------------
(* Page tables.  Those of other users of the allocator who return a frame leave the frames of
   tables alone; a table that is made takes a frame nobody owns. *)
TablesInv == FramesInv /\ PageTablesSound

LEMMA NewTable ==
    ASSUME TablesInv, CreateTable
    PROVE  TablesInv'
<1> DEFINE page == op[2]
           path == Path(page)[Min(Missing(page))]
           t == [path |-> path, frame |-> Min(free)]
<1>1. /\ allocate_frame /\ Missing(page) # {} /\ tables' = tables \cup {t} /\ mapped' = mapped
    BY DEF CreateTable
<1>2. FramesInv /\ PageTablesSound
    BY DEF TablesInv
<1>3. /\ FramesInv' /\ Min(free) \in free /\ owned' = owned \cup {Min(free)}
      /\ free' = free \ {Min(free)}
    BY <1>1, <1>2, AllocateStep
<1>4. path \notin Present
    <2>1. Missing(page) \in SUBSET Nat
        BY DEF Missing, Path
    <2>2. Min(Missing(page)) \in Missing(page)
        BY <1>1, <2>1, MinFacts
    <2>. QED BY <2>2 DEF Missing
<1> HIDE DEF path, page
<1>5. t.path = path /\ t.frame = Min(free)
    OBVIOUS
<1> HIDE DEF t
<1>6. \A s \in tables : s.path # path /\ s.frame \in owned /\ s.frame \notin free
    BY <1>2, <1>4 DEF Present, PageTablesSound, TableFrames
<1>7. \A s, u \in tables' : s.path = u.path \/ s.frame = u.frame => s = u
    BY <1>1, <1>2, <1>3, <1>5, <1>6 DEF PageTablesSound
<1>8. TableFrames' \subseteq owned' /\ TableFrames' \cap free' = {}
    BY <1>1, <1>3, <1>5, <1>6 DEF TableFrames
<1>9. \A p \in mapped' : Missing(p)' = {}
    <2>1. Present \subseteq Present'
        BY <1>1 DEF Present
    <2>. QED BY <1>1, <1>2, <2>1 DEF PageTablesSound, Missing
<1>. QED BY <1>3, <1>7, <1>8, <1>9 DEF TablesInv, PageTablesSound

\* Steps of the allocator that take no frame of a table away
LEMMA TablesKept ==
    ASSUME TablesInv, FramesInv', tables' = tables, mapped' = mapped, TableFrames \subseteq owned'
    PROVE  TablesInv'
<1>1. TableFrames' = TableFrames /\ \A p : Missing(p)' = Missing(p)
    BY DEF TableFrames, Missing, Present
<1>2. owned' \cap free' = {}
    BY DEF FramesInv
<1>. QED BY <1>1, <1>2 DEF TablesInv, PageTablesSound

LEMMA VmmStep == TablesInv /\ [VmmNext]_<<vars, vmmVars>> => TablesInv'
<1> SUFFICES ASSUME TablesInv, [VmmNext]_<<vars, vmmVars>> PROVE TablesInv'
    OBVIOUS
<1>1. FramesInv /\ PageTablesSound /\ TableFrames \subseteq owned
    BY DEF TablesInv, PageTablesSound
<1>2. UNCHANGED vars => FramesInv' /\ owned' = owned
    BY <1>1, FramesNext DEF vars
<1>3. CASE UNCHANGED <<vars, tables, mapped>>
    BY <1>1, <1>2, <1>3, TablesKept
<1>4. CASE map_page \/ unmap_page
    <2>1. UNCHANGED <<vars, tables>>
        BY <1>4 DEF map_page, unmap_page
    <2>2. \A p \in mapped' : Missing(p) = {}
        BY <1>1, <1>4 DEF map_page, unmap_page, PageTablesSound
    <2>3. TableFrames' = TableFrames /\ \A p : Missing(p)' = Missing(p)
        BY <2>1 DEF TableFrames, Missing, Present
    <2>4. free' = free /\ owned' = owned
        BY <2>1 DEF vars
    <2>. QED BY <1>1, <1>2, <2>1, <2>2, <2>3, <2>4 DEF TablesInv, PageTablesSound
<1>5. CASE OtherUsers
    <2>1. tables' = tables /\ mapped' = mapped
        BY <1>5 DEF OtherUsers, vmmVars
    <2>2. CASE parse_memory_map
        BY <1>1, <2>1, <2>2, ParseStep, TablesKept DEF parse_memory_map
    <2>3. CASE allocate_frame
        BY <1>1, <2>1, <2>3, AllocateStep, TablesKept
    <2>4. ASSUME NEW f \in owned \ TableFrames, deallocate_frames(f, 1)
          PROVE  TablesInv'
        <3>1. FramesInv' /\ owned' = owned \ f..(f + 1 - 1)
            BY <1>1, <2>4, DeallocateStep
        <3>2. f..(f + 1 - 1) = {f}
            BY <1>1, PhysicalAssumption DEF FramesInv, Frames
        <3>. QED BY <1>1, <2>1, <3>1, <3>2, TablesKept
    <2>. QED BY <1>5, <2>2, <2>3, <2>4 DEF OtherUsers
<1>6. CASE CreateTable
    BY <1>6, NewTable
<1>. QED BY <1>3, <1>4, <1>5, <1>6 DEF VmmNext, vmmVars, map_range, unmap_range, NoFrameForTable

\* However calls that map and unmap ranges interleave with other users of the allocator, and
\* wherever a call fails: page tables have frames of their own that no one else holds and
\* that are not free, and a mapped page has every table on its way.
THEOREM TablesStaySound == VmmSpec => []PageTablesSound
<1>1. Init /\ VmmInit => TablesInv
    <2>1. VmmInit => PageTablesSound
        BY DEF VmmInit, PageTablesSound, TableFrames
    <2>. QED BY <2>1, FramesInit DEF TablesInv
<1>2. TablesInv => PageTablesSound
    BY DEF TablesInv
<1>. QED BY <1>1, <1>2, VmmStep, PTL DEF VmmSpec

-----------------------------------------------------------------------------
(* Page replacement.  LRU and clock take a page out of its place, so that they depend on a page
   being there once. *)
Distinct(s) == \A i, j \in 1..Len(s) : s[i] = s[j] => i = j

LRUOK(l) ==
    /\ l.pages \in Seq(SwapPages) /\ Distinct(l.pages) /\ Len(l.pages) <= MaxPages
    /\ DOMAIN l.positions = Range(l.pages)
    /\ \A i \in 1..Len(l.pages) : l.positions[l.pages[i]] = i - 1

LEMMA RangeFacts ==
    ASSUME NEW E, NEW s \in Seq(E)
    PROVE  /\ Len(s) \in Nat /\ DOMAIN s = 1..Len(s) /\ Range(s) \subseteq E
           /\ \A x : x \in Range(s) <=> \E i \in 1..Len(s) : s[i] = x
<1>1. Len(s) \in Nat /\ DOMAIN s = 1..Len(s) /\ \A i \in 1..Len(s) : s[i] \in E
    OBVIOUS
<1>2. \A x : x \in Range(s) <=> \E i \in 1..Len(s) : s[i] = x
    BY <1>1 DEF Range
<1>. QED BY <1>1, <1>2

\* Taking out place k of a sequence without repetitions takes out that element.
LEMMA RemovedDistinct ==
    ASSUME NEW E, NEW s \in Seq(E), Distinct(s), NEW k \in 1..Len(s)
    PROVE  /\ RemovedAt(s, k) \in Seq(E) /\ Distinct(RemovedAt(s, k))
           /\ Range(RemovedAt(s, k)) = Range(s) \ {s[k]} /\ Len(RemovedAt(s, k)) = Len(s) - 1
<1> DEFINE n == Len(s)
           r == RemovedAt(s, k)
<1>1. /\ n \in Nat /\ n - 1 \in Nat /\ r \in Seq(E) /\ Len(r) = n - 1 /\ k \in Nat
      /\ \A i \in 1..(n - 1) : r[i] = IF i < k THEN s[i] ELSE s[i + 1]
    BY RemovedAtFacts
<1> HIDE DEF r
<1>2. Distinct(r)
    <2> SUFFICES ASSUME NEW i \in 1..(n - 1), NEW j \in 1..(n - 1), r[i] = r[j] PROVE i = j
        BY <1>1 DEF Distinct
    <2> DEFINE u == IF i < k THEN i ELSE i + 1
               v == IF j < k THEN j ELSE j + 1
    <2>1. r[i] = s[u] /\ r[j] = s[v] /\ u \in 1..n /\ v \in 1..n
        BY <1>1
    <2>2. u = v
        <3> HIDE DEF u, v
        <3>. QED BY <2>1, Zenon DEF Distinct
    <2>. QED BY <1>1, <2>2
<1>3. Range(r) = Range(s) \ {s[k]}
    <2>1. ASSUME NEW i \in 1..(n - 1) PROVE r[i] \in Range(s) /\ r[i] # s[k]
        <3> DEFINE u == IF i < k THEN i ELSE i + 1
        <3>1. r[i] = s[u] /\ u \in 1..n /\ u # k
            BY <1>1
        <3> HIDE DEF u
        <3>2. s[u] # s[k]
            BY <3>1 DEF Distinct
        <3>. QED BY <3>1, <3>2, RangeFacts
    <2>2. ASSUME NEW i \in 1..n, i # k PROVE \E j \in 1..(n - 1) : r[j] = s[i]
        <3>1. CASE i < k
            <4>1. i \in 1..(n - 1) /\ r[i] = s[i]
                BY <1>1, <3>1
            <4>. QED BY <4>1
        <3>2. CASE i > k
            <4>1. i - 1 \in 1..(n - 1) /\ ~ (i - 1 < k) /\ (i - 1) + 1 = i
                BY <1>1, <3>2
            <4>2. r[i - 1] = s[i]
                BY <1>1, <4>1
            <4>. QED BY <4>1, <4>2
        <3>. QED BY <1>1, <2>2, <3>1, <3>2
    <2>3. \A x : x \in Range(r) <=> \E i \in 1..(n - 1) : r[i] = x
        BY <1>1, RangeFacts
    <2>4. \A x : x \in Range(s) <=> \E i \in 1..n : s[i] = x
        BY RangeFacts
    <2>. QED BY <2>1, <2>2, <2>3, <2>4
<1>. QED BY <1>1, <1>2, <1>3 DEF r

LEMMA LRUAccess ==
    ASSUME NEW l, LRUOK(l), NEW p \in SwapPages
    PROVE  /\ LRUOK(lru_access_page(l, p))
           /\ Range(lru_access_page(l, p).pages) \subseteq Range(l.pages) \cup {p}
<1> DEFINE at == IF p \in DOMAIN l.positions THEN l.positions[p] + 1 ELSE 0
           rest == IF at = 0 THEN l.pages ELSE RemovedAt(l.pages, at)
           moved == <<p>> \o rest
           kept == IF Len(moved) > MaxPages THEN SubSeq(moved, 1, MaxPages) ELSE moved
           m == lru_access_page(l, p)
<1>1. m = [pages |-> kept, positions |-> Restrict(Positions(moved), Range(kept))]
    BY Zenon DEF lru_access_page
<1>2. /\ l.pages \in Seq(SwapPages) /\ Distinct(l.pages) /\ DOMAIN l.positions = Range(l.pages)
      /\ \A i \in 1..Len(l.pages) : l.positions[l.pages[i]] = i - 1
    BY DEF LRUOK
<1>3. rest \in Seq(SwapPages) /\ Distinct(rest) /\ Range(rest) = Range(l.pages) \ {p}
    <2>1. CASE p \in Range(l.pages)
        <3>1. PICK k \in 1..Len(l.pages) : l.pages[k] = p
            BY <1>2, <2>1, RangeFacts, Zenon
        <3>2. at = k /\ k # 0
            BY <1>2, <2>1, <3>1, SMTT(30)
        <3>3. rest = RemovedAt(l.pages, k)
            BY <3>2
        <3> HIDE DEF rest, at
        <3>. QED BY <1>2, <3>1, <3>3, RemovedDistinct, ZenonT(30)
    <2>2. CASE p \notin Range(l.pages)
        BY <1>2, <2>2, Zenon
    <2>. QED BY <2>1, <2>2, Zenon
<1> HIDE DEF at, rest
<1>4. /\ moved \in Seq(SwapPages) /\ Len(moved) = Len(rest) + 1 /\ Len(rest) \in Nat
      /\ moved[1] = p /\ \A i \in 2..Len(moved) : moved[i] = rest[i - 1]
    BY <1>3
<1> HIDE DEF moved
<1>5. Distinct(moved)
    <2>1. \A i \in 1..Len(rest) : rest[i] # p
        BY <1>3, RangeFacts
    <2> SUFFICES ASSUME NEW i \in 1..Len(moved), NEW j \in 1..Len(moved), moved[i] = moved[j]
                 PROVE  i = j
        BY DEF Distinct
    <2>2. \A x \in 1..Len(moved) : x = 1 \/ (x \in 2..Len(moved) /\ x - 1 \in 1..Len(rest))
        BY <1>4
    <2>3. CASE i = 1 \/ j = 1
        BY <1>4, <2>1, <2>2, <2>3
    <2>4. CASE i # 1 /\ j # 1
        <3>1. rest[i - 1] = rest[j - 1] /\ i - 1 \in 1..Len(rest) /\ j - 1 \in 1..Len(rest)
            BY <1>4, <2>2, <2>4
        <3>2. i - 1 = j - 1
            BY <1>3, <3>1 DEF Distinct
        <3>. QED BY <1>4, <3>2
    <2>. QED BY <2>3, <2>4
<1>6. /\ kept \in Seq(SwapPages) /\ Len(kept) \in Nat /\ Len(kept) <= MaxPages
      /\ Len(kept) <= Len(moved) /\ \A i \in 1..Len(kept) : kept[i] = moved[i]
    <2>1. MaxPages \in Nat /\ 1 <= MaxPages
        BY SwapperAssumption
    <2>2. CASE Len(moved) > MaxPages
        <3>1. kept = SubSeq(moved, 1, MaxPages)
            BY <2>2, Zenon
        <3>2. kept \in Seq(SwapPages) /\ Len(kept) = MaxPages
            BY <1>4, <2>1, <2>2, <3>1, PrefixFacts
        <3>3. \A i \in 1..MaxPages : kept[i] = moved[i]
            BY <1>4, <2>1, <2>2, <3>1
        <3>. QED BY <1>4, <2>1, <2>2, <3>2, <3>3
    <2>3. CASE ~ (Len(moved) > MaxPages)
        BY <1>4, <2>1, <2>3
    <2>. QED BY <2>2, <2>3
<1> HIDE DEF kept
<1>7. Distinct(kept)
    BY <1>4, <1>5, <1>6 DEF Distinct
<1>8. Range(kept) \subseteq Range(l.pages) \cup {p}
    <2>1. Range(moved) \subseteq Range(l.pages) \cup {p}
        <3>1. \A i \in 1..Len(rest) : rest[i] \in Range(l.pages)
            BY <1>3, RangeFacts
        <3>2. \A i \in 1..Len(moved) : i = 1 \/ (i \in 2..Len(moved) /\ i - 1 \in 1..Len(rest))
            BY <1>4
        <3>3. \A i \in 1..Len(moved) : moved[i] \in Range(l.pages) \cup {p}
            BY <1>4, <3>1, <3>2
        <3>. QED BY <1>4, <3>3, RangeFacts
    <2>2. \A i \in 1..Len(kept) : kept[i] = moved[i] /\ i \in 1..Len(moved)
        BY <1>4, <1>6
    <2>3. \A i \in 1..Len(moved) : moved[i] \in Range(moved)
        BY <1>4, RangeFacts
    <2>. QED BY <1>6, <2>1, <2>2, <2>3, RangeFacts
<1>9. \A i \in 1..Len(kept) : m.positions[kept[i]] = i - 1
    <2> SUFFICES ASSUME NEW i \in 1..Len(kept) PROVE m.positions[kept[i]] = i - 1
        OBVIOUS
    <2>1. i \in 1..Len(moved) /\ kept[i] = moved[i] /\ DOMAIN moved = 1..Len(moved)
        BY <1>4, <1>6
    <2>2. kept[i] \in Range(kept) /\ kept[i] \in Range(moved)
        BY <1>4, <1>6, <2>1, RangeFacts
    <2>3. m.positions[kept[i]] = (CHOOSE j \in DOMAIN moved : moved[j] = kept[i]) - 1
        <3>1. m.positions[kept[i]] = Positions(moved)[kept[i]]
            BY <1>1, <2>2 DEF Restrict
        <3>2. Positions(moved)[kept[i]] = (CHOOSE j \in DOMAIN moved : moved[j] = kept[i]) - 1
            BY <2>2, Zenon DEF Positions
        <3>. QED BY <3>1, <3>2
    <2>4. \A j \in DOMAIN moved : moved[j] = kept[i] => j = i
        BY <1>5, <2>1 DEF Distinct
    <2>5. (CHOOSE j \in DOMAIN moved : moved[j] = kept[i]) = i
        BY <2>1, <2>4
    <2>. QED BY <2>3, <2>5, Zenon
<1>10. m.pages = kept /\ DOMAIN m.positions = Range(kept)
    BY <1>1 DEF Restrict
<1> HIDE DEF m
<1>. QED BY <1>6, <1>7, <1>8, <1>9, <1>10 DEF LRUOK, m

LEMMA LRURemove ==
    ASSUME NEW l, LRUOK(l), NEW p
    PROVE  /\ LRUOK(lru_remove_page(l, p))
           /\ Range(lru_remove_page(l, p).pages) = Range(l.pages) \ {p}
           /\ p \in Range(l.pages) => Len(lru_remove_page(l, p).pages) = Len(l.pages) - 1
<1> DEFINE m == lru_remove_page(l, p)
           n == Len(l.pages)
<1>1. /\ l.pages \in Seq(SwapPages) /\ Distinct(l.pages) /\ DOMAIN l.positions = Range(l.pages)
      /\ n \in Nat /\ n <= MaxPages /\ MaxPages \in Nat
      /\ \A i \in 1..n : l.positions[l.pages[i]] = i - 1
    BY SwapperAssumption, SMTT(30) DEF LRUOK
<1>2. CASE p \notin Range(l.pages)
    BY <1>1, <1>2 DEF lru_remove_page
<1>3. CASE p \in Range(l.pages)
    <2>1. PICK k \in 1..n : l.pages[k] = p
        BY <1>1, <1>3, RangeFacts, Zenon
    <2> DEFINE r == RemovedAt(l.pages, k)
               g == [q \in DOMAIN l.positions \ {p} |->
                       IF l.positions[q] > k - 1 THEN l.positions[q] - 1 ELSE l.positions[q]]
    <2>2. l.positions[p] = k - 1 /\ l.positions[p] + 1 = k
        BY <1>1, <2>1
    <2>3. m.pages = r /\ m.positions = g
        BY <1>1, <1>3, <2>2 DEF lru_remove_page
    <2>4. /\ r \in Seq(SwapPages) /\ Distinct(r) /\ Range(r) = Range(l.pages) \ {p} /\ Len(r) = n - 1
        BY <1>1, <2>1, RemovedDistinct, ZenonT(30)
    <2>5. \A i \in 1..(n - 1) : r[i] = IF i < k THEN l.pages[i] ELSE l.pages[i + 1]
        BY <1>1, <2>1, RemovedAtFacts, Zenon
    <2> HIDE DEF r
    <2>6. ASSUME NEW i \in 1..(n - 1) PROVE g[r[i]] = i - 1
        <3>1. r[i] \in DOMAIN l.positions \ {p}
            BY <1>1, <2>4, <2>6, RangeFacts, Zenon
        <3>2. CASE i < k
            <4>1. r[i] = l.pages[i] /\ l.positions[r[i]] = i - 1
                <5>1. i \in 1..n /\ r[i] = l.pages[i]
                    BY <1>1, <2>5, <3>2
                <5>. QED BY <1>1, <5>1, Zenon
            <4>. QED BY <1>1, <3>1, <3>2, <4>1
        <3>3. CASE ~ (i < k)
            <4>1. i + 1 \in 1..n
                BY <1>1, <2>6
            <4>2. r[i] = l.pages[i + 1] /\ l.positions[r[i]] = (i + 1) - 1
                BY <1>1, <2>5, <2>6, <3>3, <4>1
            <4>. QED BY <1>1, <2>6, <3>1, <3>3, <4>2, SMTT(30)
        <3>. QED BY <3>2, <3>3
    <2>7. DOMAIN g = Range(r)
        BY <1>1, <2>4
    <2>8. n - 1 <= MaxPages
        BY <1>1
    <2> HIDE DEF g, m
    <2>9. LRUOK(m)
        BY <2>3, <2>4, <2>6, <2>7, <2>8 DEF LRUOK
    <2>. QED BY <2>3, <2>4, <2>9 DEF m
<1>. QED BY <1>2, <1>3

LEMMA FIFOAdd ==
    ASSUME NEW f \in Seq(SwapPages), Len(f) <= MaxPages, NEW p \in SwapPages
    PROVE  /\ fifo_add_page(f, p) \in Seq(SwapPages) /\ Len(fifo_add_page(f, p)) <= MaxPages
           /\ Range(fifo_add_page(f, p)) \subseteq Range(f) \cup {p}
<1> DEFINE g == Append(f, p)
<1>1. MaxPages \in Nat /\ Len(f) \in Nat
    BY SwapperAssumption
<1>2. /\ g \in Seq(SwapPages) /\ Len(g) = Len(f) + 1
      /\ \A i \in 1..Len(f) : g[i] = f[i]
      /\ g[Len(f) + 1] = p
    OBVIOUS
<1>3. \A i \in 1..Len(g) : g[i] \in Range(f) \cup {p}
    <2>1. \A i \in 1..Len(g) : i \in 1..Len(f) \/ i = Len(f) + 1
        BY <1>1, <1>2
    <2> HIDE DEF g
    <2>. QED BY <1>2, <2>1, RangeFacts
<1> DEFINE t == Tail(g)
<1>4. t \in Seq(SwapPages) /\ Len(t) = Len(f) /\ \A i \in 1..Len(f) : t[i] = g[i + 1] /\ i + 1 \in 1..Len(g)
    <2> HIDE DEF g
    <2>. QED BY <1>1, <1>2
<1>5. Range(g) \subseteq Range(f) \cup {p}
    <2> HIDE DEF g
    <2>. QED BY <1>2, <1>3, RangeFacts
<1>6. Range(t) \subseteq Range(f) \cup {p}
    <2>1. \A i \in 1..Len(t) : t[i] \in Range(f) \cup {p}
        BY <1>3, <1>4
    <2> HIDE DEF t, g
    <2>. QED BY <1>4, <2>1, RangeFacts
<1>7. fifo_add_page(f, p) \in {f, t} \/ (fifo_add_page(f, p) = g /\ ~ (Len(g) > MaxPages))
    BY DEF fifo_add_page
<1> HIDE DEF t, g
<1>. QED BY <1>1, <1>2, <1>4, <1>5, <1>6, <1>7

\* the ring: pages with their reference bits
Entry == SwapPages \X BOOLEAN

ClockOK(c) ==
    /\ c \in [pages : Seq(Entry), hand : Nat]
    /\ c.hand <= Len(c.pages) /\ Len(c.pages) <= MaxPages
    /\ \A i, j \in 1..Len(c.pages) : c.pages[i][1] = c.pages[j][1] => i = j

LEMMA ClockFacts ==
    ASSUME NEW c, ClockOK(c)
    PROVE  /\ c.pages \in Seq(Entry) /\ Len(c.pages) \in Nat /\ DOMAIN c.pages = 1..Len(c.pages)
           /\ c.hand \in Nat /\ c.hand <= Len(c.pages)
           /\ \A i \in 1..Len(c.pages) : c.pages[i] \in Entry /\ c.pages[i][1] \in SwapPages
           /\ \A x : x \in ClockPages(c) <=> \E i \in 1..Len(c.pages) : c.pages[i][1] = x
<1>1. c.pages \in Seq(Entry) /\ c.hand \in Nat /\ c.hand <= Len(c.pages)
    BY DEF ClockOK
<1> DEFINE s == c.pages
<1> HIDE DEF s
<1>2. s \in Seq(Entry)
    BY <1>1 DEF s
<1>3. Len(s) \in Nat /\ DOMAIN s = 1..Len(s) /\ \A i \in 1..Len(s) : s[i] \in Entry
    BY <1>2
<1>4. \A i \in 1..Len(s) : s[i][1] \in SwapPages
    BY <1>3 DEF Entry
<1>5. \A x : x \in ClockPages(c) <=> \E i \in 1..Len(s) : s[i][1] = x
    BY <1>3 DEF ClockPages, s
<1>. QED BY <1>1, <1>3, <1>4, <1>5 DEF s

LEMMA HandOnRing ==
    ASSUME NEW c, ClockOK(c), c.pages # << >>
    PROVE  /\ AtHand(c) \in 0..(Len(c.pages) - 1)
           /\ \A k \in Nat : PassedBy(c, k) \in 0..(Len(c.pages) - 1)
           /\ SecondChances(c) \in Nat
<1> DEFINE n == Len(c.pages)
<1>1. n \in Nat /\ n # 0 /\ c.hand \in Nat
    <2>1. c.pages \in Seq(Entry) /\ n \in Nat /\ c.hand \in Nat
        BY ClockFacts
    <2>. QED BY <2>1
<1>2. AtHand(c) \in 0..(n - 1)
    <2> HIDE DEF n
    <2>. QED BY <1>1 DEF AtHand, n
<1>3. ASSUME NEW k \in Nat PROVE PassedBy(c, k) \in 0..(n - 1)
    <2> DEFINE z == AtHand(c) + k
    <2>1. z \in Nat /\ PassedBy(c, k) = z % n
        BY <1>1, <1>2 DEF PassedBy
    <2> HIDE DEF z, n
    <2>. QED BY <1>1, <2>1
<1>4. SecondChances(c) \in Nat
    <2> DEFINE clear == {k \in 0..(Len(c.pages) - 1) : ~ c.pages[PassedBy(c, k) + 1][2]}
    <2>1. clear \in SUBSET Nat
        BY <1>1
    <2>2. SecondChances(c) = IF clear = {} THEN n ELSE Min(clear)
        BY DEF SecondChances
    <2> HIDE DEF clear, n
    <2>3. clear # {} => Min(clear) \in Nat
        BY <2>1, MinFacts, Zenon
    <2>. QED BY <1>1, <2>2, <2>3
<1>. QED BY <1>2, <1>3, <1>4

\* d has the same pages as c in the same places
SameRing(d, c) ==
    /\ d.pages \in Seq(Entry) /\ Len(d.pages) = Len(c.pages)
    /\ \A i \in 1..Len(c.pages) : d.pages[i][1] = c.pages[i][1]

LEMMA SameRingOK ==
    ASSUME NEW c, ClockOK(c), NEW d \in [pages : Seq(Entry), hand : Nat], SameRing(d, c),
           d.hand <= Len(c.pages)
    PROVE  ClockOK(d) /\ ClockPages(d) = ClockPages(c)
<1>1. ClockOK(d)
    BY DEF ClockOK, SameRing
<1>2. \A x : x \in ClockPages(d) <=> \E i \in 1..Len(d.pages) : d.pages[i][1] = x
    BY <1>1, ClockFacts
<1>3. \A x : x \in ClockPages(c) <=> \E i \in 1..Len(c.pages) : c.pages[i][1] = x
    BY ClockFacts
<1>4. \A x : x \in ClockPages(d) <=> x \in ClockPages(c)
    BY <1>2, <1>3, Zenon DEF SameRing
<1>. QED BY <1>1, <1>4, Zenon

LEMMA ClearedFacts ==
    ASSUME NEW c, ClockOK(c), NEW k
    PROVE  /\ Cleared(c, k) \in Seq(Entry) /\ Len(Cleared(c, k)) = Len(c.pages)
           /\ \A i \in 1..Len(c.pages) : Cleared(c, k)[i][1] = c.pages[i][1]
<1> DEFINE n == Len(c.pages)
           b(i) == c.pages[i][2] /\ \A j \in 0..(k - 1) : PassedBy(c, j) # i - 1
           r == Cleared(c, k)
<1>1. n \in Nat /\ DOMAIN c.pages = 1..n /\ \A i \in 1..n : c.pages[i] \in Entry /\ c.pages[i][1] \in SwapPages
    BY ClockFacts
<1>2. r = [i \in 1..n |-> <<c.pages[i][1], b(i)>>]
    BY <1>1 DEF Cleared
<1>3. \A i \in 1..n : b(i) \in BOOLEAN
    <2>1. \A i \in 1..n : c.pages[i][2] \in BOOLEAN
        BY <1>1 DEF Entry
    <2>. QED BY <2>1, Zenon
<1> HIDE DEF b, r
<1>4. \A i \in 1..n : r[i] \in Entry /\ r[i][1] = c.pages[i][1]
    BY <1>1, <1>2, <1>3 DEF Entry
<1>5. r \in [1..n -> Entry]
    BY <1>2, <1>4, Zenon
<1>6. r \in Seq(Entry) /\ Len(r) = n
    <2> HIDE DEF n
    <2>. QED BY <1>1, <1>5
<1>. QED BY <1>4, <1>6 DEF r

LEMMA ClockAccess ==
    ASSUME NEW c, ClockOK(c), NEW p \in SwapPages
    PROVE  /\ ClockOK(clock_access_page(c, p))
           /\ ClockPages(clock_access_page(c, p)) \subseteq ClockPages(c) \cup {p}
<1> DEFINE n == Len(c.pages)
           d == clock_access_page(c, p)
<1>1. /\ c.pages \in Seq(Entry) /\ n \in Nat /\ DOMAIN c.pages = 1..n
      /\ c.hand \in Nat /\ c.hand <= n /\ n <= MaxPages /\ MaxPages \in Nat /\ MaxPages # 0
      /\ \A i \in 1..n : c.pages[i] \in Entry /\ c.pages[i][1] \in SwapPages
      /\ c \in [pages : Seq(Entry), hand : Nat]
      /\ \A i, j \in 1..n : c.pages[i][1] = c.pages[j][1] => i = j
    BY ClockFacts, SwapperAssumption DEF ClockOK
<1>2. <<p, TRUE>> \in Entry
    BY Zenon DEF Entry
<1>3. CASE p \in ClockPages(c)
    <2> DEFINE f == [i \in 1..n |-> IF c.pages[i][1] = p THEN <<p, TRUE>> ELSE c.pages[i]]
    <2>1. d = [c EXCEPT !.pages = f]
        BY <1>1, <1>3 DEF clock_access_page
    <2>2. f \in [1..n -> Entry] /\ \A i \in 1..n : f[i][1] = c.pages[i][1]
        BY <1>1, <1>2
    <2> HIDE DEF f
    <2>3. f \in Seq(Entry) /\ Len(f) = n
        <3> HIDE DEF n
        <3>. QED BY <1>1, <2>2
    <2>4. d.pages = f /\ d.hand = c.hand /\ d \in [pages : Seq(Entry), hand : Nat]
        BY <1>1, <2>1, <2>3
    <2> HIDE DEF d
    <2>5. SameRing(d, c)
        BY <2>2, <2>3, <2>4 DEF SameRing
    <2>6. ClockOK(d) /\ ClockPages(d) = ClockPages(c)
        BY <1>1, <2>4, <2>5, SameRingOK, Zenon
    <2>. QED BY <2>6 DEF d
<1>4. CASE p \notin ClockPages(c) /\ n < MaxPages
    <2> DEFINE e == <<p, TRUE>>
               f == Append(c.pages, e)
    <2>1. d = [c EXCEPT !.pages = f]
        BY <1>4 DEF clock_access_page
    <2> HIDE DEF e
    <2>2. /\ f \in Seq(Entry) /\ Len(f) = n + 1 /\ f[n + 1] = e
          /\ \A i \in 1..n : f[i] = c.pages[i]
        <3>1. e \in Entry
            BY <1>2 DEF e
        <3> DEFINE s == c.pages
        <3>2. s \in Seq(Entry) /\ f = Append(s, e)
            BY <1>1, Zenon
        <3> HIDE DEF s, f
        <3>3. f \in Seq(Entry) /\ Len(f) = Len(s) + 1 /\ f[Len(s) + 1] = e /\ \A i \in 1..Len(s) : f[i] = s[i]
            BY <3>1, <3>2, SMTT(30)
        <3>. QED BY <3>3 DEF s
    <2> HIDE DEF f
    <2>3. d.pages = f /\ d.hand = c.hand /\ d \in [pages : Seq(Entry), hand : Nat]
        BY <1>1, <2>1, <2>2
    <2>4. e[1] = p /\ \A i \in 1..n : c.pages[i][1] # p
        BY <1>4, ClockFacts DEF e
    <2>5. \A i \in 1..(n + 1) : i \in 1..n \/ i = n + 1
        BY <1>1
    <2> HIDE DEF d
    <2>6. \A i, j \in 1..(n + 1) : f[i][1] = f[j][1] => i = j
        BY <1>1, <2>2, <2>4, <2>5
    <2>7. ClockOK(d)
        BY <1>1, <1>4, <2>2, <2>3, <2>6, SMTT(30) DEF ClockOK
    <2>8. ClockPages(d) \subseteq ClockPages(c) \cup {p}
        <3>1. \A x : x \in ClockPages(d) <=> \E i \in 1..Len(d.pages) : d.pages[i][1] = x
            BY <2>7, ClockFacts, Zenon
        <3>2. \A x : x \in ClockPages(c) <=> \E i \in 1..n : c.pages[i][1] = x
            BY ClockFacts
        <3>. QED BY <2>2, <2>3, <2>4, <2>5, <3>1, <3>2
    <2>. QED BY <2>7, <2>8 DEF d
<1>5. CASE p \notin ClockPages(c) /\ ~ (n < MaxPages)
    <2> DEFINE skip == SecondChances(c)
               at == PassedBy(c, skip)
               r == Cleared(c, skip)
               e == <<p, TRUE>>
               f == [r EXCEPT ![at + 1] = e]
    <2>1. d = [pages |-> f, hand |-> at + 1]
        BY <1>5 DEF clock_access_page
    <2>2. n # 0 /\ c.pages # << >>
        BY <1>1, <1>5
    <2>3. at \in 0..(n - 1) /\ r \in Seq(Entry) /\ Len(r) = n /\ \A i \in 1..n : r[i][1] = c.pages[i][1]
        BY <2>2, HandOnRing, ClearedFacts, Zenon
    <2> HIDE DEF skip, at, r, e
    <2>4. at + 1 \in 1..n /\ at + 1 \in Nat
        BY <1>1, <2>3
    <2>5. /\ f \in Seq(Entry) /\ Len(f) = n /\ f[at + 1] = e
          /\ \A i \in 1..n : i # at + 1 => f[i] = r[i]
        <3>1. e \in Entry
            BY <1>2 DEF e
        <3> DEFINE k == at + 1
        <3>2. k \in 1..Len(r)
            BY <2>3, <2>4
        <3> HIDE DEF k
        <3>3. /\ [r EXCEPT ![k] = e] \in Seq(Entry) /\ Len([r EXCEPT ![k] = e]) = Len(r)
              /\ [r EXCEPT ![k] = e][k] = e
              /\ \A i \in 1..Len(r) : i # k => [r EXCEPT ![k] = e][i] = r[i]
            BY <2>3, <3>1, <3>2
        <3>. QED BY <2>3, <3>3 DEF k
    <2> HIDE DEF f
    <2>6. d.pages = f /\ d.hand = at + 1 /\ d \in [pages : Seq(Entry), hand : Nat]
        BY <2>1, <2>4, <2>5
    <2>7. e[1] = p /\ \A i \in 1..n : c.pages[i][1] # p
        BY <1>5, ClockFacts DEF e
    <2> HIDE DEF d
    <2>8. \A i, j \in 1..n : f[i][1] = f[j][1] => i = j
        <3>1. f[at + 1][1] = p /\ \A i \in 1..n : i # at + 1 => f[i][1] = r[i][1]
            BY <2>5, <2>7
        <3>2. \A i \in 1..n : i # at + 1 => f[i][1] # p
            BY <2>3, <2>7, <3>1
        <3>. QED BY <1>1, <2>3, <3>1, <3>2, SMTT(30)
    <2>9. ClockOK(d)
        BY <1>1, <2>4, <2>5, <2>6, <2>8 DEF ClockOK
    <2>10. ClockPages(d) \subseteq ClockPages(c) \cup {p}
        <3>1. \A x : x \in ClockPages(d) <=> \E i \in 1..Len(d.pages) : d.pages[i][1] = x
            BY <2>9, ClockFacts, Zenon
        <3>2. \A x : x \in ClockPages(c) <=> \E i \in 1..n : c.pages[i][1] = x
            BY ClockFacts
        <3>. QED BY <2>3, <2>5, <2>6, <2>7, <3>1, <3>2
    <2>. QED BY <2>9, <2>10 DEF d
<1>. QED BY <1>3, <1>4, <1>5

\* Naming a victim clears bits and moves the hand; the victim is on the ring.
LEMMA ClockVictim ==
    ASSUME NEW c, ClockOK(c)
    PROVE  /\ ClockOK(clock_victim(c).clock) /\ ClockPages(clock_victim(c).clock) = ClockPages(c)
           /\ Len(clock_victim(c).clock.pages) = Len(c.pages)
           /\ c.pages = << >> => clock_victim(c).victim = None
           /\ c.pages # << >> => clock_victim(c).victim \in ClockPages(c)
<1> DEFINE n == Len(c.pages)
           v == clock_victim(c)
<1>1. /\ c \in [pages : Seq(Entry), hand : Nat] /\ n \in Nat /\ c.hand <= n
      /\ \A x : x \in ClockPages(c) <=> \E i \in 1..n : c.pages[i][1] = x
    BY ClockFacts DEF ClockOK
<1>2. CASE c.pages = << >>
    BY <1>2 DEF clock_victim
<1>3. CASE c.pages # << >> /\ LoopBroken(c)
    <2> DEFINE r == Cleared(c, n)
               d == [c EXCEPT !.pages = r]
    <2>1. v = [victim |-> c.pages[AtHand(c) + 1][1], clock |-> d]
        BY <1>3 DEF clock_victim
    <2>2. AtHand(c) \in 0..(n - 1) /\ r \in Seq(Entry) /\ Len(r) = n /\ \A i \in 1..n : r[i][1] = c.pages[i][1]
        BY <1>3, HandOnRing, ClearedFacts, Zenon
    <2> HIDE DEF r
    <2>3. d \in [pages : Seq(Entry), hand : Nat] /\ d.pages = r /\ d.hand = c.hand
        BY <1>1, <2>2
    <2> HIDE DEF d
    <2>4. SameRing(d, c)
        BY <2>2, <2>3 DEF SameRing
    <2>5. ClockOK(d) /\ ClockPages(d) = ClockPages(c)
        BY <1>1, <2>3, <2>4, SameRingOK
    <2>6. AtHand(c) + 1 \in 1..n
        BY <1>1, <2>2
    <2>. QED BY <1>1, <1>3, <2>1, <2>2, <2>3, <2>5, <2>6
<1>4. CASE c.pages # << >> /\ ~ LoopBroken(c)
    <2> DEFINE skip == SecondChances(c)
               at == PassedBy(c, skip)
               r == Cleared(c, skip)
               d == [pages |-> r, hand |-> at + 1]
    <2>1. v = [victim |-> c.pages[at + 1][1], clock |-> d]
        BY <1>4 DEF clock_victim
    <2>2. at \in 0..(n - 1) /\ r \in Seq(Entry) /\ Len(r) = n /\ \A i \in 1..n : r[i][1] = c.pages[i][1]
        BY <1>4, HandOnRing, ClearedFacts, Zenon
    <2> HIDE DEF r, at
    <2>3. at + 1 \in 1..n /\ at + 1 \in Nat /\ at + 1 <= n
        BY <1>1, <2>2
    <2>4. d \in [pages : Seq(Entry), hand : Nat] /\ d.pages = r /\ d.hand = at + 1
        BY <2>2, <2>3, Zenon
    <2> HIDE DEF d
    <2>5. SameRing(d, c)
        BY <2>2, <2>4 DEF SameRing
    <2>6. ClockOK(d) /\ ClockPages(d) = ClockPages(c)
        BY <2>3, <2>4, <2>5, SameRingOK
    <2>. QED BY <1>1, <1>4, <2>1, <2>2, <2>3, <2>4, <2>6, SMTT(30)
<1>. QED BY <1>2, <1>3, <1>4, Zenon

LEMMA ClockRemove ==
    ASSUME NEW c, ClockOK(c), NEW p
    PROVE  /\ ClockOK(clock_remove_page(c, p)) /\ ClockPages(clock_remove_page(c, p)) = ClockPages(c) \ {p}
           /\ p \in ClockPages(c) => Len(clock_remove_page(c, p).pages) = Len(c.pages) - 1
<1> DEFINE n == Len(c.pages)
           d == clock_remove_page(c, p)
<1>1. /\ c.pages \in Seq(Entry) /\ n \in Nat /\ DOMAIN c.pages = 1..n
      /\ c.hand \in Nat /\ c.hand <= n /\ n <= MaxPages /\ MaxPages \in Nat
      /\ \A x : x \in ClockPages(c) <=> \E i \in 1..n : c.pages[i][1] = x
      /\ \A i, j \in 1..n : c.pages[i][1] = c.pages[j][1] => i = j
    BY ClockFacts, SwapperAssumption, Zenon DEF ClockOK
<1>2. CASE p \notin ClockPages(c)
    BY <1>2 DEF clock_remove_page
<1>3. CASE p \in ClockPages(c)
    <2> DEFINE k == CHOOSE i \in DOMAIN c.pages : c.pages[i][1] = p
               pos == k - 1
               left == RemovedAt(c.pages, pos + 1)
               h == IF c.hand > pos THEN c.hand - 1
                    ELSE IF c.hand >= Len(left) /\ left # << >> THEN 0 ELSE c.hand
    <2>1. d = [pages |-> left, hand |-> h]
        BY <1>3 DEF clock_remove_page
    <2>2. k \in 1..n /\ c.pages[k][1] = p
        BY <1>1, <1>3
    <2> HIDE DEF k
    <2>3. pos \in 0..(n - 1) /\ pos + 1 = k
        BY <1>1, <2>2
    <2> HIDE DEF pos
    <2>4. /\ left \in Seq(Entry) /\ Len(left) = n - 1 /\ n - 1 \in Nat
          /\ \A i \in 1..(n - 1) : left[i] = IF i < k THEN c.pages[i] ELSE c.pages[i + 1]
        <3>1. left = RemovedAt(c.pages, k)
            BY <2>3
        <3> DEFINE s == c.pages
        <3>2. s \in Seq(Entry) /\ k \in 1..Len(s) /\ left = RemovedAt(s, k)
            BY <1>1, <2>2, <3>1, Zenon
        <3> HIDE DEF left, s
        <3>3. /\ left \in Seq(Entry) /\ Len(left) = Len(s) - 1 /\ Len(s) - 1 \in Nat
              /\ \A i \in 1..(Len(s) - 1) : left[i] = IF i < k THEN s[i] ELSE s[i + 1]
            BY <3>2, RemovedAtFacts, Zenon
        <3>. QED BY <3>3 DEF s
    <2> HIDE DEF left
    <2>5. h \in Nat /\ h <= n - 1
        BY <1>1, <2>3, <2>4
    <2> HIDE DEF h
    <2>6. d.pages = left /\ d.hand = h /\ d \in [pages : Seq(Entry), hand : Nat]
        BY <2>1, <2>4, <2>5, SMTT(30)
    <2> HIDE DEF d
    <2> DEFINE o(i) == IF i < k THEN i ELSE i + 1
    <2>7. \A i \in 1..(n - 1) : left[i] = c.pages[o(i)] /\ o(i) \in 1..n /\ o(i) # k
        <3>1. \A i \in 1..(n - 1) : o(i) \in 1..n /\ o(i) # k
            BY <1>1, <2>2
        <3>2. \A i \in 1..(n - 1) : left[i] = c.pages[o(i)]
            BY <2>4
        <3>. QED BY <3>1, <3>2
    <2>8. \A i, j \in 1..(n - 1) : o(i) = o(j) => i = j
        BY <1>1, <2>2, SMTT(30)
    <2>9. \A i \in 1..n : i # k => \E j \in 1..(n - 1) : o(j) = i
        <3> SUFFICES ASSUME NEW i \in 1..n, i # k PROVE \E j \in 1..(n - 1) : o(j) = i
            OBVIOUS
        <3>1. CASE i < k
            <4>1. i \in 1..(n - 1) /\ o(i) = i
                BY <1>1, <2>2, <3>1
            <4>. QED BY <4>1
        <3>2. CASE i > k
            <4>1. i - 1 \in 1..(n - 1) /\ o(i - 1) = i
                BY <1>1, <2>2, <3>2
            <4>. QED BY <4>1
        <3>. QED BY <1>1, <2>2, <3>1, <3>2, SMTT(30)
    <2> HIDE DEF o
    <2>10. \A i, j \in 1..(n - 1) : left[i][1] = left[j][1] => i = j
        <3> SUFFICES ASSUME NEW i \in 1..(n - 1), NEW j \in 1..(n - 1), left[i][1] = left[j][1]
                     PROVE  i = j
            OBVIOUS
        <3>1. /\ left[i] = c.pages[o(i)] /\ left[j] = c.pages[o(j)]
              /\ o(i) \in 1..n /\ o(j) \in 1..n
            BY <2>7
        <3>2. c.pages[o(i)][1] = c.pages[o(j)][1]
            BY <3>1, Zenon
        <3>3. o(i) = o(j)
            BY <1>1, <3>1, <3>2, Zenon
        <3>. QED BY <2>8, <3>3
    <2>11. ClockOK(d)
        <3>1. n - 1 <= MaxPages
            BY <1>1
        <3>. QED BY <2>4, <2>5, <2>6, <2>10, <3>1, Zenon DEF ClockOK
    <2>12. \A x : x \in ClockPages(d) <=> \E i \in 1..(n - 1) : left[i][1] = x
        BY <2>4, <2>6, <2>11, ClockFacts, SMTT(30)
    <2>13. \A i \in 1..(n - 1) : left[i][1] \in ClockPages(c) \ {p}
        BY <1>1, <2>2, <2>7, SMTT(30)
    <2>14. \A i \in 1..n : c.pages[i][1] # p => c.pages[i][1] \in ClockPages(d)
        <3> SUFFICES ASSUME NEW i \in 1..n, c.pages[i][1] # p PROVE c.pages[i][1] \in ClockPages(d)
            OBVIOUS
        <3>1. PICK j \in 1..(n - 1) : o(j) = i
            BY <2>2, <2>9
        <3>2. left[j] = c.pages[i]
            BY <2>7, <3>1
        <3>. QED BY <2>12, <3>2
    <2>15. ClockPages(d) = ClockPages(c) \ {p}
        BY <1>1, <2>12, <2>13, <2>14
    <2>. QED BY <2>4, <2>6, <2>11, <2>15 DEF d
<1>. QED BY <1>2, <1>3

\* The inductive invariant of page replacement; the last conjunct is what a pressure pass that is
\* under way still has to do.
SwapperInv ==
    /\ algorithm \in Algorithms
    /\ swapped \subseteq SwapPages /\ capacity \in 0..MaxCapacity /\ threshold \in 0..MaxPages
    /\ LRUOK(lru) /\ fifo \in Seq(SwapPages) /\ Len(fifo) <= MaxPages /\ ClockOK(clock)
    /\ recency \in Seq(SwapPages) /\ Range(recency) = DOMAIN access_count
    /\ TrackedInMemory
    /\ loop \in [todo : Nat, pressure : BOOLEAN]
    /\ loop.pressure /\ loop.todo > 0 => get_current_page_count <= threshold + loop.todo

LEMMA SwapperInvSound == SwapperInv => VictimsAreInMemory
<1> SUFFICES ASSUME SwapperInv PROVE VictimsAreInMemory
    OBVIOUS
<1>1. Range(lru.pages) \subseteq SwapPages /\ Range(fifo) \subseteq SwapPages /\ Len(lru.pages) <= MaxPages
    BY RangeFacts DEF SwapperInv, LRUOK
<1>2. /\ ClockPages(clock) \subseteq SwapPages /\ clock.hand \in 0..Len(clock.pages)
      /\ Len(clock.pages) <= MaxPages
    <2>1. ClockOK(clock)
        BY DEF SwapperInv
    <2>2. Len(clock.pages) <= MaxPages
        BY <2>1 DEF ClockOK
    <2>3. \A x \in ClockPages(clock) : x \in SwapPages
        BY <2>1, ClockFacts
    <2>4. clock.hand \in 0..Len(clock.pages)
        BY <2>1, ClockFacts
    <2>. QED BY <2>2, <2>3, <2>4
<1>. QED BY <1>1, <1>2 DEF SwapperInv, VictimsAreInMemory, SwapperTypeOK

LEMMA SwapperStart == SwapperInit => SwapperInv
<1> SUFFICES ASSUME SwapperInit PROVE SwapperInv
    OBVIOUS
<1>1. /\ swapped = {} /\ capacity = 0 /\ algorithm \in Algorithms
      /\ lru.pages = << >> /\ lru.positions = << >> /\ fifo = << >>
      /\ clock.pages = << >> /\ clock.hand = 0 /\ clock = [pages |-> << >>, hand |-> 0]
      /\ recency = << >> /\ access_count = << >> /\ threshold = MaxPages
      /\ loop = [todo |-> 0, pressure |-> FALSE]
    BY DEF SwapperInit, SpaceInit
<1>2. MaxCapacity \in Nat /\ MaxPages \in Nat
    BY SwapperAssumption
<1>3. Range(<< >>) = {} /\ \A S : << >> \in Seq(S)
    BY DEF Range
<1>4. LRUOK(lru)
    BY <1>1, <1>2, <1>3, SMTT(30) DEF LRUOK, Distinct
<1>5. ClockOK(clock)
    BY <1>1, <1>2, <1>3 DEF ClockOK
<1>6. TrackedInMemory
    BY <1>1, <1>3 DEF TrackedInMemory, ClockPages
<1>7. loop \in [todo : Nat, pressure : BOOLEAN] /\ ~ loop.pressure
    BY <1>1
<1>. QED BY <1>1, <1>2, <1>3, <1>4, <1>5, <1>6, <1>7 DEF SwapperInv

\* A page is accessed, and it is not in swap afterwards.
LEMMA AccessStep ==
    ASSUME SwapperInv, NEW p \in SwapPages, Idle, access_page(p),
           swapped' \subseteq swapped \ {p}, capacity' = capacity
    PROVE  SwapperInv'
<1>1. /\ LRUOK(lru) /\ fifo \in Seq(SwapPages) /\ Len(fifo) <= MaxPages /\ ClockOK(clock)
      /\ recency \in Seq(SwapPages) /\ Range(recency) = DOMAIN access_count
      /\ Range(lru.pages) \cup Range(fifo) \cup ClockPages(clock) \subseteq DOMAIN access_count
      /\ DOMAIN access_count \cap swapped = {}
    BY DEF SwapperInv, TrackedInMemory
<1>2. DOMAIN access_count' = DOMAIN access_count \cup {p}
    BY DEF access_page
<1>3. LRUOK(lru') /\ Range(lru'.pages) \subseteq Range(lru.pages) \cup {p}
    BY <1>1, LRUAccess DEF access_page
<1>4. /\ fifo' \in Seq(SwapPages) /\ Len(fifo') <= MaxPages
      /\ Range(fifo') \subseteq Range(fifo) \cup {p}
    BY <1>1, FIFOAdd, Zenon DEF access_page
<1>5. ClockOK(clock') /\ ClockPages(clock') \subseteq ClockPages(clock) \cup {p}
    BY <1>1, ClockAccess DEF access_page
<1>6. recency' \in Seq(SwapPages) /\ Range(recency') = DOMAIN access_count'
    <2> DEFINE r == Without(recency, p)
               t == Append(r, p)
    <2>1. r \in Seq(SwapPages) /\ Range(r) = Range(recency) \ {p}
        BY <1>1, WithoutFacts
    <2>2. recency' = t
        BY DEF access_page
    <2> HIDE DEF r
    <2>3. /\ t \in Seq(SwapPages) /\ Len(t) = Len(r) + 1 /\ Len(r) \in Nat
          /\ t[Len(r) + 1] = p /\ \A i \in 1..Len(r) : t[i] = r[i]
        BY <2>1
    <2> HIDE DEF t
    <2>4. \A i \in 1..Len(t) : i \in 1..Len(r) \/ i = Len(r) + 1
        BY <2>3
    <2>5. Len(r) + 1 \in 1..Len(t) /\ \A i \in 1..Len(r) : i \in 1..Len(t)
        BY <2>3
    <2>6. \A x : x \in Range(t) <=> \E i \in 1..Len(t) : t[i] = x
        BY <2>3, RangeFacts
    <2>7. \A x : x \in Range(r) <=> \E i \in 1..Len(r) : r[i] = x
        BY <2>1, RangeFacts
    <2>8. Range(t) = Range(r) \cup {p}
        <3>1. \A x \in Range(t) : x \in Range(r) \cup {p}
            BY <2>3, <2>4, <2>6, <2>7
        <3>2. \A x \in Range(r) \cup {p} : x \in Range(t)
            BY <2>3, <2>5, <2>6, <2>7
        <3>. QED BY <3>1, <3>2
    <2>. QED BY <1>1, <1>2, <2>1, <2>2, <2>3, <2>8, Zenon
<1>7. TrackedInMemory'
    BY <1>1, <1>2, <1>3, <1>4, <1>5, Zenon DEF TrackedInMemory
<1>8. /\ loop' = loop /\ loop.todo = 0 /\ algorithm' = algorithm /\ threshold' = threshold
      /\ capacity' = capacity
    BY DEF Idle, access_page
<1>9. /\ swapped' \subseteq SwapPages /\ algorithm \in Algorithms /\ capacity \in 0..MaxCapacity
      /\ threshold \in 0..MaxPages /\ loop \in [todo : Nat, pressure : BOOLEAN]
    BY DEF SwapperInv
<1>10. ~ (loop'.pressure /\ loop'.todo > 0)
    BY <1>8
<1>. QED BY <1>3, <1>4, <1>5, <1>6, <1>7, <1>8, <1>9, <1>10, Zenon DEF SwapperInv

\* Steps that touch neither the replacers nor page_info
LEMMA QuietStep ==
    ASSUME SwapperInv, UNCHANGED <<lru, fifo, clock, recency, access_count, swapped>>,
           algorithm' \in Algorithms, capacity' \in 0..MaxCapacity, threshold' \in 0..MaxPages,
           loop' \in [todo : Nat, pressure : BOOLEAN],
           loop'.pressure /\ loop'.todo > 0 => get_current_page_count' <= threshold' + loop'.todo
    PROVE  SwapperInv'
<1>1. TrackedInMemory'
    BY DEF SwapperInv, TrackedInMemory
<1>. QED BY <1>1 DEF SwapperInv

LEMMA CountFacts ==
    ASSUME SwapperInv
    PROVE  /\ get_current_page_count \in Nat
           /\ Len(lru.pages) \in Nat /\ Len(fifo) \in Nat /\ Len(clock.pages) \in Nat /\ Len(recency) \in Nat
           /\ algorithm \in {"LRU", "FIFO", "Clock", "LFU"}
<1>1. algorithm \in {"LRU", "FIFO", "Clock", "LFU"}
    BY SwapperAssumption DEF SwapperInv
<1>2. Len(lru.pages) \in Nat /\ Len(fifo) \in Nat /\ Len(recency) \in Nat
    BY RangeFacts DEF SwapperInv, LRUOK
<1>3. Len(clock.pages) \in Nat
    BY ClockFacts, Zenon DEF SwapperInv
<1>. QED BY <1>1, <1>2, <1>3 DEF get_current_page_count

LEMMA AfterSelect ==
    ASSUME SwapperInv
    PROVE  /\ ClockOK(ClockAfterSelect) /\ ClockPages(ClockAfterSelect) = ClockPages(clock)
           /\ Len(ClockAfterSelect.pages) = Len(clock.pages)
<1>1. ClockOK(clock)
    BY DEF SwapperInv
<1>. QED BY <1>1, ClockVictim DEF ClockAfterSelect

\* The victim is a page of the replacer that named it.
LEMMA VictimTracked ==
    ASSUME SwapperInv, select_victim_page \in DOMAIN access_count
    PROVE  /\ algorithm = "LRU" => select_victim_page \in Range(lru.pages)
           /\ algorithm = "FIFO" => select_victim_page \in Range(fifo)
           /\ algorithm = "Clock" => select_victim_page \in ClockPages(clock)
<1>1. select_victim_page # None
    <2>1. DOMAIN access_count \subseteq SwapPages
        BY RangeFacts, Zenon DEF SwapperInv
    <2>. QED BY <2>1, SwapperAssumption
<1>2. CASE algorithm = "LRU"
    <2> DEFINE s == lru.pages
    <2>1. s \in Seq(SwapPages)
        BY Zenon DEF SwapperInv, LRUOK
    <2>2. select_victim_page = lru_victim(lru)
        BY <1>2 DEF select_victim_page
    <2>3. s # << >> /\ select_victim_page = s[Len(s)]
        BY <1>1, <2>2 DEF lru_victim
    <2> HIDE DEF s
    <2>4. Len(s) \in 1..Len(s)
        BY <2>1, <2>3
    <2>5. s[Len(s)] \in Range(s)
        BY <2>1, <2>4, RangeFacts
    <2>. QED BY <1>2, <2>3, <2>5, Zenon DEF s
<1>3. CASE algorithm = "FIFO"
    <2>1. fifo \in Seq(SwapPages)
        BY DEF SwapperInv
    <2>2. select_victim_page = fifo_victim(fifo)
        BY <1>3 DEF select_victim_page
    <2>3. fifo # << >> /\ select_victim_page = Head(fifo)
        BY <1>1, <2>2 DEF fifo_victim
    <2>4. Head(fifo) = fifo[1] /\ 1 \in 1..Len(fifo)
        BY <2>1, <2>3
    <2>5. fifo[1] \in Range(fifo)
        BY <2>1, <2>4, RangeFacts
    <2>. QED BY <1>3, <2>3, <2>4, <2>5
<1>4. CASE algorithm = "Clock"
    <2>1. select_victim_page = clock_victim(clock).victim
        BY <1>4 DEF select_victim_page
    <2>2. ClockOK(clock)
        BY DEF SwapperInv
    <2>. QED BY <1>1, <1>4, <2>1, <2>2, ClockVictim, Zenon
<1>. QED BY <1>2, <1>3, <1>4

\* A victim leaves every replacer and page_info, so that there is one page less to count.
LEMMA VictimStep ==
    ASSUME SwapperInv, loop.todo > 0, SwapOutVictim, algorithm' = algorithm, threshold' = threshold
    PROVE  SwapperInv' /\ get_current_page_count' <= get_current_page_count - 1
           /\ get_current_page_count' \in Nat /\ loop'.todo = loop.todo - 1
<1> DEFINE v == select_victim_page
<1>1. /\ v \in DOMAIN access_count /\ swapped' = swapped \cup {v} /\ capacity' = capacity
      /\ lru' = lru_remove_page(lru, v) /\ fifo' = Without(fifo, v)
      /\ clock' = clock_remove_page(ClockAfterSelect, v)
      /\ recency' = Without(recency, v)
      /\ DOMAIN access_count' = DOMAIN access_count \ {v}
      /\ loop' = [loop EXCEPT !.todo = @ - 1]
    BY DEF SwapOutVictim, Keep, remove_page_from_tracking, Restrict
<1>2. /\ LRUOK(lru) /\ fifo \in Seq(SwapPages) /\ Len(fifo) <= MaxPages /\ ClockOK(clock)
      /\ recency \in Seq(SwapPages) /\ Range(recency) = DOMAIN access_count
      /\ Range(lru.pages) \cup Range(fifo) \cup ClockPages(clock) \subseteq DOMAIN access_count
      /\ DOMAIN access_count \cap swapped = {} /\ swapped \subseteq SwapPages
      /\ loop \in [todo : Nat, pressure : BOOLEAN] /\ algorithm \in Algorithms
      /\ capacity \in 0..MaxCapacity /\ threshold \in 0..MaxPages
    BY Zenon DEF SwapperInv, TrackedInMemory
<1>3. /\ algorithm = "LRU" => v \in Range(lru.pages)
      /\ algorithm = "FIFO" => v \in Range(fifo)
      /\ algorithm = "Clock" => v \in ClockPages(clock)
    BY <1>1, VictimTracked
<1> HIDE DEF v
<1>4. LRUOK(lru') /\ Range(lru'.pages) = Range(lru.pages) \ {v}
      /\ (v \in Range(lru.pages) => Len(lru'.pages) = Len(lru.pages) - 1)
    BY <1>1, <1>2, LRURemove
<1>5. /\ fifo' \in Seq(SwapPages) /\ Range(fifo') = Range(fifo) \ {v}
      /\ Len(fifo') \in Nat /\ Len(fifo) \in Nat /\ Len(fifo') <= Len(fifo)
      /\ (v \in Range(fifo) => Len(fifo') < Len(fifo))
    BY <1>1, <1>2, WithoutFacts, Zenon
<1>6. /\ recency' \in Seq(SwapPages) /\ Range(recency') = Range(recency) \ {v}
      /\ Len(recency') \in Nat /\ Len(recency) \in Nat /\ Len(recency') < Len(recency)
    BY <1>1, <1>2, WithoutFacts, Zenon
<1>7. ClockOK(clock') /\ ClockPages(clock') = ClockPages(clock) \ {v}
      /\ (v \in ClockPages(clock) => Len(clock'.pages) = Len(clock.pages) - 1)
    <2> DEFINE c == ClockAfterSelect
    <2>1. ClockOK(c) /\ ClockPages(c) = ClockPages(clock) /\ Len(c.pages) = Len(clock.pages)
        BY AfterSelect
    <2> HIDE DEF c
    <2>2. clock' = clock_remove_page(c, v)
        BY <1>1 DEF c
    <2>. QED BY <2>1, <2>2, ClockRemove
<1>8. TrackedInMemory'
    BY <1>1, <1>2, <1>4, <1>5, <1>7 DEF TrackedInMemory
<1>9. v \in SwapPages
    BY <1>1, <1>2, RangeFacts
<1>10. loop' \in [todo : Nat, pressure : BOOLEAN] /\ loop'.todo = loop.todo - 1 /\ loop'.pressure = loop.pressure
    <2> DEFINE x == loop.todo - 1
    <2>1. x \in Nat
        BY <1>2
    <2>2. loop' = [loop EXCEPT !.todo = x]
        BY <1>1
    <2> HIDE DEF x
    <2>3. loop' \in [todo : Nat, pressure : BOOLEAN] /\ loop'.todo = x /\ loop'.pressure = loop.pressure
        BY <1>2, <2>1, <2>2
    <2>. QED BY <2>3 DEF x
<1>11. /\ Len(lru'.pages) \in Nat /\ Len(clock'.pages) \in Nat /\ Len(lru.pages) \in Nat
       /\ Len(clock.pages) \in Nat /\ get_current_page_count \in Nat
       /\ algorithm \in {"LRU", "FIFO", "Clock", "LFU"}
    <2>1. Len(lru'.pages) \in Nat /\ Len(clock'.pages) \in Nat
        <3>1. lru'.pages \in Seq(SwapPages)
            BY <1>4 DEF LRUOK
        <3>2. Len(lru'.pages) \in Nat
            BY <3>1, RangeFacts
        <3>. QED BY <1>7, <3>2, ClockFacts
    <2>. QED BY <2>1, CountFacts
<1>12. get_current_page_count' \in Nat /\ get_current_page_count' <= get_current_page_count - 1
    <2>1. CASE algorithm = "LRU"
        BY <1>3, <1>4, <1>11, <2>1 DEF get_current_page_count
    <2>2. CASE algorithm = "FIFO"
        BY <1>3, <1>5, <1>11, <2>2 DEF get_current_page_count
    <2>3. CASE algorithm = "Clock"
        BY <1>3, <1>7, <1>11, <2>3 DEF get_current_page_count
    <2>4. CASE algorithm = "LFU"
        BY <1>6, <1>11, <2>4 DEF get_current_page_count
    <2>. QED BY <1>11, <2>1, <2>2, <2>3, <2>4
<1>13. loop'.pressure /\ loop'.todo > 0 => get_current_page_count' <= threshold' + loop'.todo
    <2> SUFFICES ASSUME loop'.pressure PROVE get_current_page_count' <= threshold' + loop'.todo
        OBVIOUS
    <2>1. get_current_page_count <= threshold + loop.todo
        BY <1>10 DEF SwapperInv
    <2>2. loop.todo \in Nat /\ threshold \in Int
        BY <1>2
    <2>. QED BY <1>10, <1>11, <1>12, <2>1, <2>2
<1>14. fifo' \in Seq(SwapPages) /\ Len(fifo') <= MaxPages
    BY <1>2, <1>5, SwapperAssumption
<1>15. SwapperInv'
    <2>1. swapped' \subseteq SwapPages
        BY <1>1, <1>2, <1>9
    <2>2. Range(recency') = DOMAIN access_count'
        BY <1>1, <1>2, <1>6
    <2>. QED BY <1>1, <1>2, <1>4, <1>6, <1>7, <1>8, <1>10, <1>13, <1>14, <2>1, <2>2 DEF SwapperInv
<1>. QED BY <1>10, <1>12, <1>15

LEMMA StopStep ==
    ASSUME SwapperInv, SwapOutStops, algorithm' = algorithm, threshold' = threshold
    PROVE  SwapperInv' /\ swapped' = swapped
<1>1. /\ clock' = ClockAfterSelect /\ loop' = [loop EXCEPT !.todo = 0]
      /\ UNCHANGED <<lru, fifo, recency, access_count, swapped, capacity>>
    BY DEF SwapOutStops, spaceVars
<1>2. ClockOK(clock') /\ ClockPages(clock') = ClockPages(clock)
    BY <1>1, AfterSelect
<1>3. TrackedInMemory'
    BY <1>1, <1>2 DEF SwapperInv, TrackedInMemory
<1>4. loop' \in [todo : Nat, pressure : BOOLEAN] /\ loop'.todo = 0
    BY <1>1 DEF SwapperInv
<1>. QED BY <1>1, <1>2, <1>3, <1>4 DEF SwapperInv

\* What a step does to the count: only a victim that goes out changes `swapped' in a pass.
Relieves ==
    loop.pressure /\ loop.todo = 1 /\ loop'.todo = 0 /\ swapped' # swapped
        => get_current_page_count' <= threshold'

LEMMA SwapperStep ==
    ASSUME SwapperInv, [SwapperNext]_swapperVars
    PROVE  SwapperInv' /\ [Relieves]_swapperVars
<1>0. /\ loop \in [todo : Nat, pressure : BOOLEAN] /\ algorithm \in Algorithms
      /\ capacity \in 0..MaxCapacity /\ threshold \in 0..MaxPages /\ swapped \subseteq SwapPages
      /\ get_current_page_count \in Nat
    BY CountFacts, Zenon DEF SwapperInv
<1>1. CASE UNCHANGED swapperVars
    <2>1. UNCHANGED <<algorithm, lru, fifo, clock, recency, access_count, threshold, loop, swapped, capacity>>
        BY <1>1, Zenon DEF swapperVars, replacementVars, spaceVars
    <2>2. get_current_page_count' = get_current_page_count
        BY <2>1 DEF get_current_page_count
    <2>3. SwapperInv'
        BY <1>0, <2>1, <2>2, QuietStep, Zenon DEF SwapperInv
    <2>. QED BY <1>1, <2>3
<1>2. ASSUME NEW p \in SwapPages, record_page_access(p) PROVE SwapperInv' /\ Relieves
    BY <1>2, AccessStep DEF record_page_access, spaceVars, Relieves, Idle
<1>3. ASSUME NEW p \in SwapPages, handle_page_fault(p) PROVE SwapperInv' /\ Relieves
    BY <1>3, AccessStep DEF handle_page_fault, GiveBack, Relieves, Idle
<1>4. ASSUME NEW a \in Algorithms, set_algorithm(a) PROVE SwapperInv' /\ Relieves
    <2>1. /\ algorithm' = a /\ loop.todo = 0 /\ loop' = loop
          /\ UNCHANGED <<lru, fifo, clock, recency, access_count, threshold, swapped, capacity>>
        BY <1>4 DEF set_algorithm, Idle, spaceVars
    <2>. QED BY <1>0, <2>1, QuietStep, SMTT(30) DEF Relieves
<1>5. ASSUME NEW t \in 0..MaxPages, set_memory_pressure_threshold(t) PROVE SwapperInv' /\ Relieves
    <2>1. /\ threshold' = t /\ loop.todo = 0 /\ loop' = loop
          /\ UNCHANGED <<algorithm, lru, fifo, clock, recency, access_count, swapped, capacity>>
        BY <1>5 DEF set_memory_pressure_threshold, Idle, spaceVars
    <2>. QED BY <1>0, <2>1, QuietStep DEF Relieves
<1>6. CASE check_memory_pressure
    <2>1. /\ loop' = [todo |-> Excess, pressure |-> TRUE] /\ Excess > 0
          /\ UNCHANGED <<algorithm, lru, fifo, clock, recency, access_count, threshold, swapped, capacity>>
        BY <1>6 DEF check_memory_pressure, StartLoop, spaceVars
    <2>2. get_current_page_count' = get_current_page_count
        BY <2>1 DEF get_current_page_count
    <2>3. Excess \in Nat /\ get_current_page_count = threshold + Excess
        BY <1>0, <2>1 DEF Excess
    <2>4. loop' \in [todo : Nat, pressure : BOOLEAN] /\ loop'.todo = Excess
        BY <2>1, <2>3
    <2>5. get_current_page_count' <= threshold' + loop'.todo
        BY <1>0, <2>1, <2>2, <2>3, <2>4
    <2>. QED BY <1>0, <2>1, <2>4, <2>5, QuietStep, Zenon DEF Relieves
<1>7. ASSUME NEW n \in 1..2, swap_out_pages(n) PROVE SwapperInv' /\ Relieves
    <2>1. /\ loop' = [todo |-> n, pressure |-> FALSE]
          /\ UNCHANGED <<algorithm, lru, fifo, clock, recency, access_count, threshold, swapped, capacity>>
        BY <1>7 DEF swap_out_pages, StartLoop, spaceVars
    <2>2. loop' \in [todo : Nat, pressure : BOOLEAN] /\ ~ loop'.pressure
        BY <2>1
    <2>. QED BY <1>0, <2>1, <2>2, QuietStep DEF Relieves
<1>8. CASE SwapOutIteration
    <2>1. loop.todo > 0 /\ algorithm' = algorithm /\ threshold' = threshold
        BY <1>8 DEF SwapOutIteration
    <2>2. CASE SwapOutPanics
        <3>1. UNCHANGED <<lru, fifo, clock, recency, access_count, loop, swapped, capacity>>
            BY <2>2 DEF SwapOutPanics, spaceVars
        <3>2. get_current_page_count' = get_current_page_count
            BY <2>1, <3>1 DEF get_current_page_count
        <3>3. SwapperInv'
            BY <1>0, <2>1, <3>1, <3>2, QuietStep, Zenon DEF SwapperInv
        <3>. QED BY <3>1, <3>3 DEF Relieves
    <2>3. CASE SwapOutVictim
        <3>1. /\ SwapperInv' /\ get_current_page_count' <= get_current_page_count - 1
              /\ get_current_page_count' \in Nat
            BY <2>1, <2>3, VictimStep
        <3>2. loop.pressure /\ loop.todo = 1 => get_current_page_count <= threshold + 1
            BY DEF SwapperInv
        <3>3. loop.pressure /\ loop.todo = 1 => get_current_page_count' <= threshold'
            BY <1>0, <2>1, <3>1, <3>2
        <3>. QED BY <3>1, <3>3 DEF Relieves
    <2>4. CASE SwapOutStops
        BY <2>1, <2>4, StopStep DEF Relieves
    <2>. QED BY <1>8, <2>2, <2>3, <2>4 DEF SwapOutIteration
<1>9. CASE SwapSpaceChanges
    <2>1. /\ capacity' \in 0..MaxCapacity
          /\ UNCHANGED <<algorithm, lru, fifo, clock, recency, access_count, threshold, loop, swapped>>
        BY <1>9 DEF SwapSpaceChanges, Resize, replacementVars
    <2>2. get_current_page_count' = get_current_page_count
        BY <2>1 DEF get_current_page_count
    <2>3. SwapperInv'
        BY <1>0, <2>1, <2>2, QuietStep, Zenon DEF SwapperInv
    <2>. QED BY <2>1, <2>3 DEF Relieves
<1>. QED BY <1>1, <1>2, <1>3, <1>4, <1>5, <1>6, <1>7, <1>8, <1>9, Zenon DEF SwapperNext

\* For every number of pages, algorithm and order of accesses, faults, swap-outs and changes of
\* algorithm: what a replacer tracks has its page_info and is in memory.
THEOREM VictimsStayInMemory == SwapperSpec => []VictimsAreInMemory
<1>1. SwapperInv /\ [SwapperNext]_swapperVars => SwapperInv'
    BY SwapperStep
<1>. QED BY <1>1, SwapperStart, SwapperInvSound, PTL DEF SwapperSpec

\* For every threshold, algorithm and number of pages: a pressure pass that swapped out all it
\* set out to, with devices changing between its iterations, ends at the threshold.
THEOREM PressureIsRelieved == SwapperSpec => PressureRelieved
<1>1. SwapperInv /\ [SwapperNext]_swapperVars => SwapperInv'
    BY SwapperStep
<1>2. SwapperInv /\ [SwapperNext]_swapperVars => [Relieves]_swapperVars
    BY SwapperStep
<1>3. PressureRelieved <=> [][Relieves]_swapperVars
    BY Zenon DEF PressureRelieved, Relieves
<1>. QED BY <1>1, <1>2, <1>3, SwapperStart, PTL DEF SwapperSpec
=============================================================================
