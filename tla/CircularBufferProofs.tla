------------------------ MODULE CircularBufferProofs ------------------------
(***************************************************************************)
(* What the runs of MCCircularBuffer check for a ring of three entries,    *)
(* for every ring size and every set of lines.                             *)
(***************************************************************************)
EXTENDS CircularBuffer, SequenceLemmas

\* The inductive invariant.  None of its parts is inductive alone: where a line is
\* written is read off the offsets, and a block is reused only where one exists.
IInv == TypeOK /\ OffsetsDescribeEntries /\ LinesFitTheirBlocks

-----------------------------------------------------------------------------
(* The slots *)

LEMMA LinesAreStrings ==
  ASSUME NEW line \in Lines
  PROVE  line # NULL /\ line \in Seq(Bytes) /\ Len(line) \in Nat
  BY LinesAssumption

LEMMA AdvanceInSlots ==
  ASSUME NEW i \in Slots
  PROVE  Advance(i) \in Slots
  BY NAssumption DEF Slots, Advance

LEMMA WriteSlotInSlots ==
  ASSUME TypeOK
  PROVE  WriteSlot \in Slots
  BY AdvanceInSlots DEF TypeOK, WriteSlot

LEMMA StoredIsEntry ==
  ASSUME TypeOK, NEW line \in Lines
  PROVE  Stored(WriteSlot, line) \in Entry
  <1>1. entry[WriteSlot] \in Entry
    BY WriteSlotInSlots DEF TypeOK
  <1>2. Len(line) \in Nat
    BY LinesAreStrings
  <1>3. QED
    BY <1>1, <1>2 DEF Stored, Entry

-----------------------------------------------------------------------------
(* The invariant *)

LEMMA InitIInv == Init => IInv
  <1>1. NoEntry \in Entry
    BY DEF NoEntry, Entry
  <1>2. Init => TypeOK
    <2>1. 0 \in Slots
      BY NAssumption DEF Slots
    <2>2. QED
      BY <1>1, <2>1, Zenon DEF Init, TypeOK
  <1>3. Init => OffsetsDescribeEntries
    BY NAssumption DEF Init, OffsetsDescribeEntries, Slots, NoEntry
  <1>4. Init => LinesFitTheirBlocks
    BY DEF Init, LinesFitTheirBlocks, NoEntry
  <1>5. QED
    BY <1>2, <1>3, <1>4 DEF IInv

LEMMA NextIInv == IInv /\ [Next]_vars => IInv'
  <1>1. ASSUME IInv, NEW line \in Lines, AddEntry(line)
        PROVE  IInv'
    <2>1. WriteSlot \in Slots /\ Stored(WriteSlot, line) \in Entry
      BY <1>1, WriteSlotInSlots, StoredIsEntry DEF IInv
    <2>2. /\ entry' = [entry EXCEPT ![WriteSlot] = Stored(WriteSlot, line)]
          /\ entry \in [Slots -> Entry]
          /\ entry' \in [Slots -> Entry]
      BY <1>1, <2>1 DEF AddEntry, IInv, TypeOK
    <2>3. TypeOK'
      BY <1>1, <2>1, <2>2, AdvanceInSlots
      DEF AddEntry, AdvanceOffsets, IInv, TypeOK, FullAfter, Slots
    <2>4. line # NULL /\ Len(line) \in Nat
      BY LinesAreStrings
    <2>5. \A i \in Slots : entry'[i] = IF i = WriteSlot THEN Stored(WriteSlot, line) ELSE entry[i]
      BY <2>1, <2>2
    <2>6. OffsetsDescribeEntries'
      <3>1. \A i \in Slots :
              entry'[i].buffptr # NULL <=> i = WriteSlot \/ entry[i].buffptr # NULL
        BY <2>4, <2>5 DEF Stored
      <3>2. /\ in_offs \in Slots
            /\ empty => ~full /\ in_offs = 0
            /\ out_offs = IF full THEN Advance(in_offs) ELSE 0
            /\ \A i \in Slots : entry[i].buffptr # NULL <=> ~empty /\ (full \/ i <= in_offs)
        BY <1>1 DEF IInv, TypeOK, OffsetsDescribeEntries
      <3>3. /\ ~empty'
            /\ full' <=> full \/ (~empty /\ in_offs + 1 >= N)
            /\ in_offs' = WriteSlot
            /\ out_offs' = IF ~empty /\ full' THEN Advance(out_offs) ELSE out_offs
        BY <1>1 DEF AddEntry, AdvanceOffsets, FullAfter
      <3>4. CASE empty
        BY <3>1, <3>2, <3>3, <3>4, NAssumption DEF OffsetsDescribeEntries, WriteSlot, Advance, Slots
      <3>5. CASE ~empty
        BY <3>1, <3>2, <3>3, <3>5, NAssumption DEF OffsetsDescribeEntries, WriteSlot, Advance, Slots
      <3>6. QED
        BY <3>4, <3>5
    <2>7. LinesFitTheirBlocks'
      <3> SUFFICES ASSUME NEW i \in Slots
                   PROVE  IF entry'[i].buffptr = NULL
                          THEN entry'[i] = NoEntry
                          ELSE /\ entry'[i].size = Len(entry'[i].buffptr)
                               /\ entry'[i].size <= entry'[i].allocated
        BY DEF LinesFitTheirBlocks, NoEntry
      <3>1. CASE i = WriteSlot
        <4>1. entry[i].allocated \in Nat
          BY <2>2 DEF Entry
        <4>2. QED
          BY <2>4, <2>5, <3>1, <4>1 DEF Stored, NeedsAllocation
      <3>2. CASE i # WriteSlot
        BY <1>1, <2>5, <3>2 DEF IInv, LinesFitTheirBlocks
      <3>3. QED
        BY <3>1, <3>2
    <2>8. QED
      BY <2>3, <2>6, <2>7 DEF IInv
  <1>2. ASSUME IInv, UNCHANGED vars
        PROVE  IInv'
    BY <1>2 DEF IInv, TypeOK, OffsetsDescribeEntries, LinesFitTheirBlocks, vars, Advance
  <1>3. QED
    BY <1>1, <1>2 DEF Next

\* The inductive invariant holds in every reachable state.
THEOREM Invariance == Spec => []IInv
  BY InitIInv, NextIInv, PTL DEF Spec

\* Every variable of the ring keeps its type.
THEOREM TypeCorrect == Spec => []TypeOK
  <1>1. IInv => TypeOK
    BY DEF IInv
  <1>2. QED
    BY <1>1, Invariance, PTL

\* The flags and offsets always describe the entries.
THEOREM OffsetsAlwaysDescribeEntries == Spec => []OffsetsDescribeEntries
  <1>1. IInv => OffsetsDescribeEntries
    BY DEF IInv
  <1>2. QED
    BY <1>1, Invariance, PTL

\* A line never outgrows the block it is copied into.
THEOREM LinesAlwaysFitTheirBlocks == Spec => []LinesFitTheirBlocks
  <1>1. IInv => LinesFitTheirBlocks
    BY DEF IInv
  <1>2. QED
    BY <1>1, Invariance, PTL

-----------------------------------------------------------------------------
(* The ring implements RecentWrites *)

LEMMA CountBounds ==
  ASSUME IInv
  PROVE  Count \in 0 .. N /\ (Count = 0 <=> empty)
  BY NAssumption DEF IInv, TypeOK, OffsetsDescribeEntries, Count, Slots

ContentsAreTheLines ==
  /\ Contents \in Seq(Lines)
  /\ Len(Contents) = Count
  /\ \A k \in Slots : k < Count => Contents[k + 1] = entry[At(k)].buffptr

LEMMA ContentsIsSeq == IInv => ContentsAreTheLines
  <1> SUFFICES ASSUME IInv
               PROVE  ContentsAreTheLines
    OBVIOUS
  <1>1. Count \in 0 .. N /\ N \in Nat
    BY CountBounds, NAssumption
  <1>2. ASSUME NEW k \in 1 .. Count
        PROVE  entry[At(k - 1)].buffptr \in Lines
    <2>1. At(k - 1) \in Slots /\ entry[At(k - 1)].buffptr # NULL
      BY <1>1, <1>2, NAssumption
      DEF IInv, TypeOK, OffsetsDescribeEntries, At, Advance, Count, Slots
    <2>2. entry[At(k - 1)] \in Entry
      BY <2>1 DEF IInv, TypeOK
    <2>3. QED
      BY <2>1, <2>2 DEF Entry
  <1>3. Contents \in [1 .. Count -> Lines]
    BY <1>2 DEF Contents
  <1>4. Contents \in Seq(Lines) /\ Len(Contents) = Count
    BY <1>1, <1>3
  <1>5. ASSUME NEW k \in Slots, k < Count
        PROVE  Contents[k + 1] = entry[At(k)].buffptr
    <2>1. k + 1 \in 1 .. Count /\ (k + 1) - 1 = k
      BY <1>1, <1>5 DEF Slots
    <2>2. QED
      BY <2>1 DEF Contents
  <1>6. QED
    BY <1>4, <1>5 DEF ContentsAreTheLines

\* The slots are visited in the same order after a write, from one slot further
\* when the oldest line made room, and the slot written is the last one visited.
LEMMA NextAt ==
  ASSUME IInv, NEW line \in Lines, AddEntry(line)
  PROVE  /\ Count' = IF Count < N THEN Count + 1 ELSE N
         /\ \A k \in Slots : k = Count' - 1 => At(k)' = WriteSlot
         /\ \A k \in Slots : k < Count' - 1 =>
              /\ At(k)' = IF Count < N THEN At(k) ELSE At(k + 1)
              /\ At(k)' \in Slots
              /\ At(k)' # WriteSlot
  <1>1. /\ in_offs \in Slots
        /\ empty => ~full /\ in_offs = 0
        /\ out_offs = IF full THEN Advance(in_offs) ELSE 0
    BY DEF IInv, TypeOK, OffsetsDescribeEntries
  <1>2. /\ ~empty'
        /\ full' <=> full \/ (~empty /\ in_offs + 1 >= N)
        /\ in_offs' = WriteSlot
        /\ out_offs' = IF ~empty /\ full' THEN Advance(out_offs) ELSE out_offs
    BY DEF AddEntry, AdvanceOffsets, FullAfter
  <1>3. CASE empty
    BY <1>1, <1>2, <1>3, NAssumption DEF Count, At, WriteSlot, Advance, Slots
  <1>4. CASE ~empty /\ ~full
    BY <1>1, <1>2, <1>4, NAssumption DEF Count, At, WriteSlot, Advance, Slots
  <1>5. CASE ~empty /\ full
    BY <1>1, <1>2, <1>5, NAssumption DEF Count, At, WriteSlot, Advance, Slots
  <1>6. QED
    BY <1>3, <1>4, <1>5

LEMMA AddEntryIsPush ==
  ASSUME IInv, NEW line \in Lines, AddEntry(line)
  PROVE  Contents' = Abstract!Push(Contents, line)
  <1> DEFINE pushed == Abstract!Push(Contents, line)
  <1>1. /\ Contents \in Seq(Lines)
        /\ Len(Contents) = Count
        /\ \A k \in Slots : k < Count => Contents[k + 1] = entry[At(k)].buffptr
    BY ContentsIsSeq DEF ContentsAreTheLines
  <1>2. /\ Contents' \in Seq(Lines)
        /\ Len(Contents') = Count'
        /\ \A k \in Slots : k < Count' => Contents'[k + 1] = entry'[At(k)'].buffptr
    <2>1. IInv'
      BY NextIInv DEF Next
    <2>2. ContentsAreTheLines'
      BY <2>1, ContentsIsSeq, PTL
    <2>3. QED
      BY <2>2 DEF ContentsAreTheLines
  <1>3. Count \in 0 .. N /\ N \in Nat /\ N > 0 /\ Count' = IF Count < N THEN Count + 1 ELSE N
    BY CountBounds, NextAt, NAssumption
  <1>4. /\ pushed \in Seq(Lines)
        /\ Len(pushed) = Count'
        /\ \A k \in 1 .. Count' - 1 : pushed[k] = IF Count < N THEN Contents[k] ELSE Contents[k + 1]
        /\ pushed[Count'] = line
    <2>1. CASE Count < N
      BY <1>1, <1>3, <2>1, AppendProperties DEF Abstract!Push
    <2>2. CASE Count = N
      <3>1. /\ Tail(Contents) \in Seq(Lines)
            /\ Len(Tail(Contents)) = N - 1
            /\ \A k \in 1 .. N - 1 : Tail(Contents)[k] = Contents[k + 1]
        BY <1>1, <1>3, <2>2, HeadTailProperties
      <3>2. pushed = Append(Tail(Contents), line)
        BY <1>1, <2>2, <1>3 DEF Abstract!Push
      <3>3. QED
        BY <1>3, <2>2, <3>1, <3>2, AppendProperties
    <2>3. QED
      BY <1>3, <2>1, <2>2
  <1>5. \A i \in Slots :
          entry'[i].buffptr = IF i = WriteSlot THEN line ELSE entry[i].buffptr
    BY WriteSlotInSlots DEF IInv, TypeOK, AddEntry, Stored
  <1>6. ASSUME NEW k \in 1 .. Count'
        PROVE  Contents'[k] = pushed[k]
    <2>1. k - 1 \in Slots /\ k - 1 < Count' /\ (k - 1) + 1 = k
      BY <1>3 DEF Slots
    <2>2. Contents'[k] = entry'[At(k - 1)'].buffptr
      BY <1>2, <2>1
    <2>3. CASE k = Count'
      <3>1. At(k - 1)' = WriteSlot
        BY <2>1, <2>3, <1>3, NextAt
      <3>2. QED
        BY <1>4, <1>5, <2>2, <2>3, <3>1, WriteSlotInSlots DEF IInv
    <2>4. CASE k < Count'
      <3>1. /\ At(k - 1)' = IF Count < N THEN At(k - 1) ELSE At((k - 1) + 1)
            /\ At(k - 1)' \in Slots
            /\ At(k - 1)' # WriteSlot
        BY <2>1, <2>4, <1>3, NextAt
      <3>2. Contents'[k] = entry[At(k - 1)'].buffptr
        BY <1>5, <2>2, <3>1
      <3>3. CASE Count < N
        BY <1>1, <1>3, <1>4, <2>1, <2>4, <3>1, <3>2, <3>3
      <3>4. CASE Count = N
        <4>1. k \in Slots /\ k < Count
          BY <1>3, <2>4, <3>4 DEF Slots
        <4>2. QED
          BY <1>1, <1>3, <1>4, <2>1, <2>4, <3>1, <3>2, <3>4, <4>1
      <3>5. QED
        BY <1>3, <3>3, <3>4
    <2>5. QED
      BY <1>3, <2>3, <2>4
  <1>7. Contents' = pushed
    BY <1>2, <1>3, <1>4, <1>6, SeqEqual
  <1>8. QED
    BY <1>7

\* Callers of the ring see the last N lines that were added, oldest first.
THEOREM Refinement == Spec => KeepsRecentWrites
  <1>1. Init => Abstract!Init
    BY DEF Init, Abstract!Init, Contents, Count
  <1>2. ASSUME IInv, [Next]_vars
        PROVE  [Abstract!Next]_Contents
    <2>1. ASSUME NEW line \in Lines, AddEntry(line)
          PROVE  Abstract!Next
      BY <1>2, <2>1, AddEntryIsPush DEF Abstract!Next, Abstract!Add
    <2>2. CASE UNCHANGED vars
      BY <2>2 DEF vars, Contents, Count, At
    <2>3. QED
      BY <1>2, <2>1, <2>2 DEF Next
  <1>3. QED
    BY <1>1, <1>2, Invariance, PTL DEF Spec, KeepsRecentWrites, Abstract!Spec

-----------------------------------------------------------------------------
(* Sums of sizes *)

LEMMA SumIsRecursive ==
  ASSUME NEW size \in [Slots -> Nat]
  PROVE  /\ SumBefore(size, 0) = 0
         /\ \A k \in 0 .. N : SumBefore(size, k) \in Nat
         /\ \A k \in Slots : SumBefore(size, k + 1) = SumBefore(size, k) + size[k]
  <1> DEFINE Sums(n, sum) == sum = [i \in 0 .. n |-> IF i = 0 THEN 0 ELSE sum[i - 1] + size[i - 1]]
             Summed == {n \in Nat : n <= N => \E sum \in [0 .. n -> Nat] : Sums(n, sum)}
  <1>0. N \in Nat
    BY NAssumption
  <1>1. 0 \in Summed
    <2>1. [i \in 0 .. 0 |-> 0] \in [0 .. 0 -> Nat] /\ Sums(0, [i \in 0 .. 0 |-> 0])
      OBVIOUS
    <2>2. QED
      BY <2>1
  <1>2. ASSUME NEW n \in Nat, n \in Summed
        PROVE  n + 1 \in Summed
    <2> SUFFICES ASSUME n + 1 <= N
                 PROVE  \E sum \in [0 .. n + 1 -> Nat] : Sums(n + 1, sum)
      <3> HIDE DEF Sums
      <3>1. QED
        OBVIOUS
    <2>1. PICK old \in [0 .. n -> Nat] : Sums(n, old)
      BY <1>2, <1>0
    <2> DEFINE sum == [i \in 0 .. n + 1 |-> IF i = n + 1 THEN old[n] + size[n] ELSE old[i]]
    <2>2. n \in Slots /\ size[n] \in Nat
      BY <1>0 DEF Slots
    <2>3. sum \in [0 .. n + 1 -> Nat]
      BY <2>2
    <2>4. \A i \in 0 .. n + 1 : sum[i] = IF i = 0 THEN 0 ELSE sum[i - 1] + size[i - 1]
      BY <2>1
    <2>5. QED
      BY <2>3, <2>4
  <1>3. Nat \subseteq Summed
    <2> HIDE DEF Summed
    <2>1. QED
      BY <1>1, <1>2, SetInduction
  <1> DEFINE total == CHOOSE sum : Sums(N, sum)
  <1>4. PICK witness \in [0 .. N -> Nat] : Sums(N, witness)
    <2> HIDE DEF Sums
    <2>1. QED
      BY <1>3, <1>0
  <1>5. Sums(N, total)
    <2> HIDE DEF Sums
    <2>1. QED BY <1>4, Zenon
  <1>6. \A k : SumBefore(size, k) = total[k]
    BY DEF SumBefore
  <1>7. total[0] = 0 /\ \A k \in Slots : total[k + 1] = total[k] + size[k]
    <2> HIDE DEF total
    <2>1. \A i \in 0 .. N : total[i] = IF i = 0 THEN 0 ELSE total[i - 1] + size[i - 1]
      BY <1>5
    <2>2. QED
      BY <2>1, <1>0 DEF Slots
  <1>8. \A k \in 0 .. N : total[k] \in Nat
    <2> DEFINE IsNat == {n \in Nat : n <= N => total[n] \in Nat}
    <2> HIDE DEF total
    <2>1. 0 \in IsNat
      BY <1>7
    <2>2. \A n \in Nat : n \in IsNat => n + 1 \in IsNat
      BY <1>7, <1>0 DEF Slots
    <2>3. Nat \subseteq IsNat
      <3> HIDE DEF IsNat
      <3>1. QED
       BY <2>1, <2>2, SetInduction
    <2>4. QED
      BY <2>3
  <1>9. QED
    <2> HIDE DEF total
    <2>1. QED
      BY <1>6, <1>7, <1>8, <1>0 DEF Slots

VisitedSizes == [j \in Slots |-> entry[At(j)].size]

ArraySizes == [i \in Slots |-> entry[i].size]

LEMMA AtInSlots ==
  ASSUME IInv, NEW k \in Slots
  PROVE  At(k) \in Slots
  BY NAssumption DEF IInv, TypeOK, At, Slots

LEMMA SizesAreNumbers ==
  ASSUME IInv
  PROVE  VisitedSizes \in [Slots -> Nat] /\ ArraySizes \in [Slots -> Nat]
  BY AtInSlots DEF IInv, TypeOK, Entry, VisitedSizes, ArraySizes

\* The searched order: the starts accumulate the sizes.
LEMMA Starts ==
  ASSUME IInv
  PROVE  /\ StartOf(0) = 0
         /\ \A k \in 0 .. N : StartOf(k) \in Nat
         /\ \A k \in Slots : StartOf(k + 1) = StartOf(k) + entry[At(k)].size
  <1>1. VisitedSizes \in [Slots -> Nat]
    BY SizesAreNumbers
  <1>2. \A k : StartOf(k) = SumBefore(VisitedSizes, k)
    BY DEF StartOf, VisitedSizes
  <1>3. \A k \in Slots : VisitedSizes[k] = entry[At(k)].size
    BY DEF VisitedSizes
  <1>4. QED
    BY <1>1, <1>2, <1>3, SumIsRecursive

\* The order of the array.
LEMMA ArrayStarts ==
  ASSUME IInv
  PROVE  /\ ArrayStart(0) = 0
         /\ \A k \in 0 .. N : ArrayStart(k) \in Nat
         /\ \A k \in Slots : ArrayStart(k + 1) = ArrayStart(k) + entry[k].size
  <1>1. ArraySizes \in [Slots -> Nat]
    BY SizesAreNumbers
  <1>2. \A k : ArrayStart(k) = SumBefore(ArraySizes, k)
    BY DEF ArrayStart, ArraySizes
  <1>3. \A k \in Slots : ArraySizes[k] = entry[k].size
    BY DEF ArraySizes
  <1>4. QED
    BY <1>1, <1>2, <1>3, SumIsRecursive

\* One order is a rotation of the other, so both add up to the same.
LEMMA TotalIsLastStart ==
  ASSUME IInv
  PROVE  TotalSize = StartOf(N)
  <1> DEFINE Rotated == {k \in Nat : k <= N => StartOf(k) =
               IF out_offs + k <= N THEN ArrayStart(out_offs + k) - ArrayStart(out_offs)
               ELSE ArrayStart(N) - ArrayStart(out_offs) + ArrayStart(out_offs + k - N)}
  <1>1. N \in Nat /\ N > 0 /\ out_offs \in 0 .. N - 1
    BY NAssumption DEF IInv, TypeOK, Slots
  <1>2. 0 \in Rotated
    BY <1>1, Starts, ArrayStarts
  <1>3. ASSUME NEW k \in Nat, k \in Rotated
        PROVE  k + 1 \in Rotated
    <2> SUFFICES ASSUME k + 1 <= N
                 PROVE  StartOf(k + 1) =
                          IF out_offs + k + 1 <= N THEN ArrayStart(out_offs + k + 1) - ArrayStart(out_offs)
                          ELSE ArrayStart(N) - ArrayStart(out_offs) + ArrayStart(out_offs + k + 1 - N)
      BY <1>1
    <2>1. k \in Slots /\ k \in 0 .. N
      BY <1>1 DEF Slots
    <2>2. StartOf(k + 1) = StartOf(k) + entry[At(k)].size
      BY <2>1, Starts
    <2>3. CASE out_offs + k < N
      <3>1. out_offs + k \in Slots /\ At(k) = out_offs + k
        BY <1>1, <2>3 DEF Slots, At
      <3>2. ArrayStart(out_offs + k + 1) = ArrayStart(out_offs + k) + entry[out_offs + k].size
        BY <3>1, ArrayStarts
      <3>3. StartOf(k) = ArrayStart(out_offs + k) - ArrayStart(out_offs)
        BY <1>1, <1>3, <2>1, <2>3
      <3>4. ArrayStart(out_offs + k) \in Nat /\ ArrayStart(out_offs) \in Nat
        BY <1>1, <2>1, <2>3, ArrayStarts
      <3>5. entry[out_offs + k].size \in Nat
        BY <3>1 DEF IInv, TypeOK, Entry
      <3>6. QED
        BY <1>1, <2>2, <2>3, <3>1, <3>2, <3>3, <3>4, <3>5
    <2>4. CASE out_offs + k >= N
      <3> DEFINE wrapped == out_offs + k - N
      <3>1. wrapped \in Slots /\ At(k) = wrapped /\ wrapped \in 0 .. N /\ out_offs + k + 1 - N = wrapped + 1
        BY <1>1, <2>1, <2>4 DEF Slots, At
      <3>2. StartOf(k) = ArrayStart(N) - ArrayStart(out_offs) + ArrayStart(wrapped)
        BY <1>1, <1>3, <2>1, <2>4, ArrayStarts
      <3>3. ~(out_offs + k + 1 <= N)
        BY <1>1, <2>1, <2>4
      <3> HIDE DEF wrapped
      <3>4. ArrayStart(wrapped + 1) = ArrayStart(wrapped) + entry[wrapped].size
        BY <3>1, ArrayStarts
      <3>5. /\ ArrayStart(N) \in Nat /\ ArrayStart(out_offs) \in Nat /\ ArrayStart(wrapped) \in Nat
            /\ entry[wrapped].size \in Nat
        BY <1>1, <3>1, ArrayStarts DEF IInv, TypeOK, Entry
      <3>6. QED
        BY <2>2, <3>1, <3>2, <3>3, <3>4, <3>5
    <2>5. QED
      BY <1>1, <2>1, <2>3, <2>4
  <1>4. Nat \subseteq Rotated
    <2> HIDE DEF Rotated
    <2>1. QED
      BY <1>2, <1>3, SetInduction
  <1>5. N \in Rotated
    BY <1>1, <1>4
  <1>6. QED
    BY <1>1, <1>5, ArrayStarts DEF TotalSize

\* No entry ends beyond the total.
LEMMA ArrayEndsInTotal ==
  ASSUME IInv, NEW slot \in Slots
  PROVE  /\ ArrayStart(slot) \in Nat /\ entry[slot].size \in Nat
         /\ ArrayStart(slot) + entry[slot].size <= TotalSize
  <1> DEFINE end == slot + 1
             NotAfter == {k \in Nat : end + k <= N => ArrayStart(end) <= ArrayStart(end + k)}
  <1>1. N \in Nat /\ end \in 0 .. N /\ slot \in 0 .. N
    BY NAssumption DEF Slots
  <1>2. \A k \in 0 .. N : ArrayStart(k) \in Nat
    BY ArrayStarts
  <1> HIDE DEF end
  <1>3. 0 \in NotAfter
    <2>1. end + 0 = end /\ ArrayStart(end) \in Nat
      BY <1>1, <1>2
    <2>2. QED
      BY <2>1
  <1>4. ASSUME NEW k \in Nat, k \in NotAfter
        PROVE  k + 1 \in NotAfter
    <2> SUFFICES ASSUME end + (k + 1) <= N
                 PROVE  ArrayStart(end) <= ArrayStart(end + (k + 1))
      BY <1>4
    <2> DEFINE i == end + k
    <2>1. i \in Slots /\ i \in 0 .. N /\ i + 1 \in 0 .. N /\ end + (k + 1) = i + 1 /\ i <= N
      BY <1>1 DEF Slots
    <2>2. ArrayStart(end) <= ArrayStart(i)
      BY <1>4, <2>1
    <2> HIDE DEF i
    <2>3. ArrayStart(i + 1) = ArrayStart(i) + entry[i].size
      BY <2>1, ArrayStarts
    <2>4. entry[i].size \in Nat
      BY <2>1 DEF IInv, TypeOK, Entry
    <2>5. ArrayStart(end) \in Nat /\ ArrayStart(i) \in Nat
      BY <1>1, <1>2, <2>1
    <2>6. ArrayStart(end) <= ArrayStart(i + 1)
      BY <2>2, <2>3, <2>4, <2>5
    <2>7. QED
      BY <2>1, <2>6
  <1>5. Nat \subseteq NotAfter
    <2> HIDE DEF NotAfter
    <2>1. QED
      BY <1>3, <1>4, SetInduction
  <1>6. ArrayStart(end) <= ArrayStart(N)
    <2> DEFINE k == N - end
    <2>1. k \in Nat /\ end + k = N /\ end + k <= N
      BY <1>1
    <2> HIDE DEF k
    <2>2. k \in NotAfter
      BY <1>5, <2>1
    <2>3. QED
      BY <2>1, <2>2
  <1>7. ArrayStart(end) = ArrayStart(slot) + entry[slot].size
    BY ArrayStarts DEF end
  <1>8. ArrayStart(slot) \in Nat /\ entry[slot].size \in Nat
    BY <1>1, <1>2 DEF IInv, TypeOK, Entry
  <1>9. QED
    BY <1>6, <1>7, <1>8 DEF TotalSize

\* Until the ring wraps the two orders are the same.
LEMMA OrdersAgree ==
  ASSUME IInv, ~full
  PROVE  /\ \A k \in Slots : At(k) = k
         /\ \A k : StartOf(k) = ArrayStart(k)
  <1>1. \A k \in Slots : At(k) = k
    BY NAssumption DEF IInv, OffsetsDescribeEntries, At, Slots
  <1>2. VisitedSizes = ArraySizes
    BY <1>1 DEF VisitedSizes, ArraySizes
  <1>3. \A k : StartOf(k) = SumBefore(VisitedSizes, k) /\ ArrayStart(k) = SumBefore(ArraySizes, k)
    BY DEF StartOf, ArrayStart, VisitedSizes, ArraySizes
  <1>4. QED
    BY <1>1, <1>2, <1>3

-----------------------------------------------------------------------------
(* Searching *)

\* The entries that hold a line are the first Count of those visited.
LEMMA VisitedEntries ==
  ASSUME IInv, NEW k \in Slots
  PROVE  /\ k < Count => /\ entry[At(k)].buffptr = Contents[k + 1]
                         /\ Contents[k + 1] \in Lines
                         /\ entry[At(k)].size = Len(Contents[k + 1])
         /\ k >= Count => entry[At(k)].buffptr = NULL /\ entry[At(k)].size = 0
  <1>1. Count \in 0 .. N /\ N \in Nat /\ At(k) \in Slots
    BY CountBounds, AtInSlots, NAssumption
  <1>2. IF entry[At(k)].buffptr = NULL
        THEN entry[At(k)] = NoEntry
        ELSE entry[At(k)].size = Len(entry[At(k)].buffptr)
    BY <1>1 DEF IInv, LinesFitTheirBlocks
  <1>3. CASE k < Count
    <2>1. /\ Contents \in Seq(Lines) /\ Len(Contents) = Count
          /\ Contents[k + 1] = entry[At(k)].buffptr
      BY <1>3, ContentsIsSeq DEF ContentsAreTheLines
    <2>2. Contents[k + 1] \in Lines
      <3>1. k + 1 \in 1 .. Len(Contents)
        BY <1>1, <1>3, <2>1 DEF Slots
      <3>2. QED
        BY <2>1, <3>1, ElementOfSeq
    <2>3. Contents[k + 1] # NULL
      BY <2>2, LinesAreStrings
    <2>4. entry[At(k)].buffptr # NULL
      BY <2>1, <2>3, Zenon
    <2>5. entry[At(k)].size = Len(entry[At(k)].buffptr)
      BY <1>2, <2>4, Zenon
    <2>6. entry[At(k)].size = Len(Contents[k + 1])
      BY <2>1, <2>5, Zenon
    <2>7. ~(k >= Count)
      BY <1>1, <1>3 DEF Slots
    <2>8. QED
      BY <2>1, <2>2, <2>6, <2>7, Zenon
  <1>4. CASE k >= Count
    <2>1. entry[At(k)].buffptr = NULL
      BY <1>1, <1>4, NAssumption DEF IInv, TypeOK, OffsetsDescribeEntries, Count, At, Advance, Slots
    <2>2. entry[At(k)] = NoEntry
      BY <1>2, <2>1
    <2>3. ~(k < Count)
      BY <1>1, <1>4 DEF Slots
    <2>4. QED
      BY <2>1, <2>2, <2>3 DEF NoEntry
  <1>5. QED
    BY <1>1, <1>3, <1>4 DEF Slots

\* The lines, concatenated oldest first.
Concatenation == FlattenSeq(Contents)

\* pre has the first k lines concatenated, for every k.
AreStarts(pre) ==
  HasPrefixes(pre, Contents, Bytes) /\ \A k \in 0 .. Count : Len(pre[k]) = StartOf(k)

LEMMA ContentsIsStrings ==
  ASSUME IInv
  PROVE  /\ Contents \in Seq(Seq(Bytes)) /\ Len(Contents) = Count
         /\ Count \in 0 .. N /\ N \in Nat
  <1> DEFINE Strings == Seq(Bytes)
  <1>1. Contents \in Seq(Lines) /\ Len(Contents) = Count
    BY ContentsIsSeq DEF ContentsAreTheLines
  <1>2. Count \in 0 .. N /\ N \in Nat
    BY CountBounds, NAssumption
  <1>3. Contents \in Seq(Strings)
    <2> HIDE DEF Strings
    <2>1. \A i \in 1 .. Len(Contents) : Contents[i] \in Strings
      BY <1>1, ElementOfSeq, LinesAssumption DEF Strings
    <2>2. Contents = [i \in 1 .. Len(Contents) |-> Contents[i]] /\ Len(Contents) \in Nat
      BY <1>1
    <2>3. QED
      BY <2>1, <2>2
  <1>4. QED
    BY <1>1, <1>2, <1>3, Zenon

LEMMA StartsExist ==
  ASSUME IInv
  PROVE  \E pre : AreStarts(pre)
  <1>1. /\ Contents \in Seq(Seq(Bytes)) /\ Len(Contents) = Count
        /\ Count \in 0 .. N /\ N \in Nat
    BY ContentsIsStrings
  <1>2. PICK pre : HasPrefixes(pre, Contents, Bytes)
    <2>1. PICK pre \in [0 .. Len(Contents) -> Seq(Bytes)] : ArePrefixes(pre, Contents, Len(Contents))
      BY <1>1, PrefixesExist
    <2>2. QED
      BY <1>1, <2>1 DEF HasPrefixes
  <1> DEFINE Measured == {k \in Nat : k <= Count => Len(pre[k]) = StartOf(k)}
  <1>3. 0 \in Measured
    BY <1>2, Starts, NothingIsSeq DEF HasPrefixes, ArePrefixes
  <1>4. ASSUME NEW k \in Nat, k \in Measured
        PROVE  k + 1 \in Measured
    <2> SUFFICES ASSUME k + 1 <= Count
                 PROVE  Len(pre[k + 1]) = StartOf(k + 1)
      OBVIOUS
    <2>1. k \in Slots /\ k < Count /\ k \in 0 .. Len(Contents) - 1
      BY <1>1 DEF Slots
    <2>2. Len(pre[k]) = StartOf(k)
      BY <1>1, <1>4, <2>1
    <2>3. entry[At(k)].size = Len(Contents[k + 1])
      BY <2>1, VisitedEntries
    <2>4. StartOf(k + 1) = StartOf(k) + Len(Contents[k + 1])
      BY <2>1, <2>3, Starts
    <2>5. Follows(Concatenation, pre[k + 1], pre[k], Contents[k + 1])
      BY <1>2, <2>1, FlattenHasSequence DEF Concatenation
    <2>6. QED
      BY <2>2, <2>4, <2>5 DEF Follows
  <1>5. Nat \subseteq Measured
    <2> HIDE DEF Measured
    <2>1. QED
      BY <1>3, <1>4, SetInduction
  <1>6. \A k \in 0 .. Count : Len(pre[k]) = StartOf(k)
    BY <1>1, <1>5
  <1>7. QED
    BY <1>2, <1>6 DEF AreStarts

\* The bytes of the entry visited at iteration k are those of the concatenation
\* from its start on.
LEMMA BytesOfEntry ==
  ASSUME IInv, NEW k \in Slots, k < Count
  PROVE  /\ StartOf(k) \in Nat /\ StartOf(k + 1) \in Nat /\ entry[At(k)].size \in Nat
         /\ StartOf(k + 1) = StartOf(k) + entry[At(k)].size
         /\ StartOf(k + 1) <= Len(Concatenation)
         /\ \A i \in 1 .. entry[At(k)].size :
              Concatenation[StartOf(k) + i] = entry[At(k)].buffptr[i]
  <1> DEFINE line == Contents[k + 1]
  <1>1. PICK pre : AreStarts(pre)
    BY StartsExist
  <1>2. k \in 0 .. Len(Contents) - 1 /\ k \in 0 .. Count /\ k + 1 \in 0 .. Count /\ k + 1 \in 0 .. N /\ k \in 0 .. N
    BY ContentsIsStrings DEF Slots
  <1>3. Follows(Concatenation, pre[k + 1], pre[k], line)
    <2>1. HasPrefixes(pre, Contents, Bytes)
      BY <1>1 DEF AreStarts
    <2>2. QED
      BY <1>2, <2>1, FlattenHasSequence DEF Concatenation
  <1>4. Len(pre[k]) = StartOf(k) /\ Len(pre[k + 1]) = StartOf(k + 1)
    BY <1>1, <1>2 DEF AreStarts
  <1>5. entry[At(k)].buffptr = line /\ entry[At(k)].size = Len(line) /\ Len(line) \in Nat
    BY VisitedEntries, LinesAreStrings
  <1>6. StartOf(k) \in Nat /\ StartOf(k + 1) \in Nat /\ StartOf(k + 1) = StartOf(k) + entry[At(k)].size
    BY <1>2, Starts
  <1> HIDE DEF line
  <1>7. QED
    BY <1>3, <1>4, <1>5, <1>6 DEF Follows

LEMMA ConcatenationLength ==
  ASSUME IInv
  PROVE  Concatenation \in Seq(Bytes) /\ Len(Concatenation) = StartOf(Count)
  <1>1. PICK pre : AreStarts(pre)
    BY StartsExist
  <1>2. Contents \in Seq(Seq(Bytes)) /\ Len(Contents) = Count /\ Count \in 0 .. Count
    BY ContentsIsStrings
  <1>3. Concatenation = pre[Count]
    BY <1>1, <1>2, FlattenIsLastPrefix DEF AreStarts, HasPrefixes, Concatenation
  <1>4. QED
    BY <1>1, <1>2, <1>3 DEF AreStarts, HasPrefixes

\* The sum over the array is the length of the concatenation.
LEMMA TotalIsLength ==
  ASSUME IInv
  PROVE  TotalSize = Len(Concatenation)
  <1> DEFINE Same == {k \in Nat : Count + k <= N => StartOf(Count + k) = StartOf(Count)}
  <1>1. Count \in 0 .. N /\ N \in Nat
    BY CountBounds, NAssumption
  <1>2. 0 \in Same
    BY <1>1
  <1>3. ASSUME NEW k \in Nat, k \in Same
        PROVE  k + 1 \in Same
    <2> SUFFICES ASSUME Count + k + 1 <= N
                 PROVE  StartOf(Count + k + 1) = StartOf(Count)
      BY <1>1
    <2>1. Count + k \in Slots /\ Count + k >= Count
      BY <1>1 DEF Slots
    <2>2. entry[At(Count + k)].size = 0
      BY <2>1, VisitedEntries
    <2>3. StartOf(Count + k) = StartOf(Count)
      BY <1>1, <1>3
    <2>4. StartOf(Count + k) \in Nat
      BY <1>1, <2>3, Starts
    <2>5. StartOf(Count + k + 1) = StartOf(Count + k) + entry[At(Count + k)].size
      BY <2>1, Starts
    <2>6. QED
      BY <2>2, <2>3, <2>4, <2>5
  <1>4. Nat \subseteq Same
    <2> HIDE DEF Same
    <2>1. QED
      BY <1>2, <1>3, SetInduction
  <1>5. N - Count \in Same /\ Count + (N - Count) = N
    BY <1>1, <1>4
  <1>6. StartOf(N) = StartOf(Count)
    BY <1>1, <1>5
  <1>7. QED
    BY <1>6, TotalIsLastStart, ConcatenationLength

\* The entry visited at iteration k has the byte char_offset.
HasByte(k, char_offset) ==
  /\ k \in Slots /\ k < Count
  /\ StartOf(k) <= char_offset /\ char_offset < StartOf(k) + entry[At(k)].size

LEMMA MatchesHaveByte ==
  ASSUME IInv, NEW char_offset \in Nat
  PROVE  Matches(char_offset) = {k \in Slots : HasByte(k, char_offset)}
  <1>1. ASSUME NEW k \in Slots, k < Count
        PROVE  \A j \in 0 .. k : entry[At(j)].buffptr # NULL
    <2> TAKE j \in 0 .. k
    <2>1. j \in Slots /\ j < Count
      BY <1>1, ContentsIsStrings DEF Slots
    <2>2. QED
      BY <2>1, VisitedEntries, LinesAreStrings
  <1>2. ASSUME NEW k \in Slots, \A j \in 0 .. k : entry[At(j)].buffptr # NULL
        PROVE  k < Count
    <2>1. k \in 0 .. k
      BY DEF Slots
    <2>2. ~(k >= Count)
      BY <1>2, <2>1, VisitedEntries
    <2>3. QED
      BY <2>2, ContentsIsStrings DEF Slots
  <1>3. QED
    BY <1>1, <1>2 DEF Matches, HasByte

LEMMA SomeEntryHasByte ==
  ASSUME IInv, NEW char_offset \in Nat, char_offset < Len(Concatenation)
  PROVE  \E k \in Slots : HasByte(k, char_offset)
  <1> DEFINE Beyond == {k \in 0 .. Count : char_offset < StartOf(k)}
  <1>1. Count \in 0 .. N /\ N \in Nat
    BY ContentsIsStrings
  <1>2. Count \in Beyond /\ Beyond \in SUBSET Nat
    BY <1>1, ConcatenationLength
  <1>3. PICK least \in Beyond : \A k \in Beyond : least <= k
    <2> HIDE DEF Beyond
    <2>1. QED
      BY <1>2, LeastExists
  <1> DEFINE k == least - 1
  <1>4. least # 0
    BY <1>3, Starts
  <1>5. k \in Slots /\ k < Count /\ k \notin Beyond /\ k + 1 = least /\ k \in 0 .. Count /\ k \in 0 .. N
    BY <1>1, <1>3, <1>4 DEF Slots
  <1>6. StartOf(k) \in Nat /\ StartOf(k) <= char_offset
    BY <1>5, Starts
  <1>7. char_offset < StartOf(k + 1) /\ StartOf(k + 1) = StartOf(k) + entry[At(k)].size
    BY <1>3, <1>5, Starts
  <1>8. HasByte(k, char_offset)
    <2> HIDE DEF k
    <2>1. QED
      BY <1>5, <1>6, <1>7 DEF HasByte
  <1>9. QED
    BY <1>5, <1>8

\* From offset on, the entry in slot has the bytes of the concatenation from
\* char_offset on.
HasBytesFrom(slot, offset, char_offset) ==
  /\ slot \in Slots /\ entry[slot].buffptr \in Lines
  /\ entry[slot].size = Len(entry[slot].buffptr)
  /\ offset \in Nat /\ offset < entry[slot].size
  /\ char_offset - offset + entry[slot].size <= Len(Concatenation)
  /\ \A i \in 1 .. entry[slot].size - offset :
       entry[slot].buffptr[offset + i] = Concatenation[char_offset + i]

LEMMA FindInData ==
  ASSUME IInv, NEW char_offset \in Nat, char_offset < Len(Concatenation)
  PROVE  /\ FindEntryOffset(char_offset) \in [slot : Slots, offset : Nat]
         /\ FindEntryOffset(char_offset) # NULL
         /\ HasBytesFrom(FindEntryOffset(char_offset).slot, FindEntryOffset(char_offset).offset, char_offset)
  <1> DEFINE k == Min(Matches(char_offset))
             slot == At(k)
             offset == char_offset - StartOf(k)
             size == entry[slot].size
             line == entry[slot].buffptr
  <1>1. Matches(char_offset) # {} /\ Matches(char_offset) \in SUBSET Nat
    BY MatchesHaveByte, SomeEntryHasByte DEF Slots
  <1>2. HasByte(k, char_offset)
    BY <1>1, MatchesHaveByte, MinIsMember
  <1>3. FindEntryOffset(char_offset) = [slot |-> slot, offset |-> offset]
    BY <1>1, Zenon DEF FindEntryOffset
  <1> HIDE DEF k
  <1>4. /\ k \in Slots /\ k < Count
        /\ StartOf(k) <= char_offset /\ char_offset < StartOf(k) + size
    BY <1>2 DEF HasByte
  <1>5. /\ StartOf(k) \in Nat /\ StartOf(k + 1) = StartOf(k) + size
        /\ StartOf(k + 1) <= Len(Concatenation)
        /\ size \in Nat
        /\ \A i \in 1 .. size : Concatenation[StartOf(k) + i] = line[i]
    BY <1>4, BytesOfEntry
  <1>6. slot \in Slots /\ line \in Lines /\ size = Len(line)
    BY <1>4, AtInSlots, VisitedEntries
  <1> HIDE DEF slot
  <1>7. offset \in Nat /\ offset < size /\ char_offset = StartOf(k) + offset
    BY <1>4, <1>5
  <1> HIDE DEF size, line, offset
  <1>8. char_offset - offset + size <= Len(Concatenation)
    BY <1>5, <1>7
  <1>9. ASSUME NEW i \in 1 .. size - offset
        PROVE  line[offset + i] = Concatenation[char_offset + i]
    <2> DEFINE j == offset + i
    <2>1. j \in 1 .. size /\ char_offset + i = StartOf(k) + j
      BY <1>5, <1>7
    <2> HIDE DEF j
    <2>2. line[j] = Concatenation[char_offset + i]
      BY <1>5, <2>1
    <2>3. QED
      BY <2>2 DEF j
  <1>10. HasBytesFrom(slot, offset, char_offset)
    BY <1>6, <1>7, <1>8, <1>9 DEF HasBytesFrom, size, line
  <1>11. [slot |-> slot, offset |-> offset] \in [slot : Slots, offset : Nat]
    BY <1>6, <1>7
  <1>12. [slot |-> slot, offset |-> offset] # NULL
    <2>1. [slot |-> slot, offset |-> offset] \in [slot : Nat, offset : Nat]
      BY <1>6, <1>7 DEF Slots
    <2>2. QED
      BY <2>1, LinesAssumption
  <1>13. QED
    BY <1>3, <1>10, <1>11, <1>12

LEMMA FindBeyondData ==
  ASSUME IInv, NEW char_offset \in Nat, char_offset >= Len(Concatenation)
  PROVE  FindEntryOffset(char_offset) = NULL
  <1>1. ASSUME NEW k \in Slots, HasByte(k, char_offset)
        PROVE  FALSE
    <2>1. k < Count /\ char_offset < StartOf(k) + entry[At(k)].size
      BY <1>1 DEF HasByte
    <2>2. /\ StartOf(k) + entry[At(k)].size \in Nat
          /\ StartOf(k) + entry[At(k)].size <= Len(Concatenation)
      BY <2>1, BytesOfEntry
    <2>3. Len(Concatenation) \in Nat
      BY ConcatenationLength
    <2>4. QED
      BY <2>1, <2>2, <2>3
  <1>2. Matches(char_offset) = {}
    BY <1>1, MatchesHaveByte
  <1>3. QED
    BY <1>2 DEF FindEntryOffset

\* A search finds the byte at char_offset of the lines concatenated oldest first,
\* and nothing beyond their end.
THEOREM FindsTheByte == Spec => []FindIsByteOfConcatenation
  <1> DEFINE byteAt(char_offset) ==
        LET found == FindEntryOffset(char_offset)
        IN  IF found = NULL THEN NULL ELSE entry[found.slot].buffptr[found.offset + 1]
  <1>1. ASSUME IInv, NEW char_offset \in Nat
        PROVE  byteAt(char_offset) = IF char_offset < Len(Concatenation)
                                     THEN Concatenation[char_offset + 1] ELSE NULL
    <2>1. CASE char_offset < Len(Concatenation)
      <3> DEFINE found == FindEntryOffset(char_offset)
      <3>1. found # NULL /\ HasBytesFrom(found.slot, found.offset, char_offset)
        BY <1>1, <2>1, FindInData
      <3> HIDE DEF found
      <3>2. entry[found.slot].size \in Nat
        BY <3>1, LinesAreStrings DEF HasBytesFrom
      <3>3. 1 \in 1 .. entry[found.slot].size - found.offset
        BY <3>1, <3>2 DEF HasBytesFrom
      <3>4. entry[found.slot].buffptr[found.offset + 1] = Concatenation[char_offset + 1]
        BY <3>1, <3>3 DEF HasBytesFrom
      <3>5. QED
        BY <2>1, <3>1, <3>4 DEF found
    <2>2. CASE ~(char_offset < Len(Concatenation))
      <3>1. char_offset >= Len(Concatenation)
        BY <1>1, <2>2, ConcatenationLength
      <3>2. QED
        BY <1>1, <2>2, <3>1, FindBeyondData
    <2>3. QED
      BY <2>1, <2>2
  <1>2. IInv => FindIsByteOfConcatenation
    <2> HIDE DEF byteAt
    <2>1. IInv => \A char_offset \in 0 .. Len(Concatenation) + 1 :
                    byteAt(char_offset) = IF char_offset < Len(Concatenation)
                                          THEN Concatenation[char_offset + 1] ELSE NULL
      BY <1>1
    <2>2. QED
      BY <2>1, Zenon DEF FindIsByteOfConcatenation, byteAt, Concatenation
  <1>3. QED
    BY <1>2, Invariance, PTL
=============================================================================
