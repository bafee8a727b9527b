--------------------------- MODULE DriverHeapProofs ---------------------------
(***************************************************************************)
(* What the run of MCDriverHeap checks for two entries, two writers and    *)
(* six blocks, for every ring, any number of writers and every heap.       *)
(*                                                                         *)
(* Ownership holds as long as krealloc does not move the cache for the     *)
(* line that completes it.  What it may do elsewhere is left open: it may  *)
(* fail, and the ring's failure leaves blocks that nobody owns.            *)
(***************************************************************************)
EXTENDS DriverHeap, TLAPS

CacheStaysForLines == "moved" \notin Outcomes["write_with_cache"]

\* The thread inside write_with_cache has its own buffer, and what it will free is
\* the cache.
WriterIsInside ==
  /\ writer = NULL <=> stage = "idle"
  /\ stage \in {"add_entry", "kfree"} => loaded /\ user[writer] # NULL
  /\ complete = IF stage \in {"add_entry", "kfree"} THEN cache ELSE NULL
  /\ stage = "kfree" => cache # NULL

UnloadedIsEmpty == ~loaded => cache = NULL /\ \A p \in Procs : user[p] = NULL

\* The blocks that are allocated are those of an entry, of the cache or of a write, and
\* the lost ones.
LiveIsOwned ==
  \A b \in Blocks :
    b \in live <=> \/ b = cache
                   \/ loaded /\ \E i \in Slots : entry[i] = b
                   \/ \E p \in Procs : user[p] = b
                   \/ b \in lost

OwnersDiffer ==
  /\ loaded => \A i \in Slots : entry[i] # NULL =>
       /\ entry[i] # cache
       /\ entry[i] \notin lost
       /\ \A j \in Slots : entry[j] = entry[i] => j = i
       /\ \A p \in Procs : user[p] # entry[i]
  /\ \A p \in Procs : user[p] # NULL =>
       /\ user[p] # cache
       /\ user[p] \notin lost
       /\ \A q \in Procs : user[q] = user[p] => q = p
  /\ cache \notin lost

\* The inductive invariant.  NoBlockIsLost and OneOwnerEach follow from the last two
\* parts, which speak of each block and each pair of pointers.
IInv == TypeOK /\ WriterIsInside /\ UnloadedIsEmpty /\ LiveIsOwned /\ OwnersDiffer

-----------------------------------------------------------------------------

LEMMA InitIInv == Init => IInv
  <1> SUFFICES ASSUME Init
               PROVE  IInv
    OBVIOUS
  <1>1. TypeOK
    <2>1. 0 \in Slots
      BY HeapAssumption DEF Slots
    <2>2. QED
      BY <2>1, Zenon DEF Init, TypeOK, Pointer
  <1>2. WriterIsInside /\ UnloadedIsEmpty /\ LiveIsOwned /\ OwnersDiffer
    BY HeapAssumption DEF Init, WriterIsInside, UnloadedIsEmpty, LiveIsOwned, OwnersDiffer, Slots
  <1>3. QED
    BY <1>1, <1>2 DEF IInv

\* Types do not depend on what krealloc does.
LEMMA NextTypeOK == TypeOK /\ [Next]_vars => TypeOK'
  <1> SUFFICES ASSUME TypeOK, [Next]_vars
               PROVE  TypeOK'
    OBVIOUS
  <1> USE HeapAssumption DEF TypeOK, Slots, Pointer
  <1>1. CASE Load
    BY <1>1 DEF Load
  <1>2. CASE Unload
    BY <1>2 DEF Unload
  <1>3. ASSUME NEW p \in Procs, BeginWrite(p)
        PROVE  TypeOK'
    BY <1>3 DEF BeginWrite, Allocated
  <1>4. ASSUME NEW p \in Procs, EndWrite(p)
        PROVE  TypeOK'
    BY <1>4 DEF EndWrite
  <1>5. ASSUME NEW p \in Procs, AddToCache(p)
        PROVE  TypeOK'
    BY <1>5 DEF AddToCache, Resized, Allocated
  <1>6. ASSUME NEW p \in Procs, EnlargeCache(p)
        PROVE  TypeOK'
    BY <1>6 DEF EnlargeCache, Resized, Allocated
  <1>7. ASSUME NEW p \in Procs, AddEntry(p)
        PROVE  TypeOK'
    BY <1>7 DEF AddEntry, Resized, Allocated, NextSlot
  <1>8. ASSUME NEW p \in Procs, FreeCache(p)
        PROVE  TypeOK'
    BY <1>8 DEF FreeCache
  <1>9. ASSUME NEW p \in Procs, AddEntryOutOfMemory(p)
        PROVE  TypeOK'
    BY <1>9 DEF AddEntryOutOfMemory, NextSlot
  <1>10. CASE UNCHANGED vars
    BY <1>10 DEF vars
  <1>11. QED
    BY <1>1, <1>2, <1>3, <1>4, <1>5, <1>6, <1>7, <1>8, <1>9, <1>10 DEF Next

-----------------------------------------------------------------------------
(* Each action keeps the parts of the invariant *)

LEMMA LoadKeepsOwners ==
  ASSUME IInv, Load
  PROVE  (WriterIsInside /\ UnloadedIsEmpty /\ LiveIsOwned /\ OwnersDiffer)'
  <1>1. WriterIsInside' /\ UnloadedIsEmpty'
    BY HeapAssumption DEF IInv, TypeOK, WriterIsInside, UnloadedIsEmpty, Load, Pointer
  <1>2. LiveIsOwned'
    BY HeapAssumption DEF IInv, TypeOK, WriterIsInside, UnloadedIsEmpty, LiveIsOwned, OwnersDiffer, Load, Slots, Pointer
  <1>3. OwnersDiffer'
    BY HeapAssumption DEF IInv, TypeOK, WriterIsInside, UnloadedIsEmpty, LiveIsOwned, OwnersDiffer, Load, Slots, Pointer
  <1>4. QED
    BY <1>1, <1>2, <1>3

LEMMA UnloadKeepsOwners ==
  ASSUME IInv, Unload
  PROVE  (WriterIsInside /\ UnloadedIsEmpty /\ LiveIsOwned /\ OwnersDiffer)'
  <1>1. WriterIsInside' /\ UnloadedIsEmpty'
    BY HeapAssumption DEF IInv, TypeOK, WriterIsInside, UnloadedIsEmpty, Unload, Pointer
  <1>2. LiveIsOwned'
    BY HeapAssumption DEF IInv, TypeOK, WriterIsInside, UnloadedIsEmpty, LiveIsOwned, OwnersDiffer, Unload, Slots, Pointer, Range, DeviceBlocks
  <1>3. OwnersDiffer'
    BY HeapAssumption DEF IInv, TypeOK, WriterIsInside, UnloadedIsEmpty, LiveIsOwned, OwnersDiffer, Unload, Slots, Pointer
  <1>4. QED
    BY <1>1, <1>2, <1>3

LEMMA BeginWriteKeepsOwners ==
  ASSUME IInv, NEW p \in Procs, BeginWrite(p)
  PROVE  (WriterIsInside /\ UnloadedIsEmpty /\ LiveIsOwned /\ OwnersDiffer)'
  <1>1. WriterIsInside' /\ UnloadedIsEmpty'
    BY HeapAssumption DEF IInv, TypeOK, WriterIsInside, UnloadedIsEmpty, BeginWrite, Pointer
  <1>2. LiveIsOwned'
    BY HeapAssumption DEF IInv, TypeOK, WriterIsInside, UnloadedIsEmpty, LiveIsOwned, OwnersDiffer, BeginWrite, Slots, Pointer, Allocated
  <1>3. OwnersDiffer'
    BY HeapAssumption DEF IInv, TypeOK, WriterIsInside, UnloadedIsEmpty, LiveIsOwned, OwnersDiffer, BeginWrite, Slots, Pointer, Allocated
  <1>4. QED
    BY <1>1, <1>2, <1>3

LEMMA EndWriteKeepsOwners ==
  ASSUME IInv, NEW p \in Procs, EndWrite(p)
  PROVE  (WriterIsInside /\ UnloadedIsEmpty /\ LiveIsOwned /\ OwnersDiffer)'
  <1>1. WriterIsInside' /\ UnloadedIsEmpty'
    BY HeapAssumption DEF IInv, TypeOK, WriterIsInside, UnloadedIsEmpty, EndWrite, Pointer
  <1>2. LiveIsOwned'
    BY HeapAssumption DEF IInv, TypeOK, WriterIsInside, UnloadedIsEmpty, LiveIsOwned, OwnersDiffer, EndWrite, Slots, Pointer
  <1>3. OwnersDiffer'
    BY HeapAssumption DEF IInv, TypeOK, WriterIsInside, UnloadedIsEmpty, LiveIsOwned, OwnersDiffer, EndWrite, Slots, Pointer
  <1>4. QED
    BY <1>1, <1>2, <1>3

LEMMA AddToCacheKeepsOwners ==
  ASSUME IInv, NEW p \in Procs, AddToCache(p)
  PROVE  (WriterIsInside /\ UnloadedIsEmpty /\ LiveIsOwned /\ OwnersDiffer)'
  <1>1. WriterIsInside' /\ UnloadedIsEmpty'
    BY HeapAssumption DEF IInv, TypeOK, WriterIsInside, UnloadedIsEmpty, AddToCache, Pointer
  <1>2. LiveIsOwned'
    BY HeapAssumption DEF IInv, TypeOK, WriterIsInside, UnloadedIsEmpty, LiveIsOwned, OwnersDiffer, AddToCache, Slots, Pointer, Allocated, Resized
  <1>3. OwnersDiffer'
    BY HeapAssumption DEF IInv, TypeOK, WriterIsInside, UnloadedIsEmpty, LiveIsOwned, OwnersDiffer, AddToCache, Slots, Pointer, Allocated, Resized
  <1>4. QED
    BY <1>1, <1>2, <1>3

LEMMA EnlargeCacheKeepsOwners ==
  ASSUME IInv, CacheStaysForLines, NEW p \in Procs, EnlargeCache(p)
  PROVE  (WriterIsInside /\ UnloadedIsEmpty /\ LiveIsOwned /\ OwnersDiffer)'
  <1>1. WriterIsInside' /\ UnloadedIsEmpty'
    BY HeapAssumption DEF IInv, TypeOK, WriterIsInside, UnloadedIsEmpty, CacheStaysForLines, EnlargeCache, Pointer, Allocated, Resized
  <1>2. LiveIsOwned'
    BY HeapAssumption DEF IInv, TypeOK, WriterIsInside, UnloadedIsEmpty, LiveIsOwned, OwnersDiffer, CacheStaysForLines, EnlargeCache, Slots, Pointer, Allocated, Resized
  <1>3. OwnersDiffer'
    BY HeapAssumption DEF IInv, TypeOK, WriterIsInside, UnloadedIsEmpty, LiveIsOwned, OwnersDiffer, CacheStaysForLines, EnlargeCache, Slots, Pointer, Allocated, Resized
  <1>4. QED
    BY <1>1, <1>2, <1>3

LEMMA AddEntryKeepsOwners ==
  ASSUME IInv, NEW p \in Procs, AddEntry(p)
  PROVE  (WriterIsInside /\ UnloadedIsEmpty /\ LiveIsOwned /\ OwnersDiffer)'
  <1>1. WriterIsInside' /\ UnloadedIsEmpty'
    BY HeapAssumption DEF IInv, TypeOK, WriterIsInside, UnloadedIsEmpty, AddEntry, Pointer
  <1>2. LiveIsOwned'
    BY HeapAssumption DEF IInv, TypeOK, WriterIsInside, UnloadedIsEmpty, LiveIsOwned, OwnersDiffer, AddEntry, Slots, Pointer, Allocated, Resized
  <1>3. OwnersDiffer'
    BY HeapAssumption DEF IInv, TypeOK, WriterIsInside, UnloadedIsEmpty, LiveIsOwned, OwnersDiffer, AddEntry, Slots, Pointer, Allocated, Resized
  <1>4. QED
    BY <1>1, <1>2, <1>3

LEMMA AddEntryOutOfMemoryKeepsOwners ==
  ASSUME IInv, NEW p \in Procs, AddEntryOutOfMemory(p)
  PROVE  (WriterIsInside /\ UnloadedIsEmpty /\ LiveIsOwned /\ OwnersDiffer)'
  <1>1. WriterIsInside' /\ UnloadedIsEmpty'
    BY HeapAssumption DEF IInv, TypeOK, WriterIsInside, UnloadedIsEmpty, AddEntryOutOfMemory, Pointer
  <1>2. LiveIsOwned'
    BY HeapAssumption DEF IInv, TypeOK, WriterIsInside, UnloadedIsEmpty, LiveIsOwned, OwnersDiffer, AddEntryOutOfMemory, Slots, Pointer
  <1>3. OwnersDiffer'
    BY HeapAssumption DEF IInv, TypeOK, WriterIsInside, UnloadedIsEmpty, LiveIsOwned, OwnersDiffer, AddEntryOutOfMemory, Slots, Pointer
  <1>4. QED
    BY <1>1, <1>2, <1>3

LEMMA FreeCacheKeepsOwners ==
  ASSUME IInv, NEW p \in Procs, FreeCache(p)
  PROVE  (WriterIsInside /\ UnloadedIsEmpty /\ LiveIsOwned /\ OwnersDiffer)'
  <1>1. WriterIsInside' /\ UnloadedIsEmpty'
    BY HeapAssumption DEF IInv, TypeOK, WriterIsInside, UnloadedIsEmpty, FreeCache, Pointer
  <1>2. LiveIsOwned'
    BY HeapAssumption DEF IInv, TypeOK, WriterIsInside, UnloadedIsEmpty, LiveIsOwned, OwnersDiffer, FreeCache, Slots, Pointer
  <1>3. OwnersDiffer'
    BY HeapAssumption DEF IInv, TypeOK, WriterIsInside, UnloadedIsEmpty, LiveIsOwned, OwnersDiffer, FreeCache, Slots, Pointer
  <1>4. QED
    BY <1>1, <1>2, <1>3

LEMMA NextIInv ==
  ASSUME CacheStaysForLines
  PROVE  IInv /\ [Next]_vars => IInv'
  <1> SUFFICES ASSUME IInv, [Next]_vars
               PROVE  (WriterIsInside /\ UnloadedIsEmpty /\ LiveIsOwned /\ OwnersDiffer)'
    BY NextTypeOK DEF IInv
  <1>1. CASE UNCHANGED vars
    BY <1>1 DEF IInv, vars, WriterIsInside, UnloadedIsEmpty, LiveIsOwned, OwnersDiffer
  <1>2. CASE Next
    BY <1>2, LoadKeepsOwners, UnloadKeepsOwners, BeginWriteKeepsOwners, EndWriteKeepsOwners,
       AddToCacheKeepsOwners, EnlargeCacheKeepsOwners, AddEntryKeepsOwners,
       AddEntryOutOfMemoryKeepsOwners, FreeCacheKeepsOwners
    DEF Next
  <1>3. QED
    BY <1>1, <1>2

-----------------------------------------------------------------------------
(* The theorems *)

\* Every pointer of the driver is a block or NULL, whatever krealloc does.
THEOREM TypeCorrect == Spec => []TypeOK
  <1>1. Init => TypeOK
    BY InitIInv DEF IInv
  <1>2. QED
    BY <1>1, NextTypeOK, PTL DEF Spec

\* The inductive invariant holds in every reachable state.
THEOREM Invariance ==
  ASSUME CacheStaysForLines
  PROVE  Spec => []IInv
  BY InitIInv, NextIInv, PTL DEF Spec

\* No block is lost but by a thread that dies in the ring, which takes its buffer and
\* the block its entry had: lines that replace others, partial lines and writes that
\* fail in main.c give theirs back, and an unloaded module has none.
THEOREM NothingLost ==
  ASSUME CacheStaysForLines
  PROVE  Spec => []NoBlockIsLost
  <1>1. IInv => NoBlockIsLost
    BY HeapAssumption
    DEF IInv, TypeOK, UnloadedIsEmpty, LiveIsOwned, NoBlockIsLost, DevicePointers, UserPointers, Range, Pointer
  <1>2. QED
    BY <1>1, Invariance, PTL

EveryBlockIsOwned == live \subseteq DevicePointers \cup UserPointers

\* If the ring's allocations succeed, no thread dies there and no block is lost at all.
THEOREM NothingLostWithMemory ==
  ASSUME CacheStaysForLines, "fails" \notin Outcomes["add_entry"]
  PROVE  Spec => []EveryBlockIsOwned
  <1>1. Init => lost = {}
    BY DEF Init
  <1>2. lost = {} /\ [Next]_vars => (lost = {})'
    BY DEF Next, vars, Load, Unload, BeginWrite, EndWrite, AddToCache, EnlargeCache, AddEntry,
           AddEntryOutOfMemory, FreeCache
  <1>3. NoBlockIsLost /\ lost = {} => EveryBlockIsOwned
    BY DEF NoBlockIsLost, EveryBlockIsOwned
  <1>4. Spec => []NoBlockIsLost
    BY NothingLost
  <1>5. QED
    BY <1>1, <1>2, <1>3, <1>4, PTL DEF Spec

\* Each block has one owner, which holds no pointer to a block already freed.
THEOREM OneOwner ==
  ASSUME CacheStaysForLines
  PROVE  Spec => []OneOwnerEach
  <1>1. IInv => OneOwnerEach
    BY HeapAssumption
    DEF IInv, TypeOK, WriterIsInside, UnloadedIsEmpty, LiveIsOwned, OwnersDiffer, OneOwnerEach,
        DevicePointers, UserPointers, Range, Pointer
  <1>2. QED
    BY <1>1, Invariance, PTL

\* write_with_cache frees a block that is allocated, provided krealloc did not move it
\* there: the run heap_moves shows what happens if it did.
THEOREM CallerFreesItsBlock ==
  ASSUME CacheStaysForLines
  PROVE  Spec => []CallerFreesWhatItAllocated
  <1>1. IInv => CallerFreesWhatItAllocated
    BY HeapAssumption
    DEF IInv, TypeOK, WriterIsInside, LiveIsOwned, CallerFreesWhatItAllocated, Pointer
  <1>2. QED
    BY <1>1, Invariance, PTL
=============================================================================
