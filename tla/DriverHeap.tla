----------------------------- MODULE DriverHeap -----------------------------
(***************************************************************************)
(* Who owns which kernel memory block in aesd-char-driver: the blocks that *)
(* main.c and the ring allocate, resize and free over the life of the      *)
(* module.  The bytes in the blocks are AesdCharDriver's subject; here a   *)
(* write is some number of whole lines and perhaps a partial one, and the  *)
(* ring is the slot its next line goes to.                                 *)
(*                                                                         *)
(* krealloc (external) resizes a block in place, moves it to a new block   *)
(* and frees the old one, or fails and leaves the old one alone.  main.c   *)
(* tests what it gets: when an allocation fails there, nothing is          *)
(* allocated and the write goes to its end, which it may do at any point   *)
(* here.  The ring does not test it: its entry has lost the old block, and *)
(* the thread dies writing through NULL, with the lock held and its buffer *)
(* never freed.  Writers work under the write lock of the device, so that  *)
(* only the writer that holds it has steps between the calls of            *)
(* write_with_cache.                                                       *)
(***************************************************************************)
EXTENDS Naturals, FiniteSets, Functions

CONSTANTS
  N,         \* AESDCHAR_MAX_WRITE_OPERATIONS_SUPPORTED
  NULL,      \* the null pointer
  Procs,     \* threads that write; one that died may be followed by another of its name
  Blocks,    \* addresses kmalloc can return
  Outcomes   \* for each caller of krealloc, what it may do: "in_place", "moved", "fails"

ASSUME HeapAssumption ==
  /\ N \in Nat \ {0}
  /\ NULL \notin Blocks \cup Procs
  /\ Outcomes \in [{"add_to_cache", "write_with_cache", "add_entry"} -> SUBSET {"in_place", "moved", "fails"}]

VARIABLES
  live,       \* the blocks that are allocated
  loaded,     \* the module is loaded
  cache,      \* aesd_device.cache.buffptr
  entry,      \* the buffptr of each entry of the ring
  slot,       \* the entry the next line goes to
  writer,     \* the thread that is in write_with_cache, or NULL
  stage,      \* what it calls next there, or that it died and left the lock held
  user,       \* user_data_buff of each thread that is in aesd_write, or NULL
  complete,   \* complete_buff of the writer while it is in write_with_cache, or NULL
  lost        \* history: the blocks whose only pointer went with a thread that died

vars == << live, loaded, cache, entry, slot, writer, stage, user, complete, lost >>

Slots == 0 .. N - 1
Pointer == Blocks \cup {NULL}

TypeOK ==
  /\ live \subseteq Blocks
  /\ loaded \in BOOLEAN
  /\ cache \in Pointer
  /\ entry \in [Slots -> Pointer]
  /\ slot \in Slots
  /\ writer \in Procs \cup {NULL}
  /\ stage \in {"idle", "add_entry", "kfree", "died"}
  /\ user \in [Procs -> Pointer]
  /\ complete \in Pointer
  /\ lost \subseteq Blocks

Init ==
  /\ live = {}
  /\ loaded = FALSE
  /\ cache = NULL
  /\ entry = [i \in Slots |-> NULL]
  /\ slot = 0
  /\ writer = NULL
  /\ stage = "idle"
  /\ user = [p \in Procs |-> NULL]
  /\ complete = NULL
  /\ lost = {}

-----------------------------------------------------------------------------
(* The allocator *)

Allocated(block) == block \in Blocks \ live

\* block is what krealloc(old) returned: old itself, or a new block once old is freed.
Resized(old, block, caller) ==
  \/ /\ "in_place" \in Outcomes[caller]
     /\ block = old
     /\ live' = live
  \/ /\ "moved" \in Outcomes[caller]
     /\ Allocated(block)
     /\ live' = (live \ {old}) \cup {block}

-----------------------------------------------------------------------------
(* aesd_init_module and aesd_cleanup_module *)

\* The device is all zeroes and its lock a new one.
Load ==
  /\ ~loaded
  /\ loaded' = TRUE
  /\ cache' = NULL
  /\ entry' = [i \in Slots |-> NULL]
  /\ slot' = 0
  /\ writer' = NULL
  /\ stage' = "idle"
  /\ UNCHANGED << live, user, complete, lost >>

\* Mutant: a partial line is forgotten.
EntryBlocks == Range(entry)

\* What aesd_cleanup_module frees.
DeviceBlocks == Range(entry) \cup {cache}

\* No thread is in the driver when it is unloaded: its files are closed, those of a
\* thread that died too.
Unload ==
  /\ loaded
  /\ \A p \in Procs : user[p] = NULL
  /\ loaded' = FALSE
  /\ live' = live \ DeviceBlocks
  /\ cache' = NULL
  /\ UNCHANGED << entry, slot, writer, stage, user, complete, lost >>

-----------------------------------------------------------------------------
(* aesd_write *)

BeginWrite(p) ==
  /\ loaded
  /\ user[p] = NULL
  /\ \E block \in Blocks :
       /\ Allocated(block)
       /\ live' = live \cup {block}
       /\ user' = [user EXCEPT ![p] = block]
  /\ UNCHANGED << loaded, cache, entry, slot, writer, stage, complete, lost >>

\* Every piece is stored, or one failed.
EndWrite(p) ==
  /\ user[p] # NULL
  /\ writer = p => stage = "died"
  /\ live' = live \ {user[p]}
  /\ user' = [user EXCEPT ![p] = NULL]
  /\ UNCHANGED << loaded, cache, entry, slot, writer, stage, complete, lost >>

\* add_to_cache: all of it under the write lock.
AddToCache(p) ==
  /\ user[p] # NULL
  /\ writer = NULL
  /\ \E block \in Blocks :
       /\ cache' = block
       /\ IF cache = NULL
          THEN Allocated(block) /\ live' = live \cup {block}
          ELSE Resized(cache, block, "add_to_cache")
  /\ UNCHANGED << loaded, entry, slot, writer, stage, user, complete, lost >>

\* write_with_cache takes the lock and, when there is a cache, enlarges it for the line.
EnlargeCache(p) ==
  /\ user[p] # NULL
  /\ writer = NULL
  /\ writer' = p
  /\ stage' = "add_entry"
  /\ IF cache = NULL
     THEN UNCHANGED << live, complete >>
     ELSE \E block \in Blocks : Resized(cache, block, "write_with_cache") /\ complete' = block
  /\ UNCHANGED << loaded, cache, entry, slot, user, lost >>

\* Mutant: the slots do not come round.
SlotAfterLast == slot + 1

NextSlot == (slot + 1) % N

\* aesd_circular_buffer_add_entry copies the line into a block of the ring's own:
\* the one the entry has, when the line fits.
AddEntry(p) ==
  /\ writer = p /\ stage = "add_entry"
  /\ \E block \in Blocks :
       /\ entry' = [entry EXCEPT ![slot] = block]
       /\ IF entry[slot] = NULL
          THEN Allocated(block) /\ live' = live \cup {block}
          ELSE \/ block = entry[slot] /\ live' = live
               \/ Resized(entry[slot], block, "add_entry")
  /\ slot' = NextSlot
  /\ IF cache = NULL
     THEN writer' = NULL /\ stage' = "idle"
     ELSE writer' = p /\ stage' = "kfree"
  /\ UNCHANGED << loaded, cache, user, complete, lost >>

\* There is no block for the copy: what krealloc returned takes the place of the block
\* the entry had, and the thread dies before it frees anything.
AddEntryOutOfMemory(p) ==
  /\ "fails" \in Outcomes["add_entry"]
  /\ writer = p /\ stage = "add_entry"
  /\ entry' = [entry EXCEPT ![slot] = NULL]
  /\ slot' = NextSlot
  /\ stage' = "died"
  /\ user' = [user EXCEPT ![p] = NULL]
  /\ complete' = NULL
  /\ lost' = lost \cup ({entry[slot], user[p], complete} \ {NULL, cache})
  /\ UNCHANGED << live, loaded, cache, writer >>

\* Mutant: the cache keeps its pointer.
FreeCacheOnly(p) ==
  /\ writer = p /\ stage = "kfree"
  /\ live' = live \ {cache}
  /\ complete' = NULL
  /\ writer' = NULL
  /\ stage' = "idle"
  /\ UNCHANGED << loaded, cache, entry, slot, user, lost >>

\* kfree(cache.buffptr), and the cache is empty again.
FreeCache(p) ==
  /\ writer = p /\ stage = "kfree"
  /\ live' = live \ {cache}
  /\ cache' = NULL
  /\ complete' = NULL
  /\ writer' = NULL
  /\ stage' = "idle"
  /\ UNCHANGED << loaded, entry, slot, user, lost >>

-----------------------------------------------------------------------------

Next ==
  \/ Load \/ Unload
  \/ \E p \in Procs :
       \/ BeginWrite(p) \/ EndWrite(p) \/ AddToCache(p)
       \/ EnlargeCache(p) \/ AddEntry(p) \/ AddEntryOutOfMemory(p) \/ FreeCache(p)

Spec == Init /\ [][Next]_vars

-----------------------------------------------------------------------------
(* Properties *)

\* The pointers the driver still uses.
DevicePointers == IF loaded THEN (Range(entry) \cup {cache, complete}) \ {NULL} ELSE {}
UserPointers == Range(user) \ {NULL}

\* Every block that was allocated can still be freed by someone, and once the module
\* is unloaded there is none: a line that replaces another reuses or frees its block,
\* and a write whose allocations fail in main.c gives its buffer back.  Only a thread
\* that dies in the ring takes blocks with it: its buffer, and the block its entry had.
NoBlockIsLost == live \subseteq DevicePointers \cup UserPointers \cup lost

\* No pointer the driver will read through or free leads to a block already freed, and no
\* block is freed by two owners: an entry never shares the block of another entry, of the
\* cache or of a write in progress, although lines are handed from one to the other.
OneOwnerEach ==
  /\ DevicePointers \cup UserPointers \subseteq live
  /\ \A i, j \in Slots : loaded /\ i # j /\ entry[i] = entry[j] => entry[i] = NULL
  /\ Range(entry) \cap ({cache} \cup UserPointers) \cap DevicePointers = {}
  /\ cache \notin UserPointers
  /\ \A p, q \in Procs : p # q /\ user[p] = user[q] => user[p] = NULL

\* aesd-circular-buffer.c: the memory passed to add_entry has "a lifetime managed by
\* the caller": write_with_cache frees the buffer it passed, which must be allocated.
CallerFreesWhatItAllocated == stage = "kfree" => cache \in live
=============================================================================
