--------------------------- MODULE CircularBuffer ---------------------------
(***************************************************************************)
(* aesd-char-driver/aesd-circular-buffer.c: a ring of N entries, each a    *)
(* heap block holding one line.  All locking is the caller's, so every     *)
(* operation is one step here; AesdCharDriver says who calls it when.      *)
(*                                                                         *)
(* Offsets are the C fields.  in_offs is the slot written LAST (it is      *)
(* advanced before a write, unless the ring is empty), out_offs the slot   *)
(* of the oldest line.                                                     *)
(***************************************************************************)
EXTENDS Integers, SequencesExt

CONSTANTS
  N,      \* AESDCHAR_MAX_WRITE_OPERATIONS_SUPPORTED
  Lines,  \* the byte strings that callers add
  NULL    \* the null pointer

\* The offsets are uint8_t and are incremented before they are compared with N.
ASSUME NAssumption == N \in 1 .. 255

Bytes == UNION {Range(line) : line \in Lines}

\* Lines are byte strings, and NULL is neither one of them nor a result of find_entry.
ASSUME LinesAssumption ==
  Lines \subseteq Seq(Bytes) /\ NULL \notin Lines \cup [slot : Nat, offset : Nat]

VARIABLES
  entry,     \* the N entries
  in_offs,   \* slot of the newest line
  out_offs,  \* slot of the oldest line
  full,      \* set when in_offs wraps around for the first time
  empty      \* no line was ever added

vars == << entry, in_offs, out_offs, full, empty >>

Slots == 0 .. N - 1

\* An entry: the bytes [0, size) of its block (NULL: no block), and how many
\* bytes the block has room for.
Entry == [buffptr : Lines \cup {NULL}, size : Nat, allocated : Nat]

NoEntry == [buffptr |-> NULL, size |-> 0, allocated |-> 0]

TypeOK ==
  /\ entry \in [Slots -> Entry]
  /\ in_offs \in Slots
  /\ out_offs \in Slots
  /\ full \in BOOLEAN
  /\ empty \in BOOLEAN

-----------------------------------------------------------------------------
(* aesd_circular_buffer_init *)

Init ==
  /\ entry = [i \in Slots |-> NoEntry]
  /\ in_offs = 0
  /\ out_offs = 0
  /\ full = FALSE
  /\ empty = TRUE

-----------------------------------------------------------------------------
(* aesd_circular_buffer_add_entry *)

\* Mutant: wraps one slot too late.
AdvancePastEnd(i) == IF i + 1 > N THEN 0 ELSE i + 1

\* buff_index_cycle_increase
Advance(i) == IF i + 1 >= N THEN 0 ELSE i + 1

\* Mutant: set when the last slot is written.
FullAtLastSlot == full \/ (~empty /\ in_offs + 2 >= N)

\* The flag after increase_end_buff_index: in_offs coming back to 0 sets it for good.
FullAfter == full \/ (~empty /\ in_offs + 1 >= N)

\* The slot the next line goes to.
WriteSlot == IF empty THEN in_offs ELSE Advance(in_offs)

\* Mutant: a block is never grown.
NeedsFirstAllocation(slot, line) == entry[slot].buffptr = NULL

\* The block of an entry is created on first use and grown when it is too small.
NeedsAllocation(slot, line) ==
  entry[slot].buffptr = NULL \/ entry[slot].allocated < Len(line)

\* The entry once line has been copied into it.
Stored(slot, line) ==
  [buffptr   |-> line,
   size      |-> Len(line),
   allocated |-> IF NeedsAllocation(slot, line) THEN Len(line) ELSE entry[slot].allocated]

\* Mutant: the oldest line is overwritten, but stays the oldest.
AdvanceInOffsOnly ==
  /\ empty' = FALSE
  /\ full' = FullAfter
  /\ in_offs' = WriteSlot
  /\ out_offs' = out_offs

AdvanceOffsets ==
  /\ empty' = FALSE
  /\ full' = FullAfter
  /\ in_offs' = WriteSlot
  /\ out_offs' = IF ~empty /\ FullAfter THEN Advance(out_offs) ELSE out_offs

AddEntry(line) ==
  /\ AdvanceOffsets
  /\ entry' = [entry EXCEPT ![WriteSlot] = Stored(WriteSlot, line)]

\* The allocation fails.  Its result is not tested, so the call never gets past
\* the copy to NULL: this is the state it leaves behind.
AddEntryOutOfMemory(line) ==
  /\ NeedsAllocation(WriteSlot, line)
  /\ AdvanceOffsets
  /\ entry' = [entry EXCEPT ![WriteSlot].buffptr = NULL, ![WriteSlot].allocated = Len(line)]

Next == \E line \in Lines : AddEntry(line)

Spec == Init /\ [][Next]_vars

-----------------------------------------------------------------------------
(* aesd_circular_buffer_find_entry_offset_for_fpos *)

\* The slot visited k iterations after out_offs.
At(k) == IF out_offs + k >= N THEN out_offs + k - N ELSE out_offs + k

\* accumulated_offset after the sizes of k entries were added to it.
SumBefore(sizes, k) ==
  LET accumulated_offset[i \in 0 .. N] ==
        IF i = 0 THEN 0 ELSE accumulated_offset[i - 1] + sizes[i - 1]
  IN  accumulated_offset[k]

\* The first byte of the entry visited at iteration k.
StartOf(k) == SumBefore([j \in Slots |-> entry[At(j)].size], k)

\* Mutant: the first byte of an entry is not one of its bytes.
MatchesAfterFirstByte(char_offset) ==
  {k \in Slots :
     /\ \A j \in 0 .. k : entry[At(j)].buffptr # NULL
     /\ StartOf(k) < char_offset
     /\ char_offset < StartOf(k) + entry[At(k)].size}

\* The iterations that would match: no entry without a block before them, and
\* char_offset in the bytes of the entry.
Matches(char_offset) ==
  {k \in Slots :
     /\ \A j \in 0 .. k : entry[At(j)].buffptr # NULL
     /\ StartOf(k) <= char_offset
     /\ char_offset < StartOf(k) + entry[At(k)].size}

\* The slot and the byte in it of the first match, or NULL.
FindEntryOffset(char_offset) ==
  IF Matches(char_offset) = {}
  THEN NULL
  ELSE LET k == Min(Matches(char_offset))
       IN  [slot |-> At(k), offset |-> char_offset - StartOf(k)]

-----------------------------------------------------------------------------
(* AESD_CIRCULAR_BUFFER_FOREACH visits the slots in the order of the array, *)
(* not from out_offs: these are the sums its users build with it.           *)

\* The sizes of the entries in the slots before slot.
ArrayStart(slot) == SumBefore([i \in Slots |-> entry[i].size], slot)

TotalSize == ArrayStart(N)

-----------------------------------------------------------------------------
(* Properties *)

\* How many entries hold a line, read off the offsets and flags.
Count == IF empty THEN 0 ELSE IF full THEN N ELSE in_offs + 1

\* The lines in the ring, oldest first: the refinement mapping to RecentWrites.
Contents == [k \in 1 .. Count |-> entry[At(k - 1)].buffptr]

\* The flags and offsets describe the entries: before the first wrap the lines
\* occupy the slots 0 .. in_offs, after it every slot with the oldest line right
\* after the newest.  add_entry and find_entry both depend on it.
OffsetsDescribeEntries ==
  /\ empty => ~full /\ in_offs = 0
  /\ out_offs = IF full THEN Advance(in_offs) ELSE 0
  /\ \A i \in Slots : entry[i].buffptr # NULL <=> ~empty /\ (full \/ i <= in_offs)

\* The copy into an entry never runs past the end of its block, although blocks
\* are reused for lines of other lengths: the size recorded is the length of the
\* line, and the block has room for it.
LinesFitTheirBlocks ==
  \A i \in Slots :
    IF entry[i].buffptr = NULL
    THEN entry[i] = NoEntry
    ELSE entry[i].size = Len(entry[i].buffptr) /\ entry[i].size <= entry[i].allocated

\* find_entry gives what its comment promises: the byte at char_offset if the
\* lines were concatenated oldest first, and nothing beyond their end.
FindIsByteOfConcatenation ==
  LET bytes == FlattenSeq(Contents)
      byteAt(char_offset) ==
        LET found == FindEntryOffset(char_offset)
        IN  IF found = NULL THEN NULL ELSE entry[found.slot].buffptr[found.offset + 1]
  IN  \A char_offset \in 0 .. Len(bytes) + 1 :
        byteAt(char_offset) = IF char_offset < Len(bytes) THEN bytes[char_offset + 1] ELSE NULL

Abstract == INSTANCE RecentWrites WITH Capacity <- N, recent <- Contents

\* Whatever the slots and flags do, callers see the last N lines, oldest first.
KeepsRecentWrites == Abstract!Spec
=============================================================================
