--------------------------- MODULE AesdCharDriver ---------------------------
(***************************************************************************)
(* aesd-char-driver/main.c: the file operations of /dev/aesdchar, called   *)
(* by several threads on several open files, around the ring of            *)
(* CircularBuffer.                                                         *)
(*                                                                         *)
(* The device is protected by an rw_semaphore.  A call takes it, works and *)
(* releases it in separate steps; a write takes it once per line.          *)
(*                                                                         *)
(* External, modelled from how main.c relies on it: the VFS hands read and *)
(* write a copy of the file position and stores it back when the call did  *)
(* not fail, while llseek and ioctl set filp->f_pos themselves; it calls   *)
(* the driver only for open files, so private_data is never NULL in a call.*)
(***************************************************************************)
EXTENDS Integers, SequencesExt

CONSTANTS
  N,                \* AESDCHAR_MAX_WRITE_OPERATIONS_SUPPORTED
  NULL,             \* the null pointer
  NL,               \* the newline
  Procs,            \* threads
  Files,            \* struct files that can be open on the device
  Writes,           \* buffers passed to write
  ReadCounts,       \* counts passed to read
  Offsets,          \* offsets passed to llseek and ioctl
  MaxCalls,         \* bound on the calls of a behaviour
  Failing           \* the allocations that may fail: of the user's buffer, of the cache, in the ring

Bytes == {NL} \cup UNION {Range(buf) : buf \in Writes}

ASSUME DriverAssumption ==
  /\ N \in 1 .. 255
  /\ Writes \subseteq Seq(Bytes)
  /\ NULL \notin Procs \cup Bytes \cup Seq(Bytes) \cup [slot : Nat, offset : Nat]
  /\ Offsets \subseteq Int
  /\ ReadCounts \subseteq Nat \ {0}
  /\ MaxCalls \in Nat
  /\ Failing \subseteq {"user", "cache", "ring"}

VARIABLES
  entry, in_offs, out_offs, full, empty,  \* aesd_device.circular_buffer
  cache,   \* aesd_device.cache: the line that is not complete yet
  rwsem,   \* aesd_device.rwsem
  opened,  \* the files that are open
  f_pos,   \* the position of each file
  call,    \* the call each thread is in
  calls    \* how many calls were made

ring == << entry, in_offs, out_offs, full, empty >>
vars == << ring, cache, rwsem, opened, f_pos, call, calls >>

Ring == INSTANCE CircularBuffer WITH Lines <- Seq(Bytes)

\* Mutant: a buffer with two newlines is not cut.
WholeBuffer(buf) == buf

\* The part of buf up to and including its first newline, or all of it.
NextPiece(buf) ==
  LET newline == SelectInSeq(buf, LAMBDA byte : byte = NL)
  IN  IF newline = 0 THEN buf ELSE SubSeq(buf, 1, newline)

EndsLine(piece) == Last(piece) = NL

-----------------------------------------------------------------------------

NoCall == [at |-> "idle"]

\* What a call knows when it waits for the semaphore.
ReadCall(filp, count) ==
  [op |-> "read", at |-> "lock", filp |-> filp, pos |-> f_pos[filp], count |-> count]

WriteCall(filp, buf) ==
  [op |-> "write", at |-> "lock", filp |-> filp, pos |-> f_pos[filp], count |-> Len(buf), rest |-> buf]

LlseekCall(filp, offset, whence) ==
  [op |-> "llseek", at |-> "lock", filp |-> filp, offset |-> offset, whence |-> whence]

IoctlCall(filp, write_cmd, write_cmd_offset) ==
  [op |-> "ioctl", at |-> "lock", filp |-> filp,
   write_cmd |-> write_cmd, write_cmd_offset |-> write_cmd_offset]

\* What is left of a read or write once its result is known.
Result(c, pos, ret, data) ==
  [op |-> c.op, at |-> "return", filp |-> c.filp, pos |-> pos, count |-> c.count, ret |-> ret, data |-> data]

Failed(c) == Result(c, c.pos, -1, << >>)

TypeOK ==
  /\ Ring!TypeOK
  /\ cache \in Ring!Entry
  /\ rwsem \in [readers : SUBSET Procs, writer : Procs \cup {NULL}]
  /\ opened \subseteq Files
  /\ f_pos \in [Files -> Nat]
  /\ \A p \in Procs :
       \/ call[p] = NoCall
       \/ /\ call[p].op \in {"read", "write", "llseek", "ioctl"}
          /\ call[p].at \in {"lock", "locked", "copy", "return", "dead"}
          /\ call[p].filp \in opened
  /\ calls \in 0 .. MaxCalls

Init ==
  /\ Ring!Init
  /\ cache = Ring!NoEntry
  /\ rwsem = [readers |-> {}, writer |-> NULL]
  /\ opened = {}
  /\ f_pos = [filp \in Files |-> 0]
  /\ call = [p \in Procs |-> NoCall]
  /\ calls = 0

-----------------------------------------------------------------------------
(* Calls arrive *)

\* aesd_open
Open(filp) ==
  /\ filp \notin opened
  /\ opened' = opened \cup {filp}
  /\ UNCHANGED << ring, cache, rwsem, f_pos, call, calls >>

\* aesd_release, when the last reference to the file is gone
Release(filp) ==
  /\ filp \in opened
  /\ \A p \in Procs : call[p] # NoCall => call[p].filp # filp
  /\ opened' = opened \ {filp}
  /\ f_pos' = [f_pos EXCEPT ![filp] = 0]
  /\ UNCHANGED << ring, cache, rwsem, call, calls >>

Begin(p, c) ==
  /\ call[p] = NoCall
  /\ calls < MaxCalls
  /\ calls' = calls + 1
  /\ call' = [call EXCEPT ![p] = c]
  /\ UNCHANGED << ring, cache, rwsem, opened, f_pos >>

BeginRead(p) ==
  \E filp \in opened, count \in ReadCounts : Begin(p, ReadCall(filp, count))

\* An empty write returns before it needs the semaphore.
BeginWrite(p) ==
  \E filp \in opened, buf \in Writes :
    LET c == WriteCall(filp, buf)
    IN  Begin(p, IF buf = << >> THEN Result(c, c.pos, 0, << >>) ELSE c)

\* The user's buffer cannot be allocated or copied.
BeginWriteFails(p) ==
  /\ "user" \in Failing
  /\ \E filp \in opened, buf \in Writes \ {<< >>} : Begin(p, Failed(WriteCall(filp, buf)))

BeginLlseek(p) ==
  \E filp \in opened, offset \in Offsets, whence \in {"SEEK_SET", "SEEK_CUR", "SEEK_END"} :
    Begin(p, LlseekCall(filp, offset, whence))

\* aesd_adjust_file_offset refuses larger commands before it needs the semaphore.
BeginIoctl(p) ==
  \E filp \in opened, write_cmd \in 0 .. N - 1, write_cmd_offset \in Offsets \cap Nat :
    Begin(p, IoctlCall(filp, write_cmd, write_cmd_offset))

-----------------------------------------------------------------------------
(* The semaphore *)

\* down_read in aesd_read
DownRead(p) ==
  /\ call[p].at = "lock" /\ call[p].op = "read"
  /\ rwsem.writer = NULL
  /\ rwsem' = [rwsem EXCEPT !.readers = @ \cup {p}]
  /\ call' = [call EXCEPT ![p].at = "locked"]
  /\ UNCHANGED << ring, cache, opened, f_pos, calls >>

\* Mutant: a writer does not wait for the readers.
NoWriter == rwsem.writer = NULL

NobodyInside == rwsem.writer = NULL /\ rwsem.readers = {}

\* down_write in every other call
DownWrite(p) ==
  /\ call[p].at = "lock" /\ call[p].op # "read"
  /\ NobodyInside
  /\ rwsem' = [rwsem EXCEPT !.writer = p]
  /\ call' = [call EXCEPT ![p].at = "locked"]
  /\ UNCHANGED << ring, cache, opened, f_pos, calls >>

UpRead(p) == rwsem' = [rwsem EXCEPT !.readers = @ \ {p}]

UpWrite == rwsem' = [rwsem EXCEPT !.writer = NULL]

Locked(p, op) == call[p].at = "locked" /\ call[p].op = op

-----------------------------------------------------------------------------
(* aesd_read *)

ReadFind(p) ==
  /\ Locked(p, "read")
  /\ LET found == Ring!FindEntryOffset(call[p].pos)
     IN  IF found = NULL
         THEN /\ call' = [call EXCEPT ![p] = Result(@, @.pos, 0, << >>)]
              /\ UpRead(p)
         ELSE /\ call' = [call EXCEPT ![p] =
                   [op |-> "read", at |-> "copy", filp |-> @.filp, pos |-> @.pos, count |-> @.count,
                    found |-> found]]
              /\ UNCHANGED rwsem
  /\ UNCHANGED << ring, cache, opened, f_pos, calls >>

\* What the entry has from the position on, and no more than was asked for.
ReadCopy(p) ==
  /\ call[p].at = "copy"
  /\ LET c               == call[p]
         bytes_available == entry[c.found.slot].size - c.found.offset
         bytes_to_copy   == Min({bytes_available, c.count})
         data            == SubSeq(entry[c.found.slot].buffptr, c.found.offset + 1,
                                   c.found.offset + bytes_to_copy)
     IN  call' = [call EXCEPT ![p] = Result(c, c.pos + bytes_to_copy, bytes_to_copy, data)]
  /\ UpRead(p)
  /\ UNCHANGED << ring, cache, opened, f_pos, calls >>

\* copy_to_user faults
ReadCopyFails(p) ==
  /\ call[p].at = "copy"
  /\ call' = [call EXCEPT ![p] = Failed(@)]
  /\ UpRead(p)
  /\ UNCHANGED << ring, cache, opened, f_pos, calls >>

-----------------------------------------------------------------------------
(* aesd_write: the loop over the lines of the buffer *)

\* Mutant: the loop is left after the first piece.
FirstPieceOnly(c, pos) == Result(c, pos, c.count, << >>)

\* The call after a piece was stored and moved its position to pos.
PieceWritten(c, pos) ==
  LET rest == SubSeq(c.rest, Len(NextPiece(c.rest)) + 1, Len(c.rest))
  IN  IF rest = << >>
      THEN Result(c, pos, c.count, << >>)
      ELSE [c EXCEPT !.at = "lock", !.pos = pos, !.rest = rest]

\* Mutant: what is cached is forgotten.
CompletedAlone(piece) == piece

\* The piece once it is appended to what is cached.
Completed(piece) == IF cache.buffptr = NULL THEN piece ELSE cache.buffptr \o piece

\* write_with_cache.  The position moves by the whole line, cached bytes included.
WriteWithCache(p) ==
  /\ Locked(p, "write") /\ EndsLine(NextPiece(call[p].rest))
  /\ LET line == Completed(NextPiece(call[p].rest))
     IN  /\ Ring!AddEntry(line)
         /\ call' = [call EXCEPT ![p] = PieceWritten(@, @.pos + Len(line))]
  /\ cache' = Ring!NoEntry
  /\ UpWrite
  /\ UNCHANGED << opened, f_pos, calls >>

\* add_to_cache
AddToCache(p) ==
  /\ Locked(p, "write") /\ ~EndsLine(NextPiece(call[p].rest))
  /\ LET piece == NextPiece(call[p].rest)
     IN  /\ cache' = [buffptr   |-> Completed(piece),
                      size      |-> cache.size + Len(piece),
                      allocated |-> cache.allocated + Len(piece)]
         /\ call' = [call EXCEPT ![p] = PieceWritten(@, @.pos + Len(piece))]
  /\ UpWrite
  /\ UNCHANGED << ring, opened, f_pos, calls >>

\* The cache cannot be created or grown: the rest of the buffer is dropped.
CacheAllocationFails(p) ==
  /\ "cache" \in Failing
  /\ Locked(p, "write")
  /\ EndsLine(NextPiece(call[p].rest)) => cache.buffptr # NULL
  /\ call' = [call EXCEPT ![p] = Failed(@)]
  /\ UpWrite
  /\ UNCHANGED << ring, cache, opened, f_pos, calls >>

\* The ring cannot allocate its copy: the thread dies in add_entry with the
\* semaphore held.
RingAllocationFails(p) ==
  /\ "ring" \in Failing
  /\ Locked(p, "write") /\ EndsLine(NextPiece(call[p].rest))
  /\ Ring!AddEntryOutOfMemory(Completed(NextPiece(call[p].rest)))
  /\ call' = [call EXCEPT ![p].at = "dead"]
  /\ UNCHANGED << cache, rwsem, opened, f_pos, calls >>

-----------------------------------------------------------------------------

\* The VFS after aesd_read and aesd_write
Return(p) ==
  /\ call[p].at = "return"
  /\ f_pos' = IF call[p].ret >= 0 THEN [f_pos EXCEPT ![call[p].filp] = call[p].pos] ELSE f_pos
  /\ call' = [call EXCEPT ![p] = NoCall]
  /\ UNCHANGED << ring, cache, rwsem, opened, calls >>

\* Mutant: a refused seek keeps the semaphore.
ReturnSeekLocked(p, pos, valid) ==
  /\ f_pos' = IF valid THEN [f_pos EXCEPT ![call[p].filp] = pos] ELSE f_pos
  /\ call' = [call EXCEPT ![p] = NoCall]
  /\ IF valid THEN UpWrite ELSE UNCHANGED rwsem
  /\ UNCHANGED << ring, cache, opened, calls >>

\* A seek to pos returns, or fails and leaves the position alone.
ReturnSeek(p, pos, valid) ==
  /\ f_pos' = IF valid THEN [f_pos EXCEPT ![call[p].filp] = pos] ELSE f_pos
  /\ call' = [call EXCEPT ![p] = NoCall]
  /\ UpWrite
  /\ UNCHANGED << ring, cache, opened, calls >>

\* Mutant: positions before the beginning are not refused.
BeforeEnd(newpos) == newpos <= Ring!TotalSize

InDevice(newpos) == 0 <= newpos /\ newpos <= Ring!TotalSize

\* aesd_llseek
Llseek(p) ==
  /\ Locked(p, "llseek")
  /\ LET c      == call[p]
         base   == CASE c.whence = "SEEK_SET" -> 0
                     [] c.whence = "SEEK_CUR" -> f_pos[c.filp]
                     [] c.whence = "SEEK_END" -> Ring!TotalSize
         newpos == base + c.offset
     IN  ReturnSeek(p, newpos, InDevice(newpos))

\* Mutant: commands are counted from one.
CommandEnd(c) == Ring!ArrayStart(c.write_cmd + 1) + c.write_cmd_offset

CommandPosition(c) == Ring!ArrayStart(c.write_cmd) + c.write_cmd_offset

\* Mutant: the offset may be the size of the command.
InOrAfterCommand(c) == c.write_cmd_offset <= entry[c.write_cmd].size

InCommand(c) == c.write_cmd_offset < entry[c.write_cmd].size

\* aesd_adjust_file_offset
AdjustFileOffset(p) ==
  /\ Locked(p, "ioctl")
  /\ ReturnSeek(p, CommandPosition(call[p]), InCommand(call[p]))

-----------------------------------------------------------------------------

BeginCall(p) ==
  BeginRead(p) \/ BeginWrite(p) \/ BeginWriteFails(p) \/ BeginLlseek(p) \/ BeginIoctl(p)

\* A thread goes on with its call.
Work(p) ==
  \/ ReadFind(p) \/ ReadCopy(p) \/ ReadCopyFails(p)
  \/ WriteWithCache(p) \/ AddToCache(p) \/ CacheAllocationFails(p) \/ RingAllocationFails(p)
  \/ Llseek(p) \/ AdjustFileOffset(p) \/ Return(p)

Next ==
  \/ \E filp \in Files : Open(filp) \/ Release(filp)
  \/ \E p \in Procs : BeginCall(p) \/ DownRead(p) \/ DownWrite(p) \/ Work(p)

\* Threads in a call are scheduled, and the semaphore, which queues its waiters,
\* starves none of them.
Fairness ==
  \A p \in Procs : WF_vars(Work(p)) /\ SF_vars(DownRead(p)) /\ SF_vars(DownWrite(p))

Spec == Init /\ [][Next]_vars

FairSpec == Spec /\ Fairness

-----------------------------------------------------------------------------
(* Properties *)

HasNewline(bytes) == \E i \in DOMAIN bytes : bytes[i] = NL

\* However writes are cut and interleaved, an entry of the ring is one whole line,
\* never empty and never two, and the cache is the beginning of one: write_with_cache
\* and add_to_cache leave nothing behind that the next call would take for part of
\* its own line.
LinesAreWhole ==
  /\ \A i \in 0 .. N - 1 :
       LET line == entry[i].buffptr
       IN  line # NULL => EndsLine(line) /\ ~HasNewline(Front(line))
  /\ IF cache.buffptr = NULL
     THEN cache = Ring!NoEntry
     ELSE /\ cache.buffptr # << >> /\ ~HasNewline(cache.buffptr)
          /\ cache.size = Len(cache.buffptr) /\ cache.size <= cache.allocated

\* What the device holds, as its users see it.
Kept == FlattenSeq(Ring!Contents)

\* The write that a call stands for: what is left of it, or how it ended.
WriteOf(c) ==
  IF c = NoCall \/ c.op # "write" THEN [at |-> "none"]
  ELSE IF c.at # "return" THEN [at |-> "writing", rest |-> c.rest]
  ELSE [at |-> IF c.ret = c.count THEN "stored" ELSE "failed"]

Log == INSTANCE LineLog WITH
  Capacity <- N,
  Writers  <- Procs,
  Buffers  <- Writes,
  MayFail  <- Failing # {},
  recent   <- Ring!Contents,
  partial  <- IF cache.buffptr = NULL THEN << >> ELSE cache.buffptr,
  writing  <- [p \in Procs |-> WriteOf(call[p])]

\* Concurrent writes append their pieces to one log.  A write that returns its count
\* has appended each of its pieces once and in order, none lost, repeated or torn,
\* although it releases the semaphore between its lines; one that fails returns an
\* error and has appended the first few of them.
ImplementsLineLog == Log!Spec

ReadReturns(p) ==
  call[p].at \in {"locked", "copy"} /\ call[p].op = "read" /\ call'[p].at = "return"

\* What a read hands out, for a call that did not fail.
IsAtPosition(p) ==
  LET c == call'[p]
  IN  /\ c.data = SubSeq(Kept, call[p].pos + 1, call[p].pos + c.ret)
      /\ c.ret <= c.count
      /\ c.ret = 0 <=> call[p].pos >= Len(Kept)
      /\ c.pos = call[p].pos + c.ret

\* A read returns bytes that are in the device at its position when it returns, at
\* least one unless the position is past the end: nothing is written between the
\* search and the copy.
ReadGivesBytesAtPosition ==
  [][\A p \in Procs : ReadReturns(p) => call'[p].ret = -1 \/ IsAtPosition(p)]_vars

Seeking(p) == call[p].at = "locked" /\ call[p].op \in {"llseek", "ioctl"} /\ call'[p] = NoCall

IsInData(p) ==
  LET pos == f_pos'[call[p].filp]
  IN  pos \in 0 .. Len(Kept) /\ (call[p].op = "ioctl" => pos < Len(Kept))

\* A seek that moves the position moves it to a byte of the device, or, for llseek,
\* to its end.
SeeksLandInData ==
  [][\A p \in Procs : Seeking(p) /\ f_pos' # f_pos => IsInData(p)]_vars

\* A seek to a byte of the write_cmd-th line kept, counted from the oldest, moves the
\* position to that byte; a seek to a byte the line does not have leaves it alone.
FindsCommand(p) ==
  LET c    == call[p]
      line == entry[Ring!At(c.write_cmd)]
  IN  f_pos' = IF c.write_cmd_offset < line.size
               THEN [f_pos EXCEPT ![c.filp] = Ring!StartOf(c.write_cmd) + c.write_cmd_offset]
               ELSE f_pos

\* AESDCHAR_IOCSEEKTO finds the command as long as the ring has not wrapped.
CommandSeekBeforeWrap ==
  [][\A p \in Procs : Seeking(p) /\ call[p].op = "ioctl" /\ ~full => FindsCommand(p)]_vars

\* aesd_ioctl.h: write_cmd is "the zero referenced write command to seek into".
CommandSeekFindsCommand ==
  [][\A p \in Procs : Seeking(p) /\ call[p].op = "ioctl" => FindsCommand(p)]_vars

\* Every call returns, because no path out of a call keeps the semaphore, unless a
\* thread died in the ring: that one does keep it.
CallsReturn ==
  \A p \in Procs :
    call[p] # NoCall ~> (call[p] = NoCall \/ \E q \in Procs : call[q].at = "dead")
=============================================================================
