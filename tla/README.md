# A verification of aesdchar and aesdsocket

TLA+ models of the two programs at the heart of this repository, with the TLC
configurations that check them and the proofs that TLAPS checks:

* `aesd-char-driver/`: a kernel module, `/dev/aesdchar`, that keeps the last ten
  lines written to it;
* `server/`: `aesdsocket`, a server on port 9000 that appends what its clients
  send to a file, or to that device, and sends the whole file back.

Paths are relative to the root of the repository's sources.

## Inventory

| component | state it keeps | operations | who calls it | what is hard |
|---|---|---|---|---|
| circular buffer (`aesd-circular-buffer.c/.h`) | ten entries (block, size, room), `in_offs`, `out_offs`, `full`, `empty` | init, add_entry, find_entry, FOREACH | the driver, under its lock | wrap-around, reuse of blocks, failed allocations |
| file operations (`main.c`) | the ring, the cached partial line, a read/write semaphore, the position of each open file | open, release, read, write, llseek, ioctl | any number of threads, through the VFS | a write takes the lock once per line; search and copy; seeks after wrap |
| driver memory (`main.c`, `aesd-circular-buffer.c`) | blocks owned by the ring, the cache and each write | kmalloc, krealloc, kfree; module init and cleanup | as above | ownership moves between functions; krealloc may move |
| requests (`aesdsocket.c: handle_client, timestamp_callback`, `safefile.c`) | one file descriptor with one position, a mutex; a buffer and a status per client | recv, seek command, write, sync, read and send; a timestamp every ten seconds | a thread per client, a timer thread | many system calls under one mutex, one call without it; partial reads, writes and sends |
| life cycle (`aesdsocket.c: run_server, server_exit`, `safefile.c`, `list.c`) | list of clients with status and thread, `g_loggingFile`, `g_SignalNum` | accept, open, find and join, create thread, exit | main thread, client threads, signals, timer | signals against blocking calls; order of destruction; reuse of list items |
| daemon start-up (`aesdsocket.c: main, init_base_socket, init_demon, send_exit_signal_to_parent`) | the parent's pid, the socket and the other descriptors | bind, fork, detach, handlers, timer, list; the parent waits for SIGQUIT | main, in two processes | signals before the wait; a failure in one process that another must report |
| linked list (`list.c/.h`) | doubly linked items, tagged union | create, delete, push, emplace, insert, set, get, remove, clear, find, for_each | life cycle | pointers at the ends, allocated values, failures half way |
| system calls (`examples/systemcalls/systemcalls.c`) | the children of the program | do_system, do_exec, do_exec_redirect | tests | `wait` takes any child; children that cannot run their command |
| other exercises (`examples/threading/`, `finder-app/writer.c`, `finder.sh`) | none that lasts | a thread that holds a mutex, writing a file | tests | |
| scripts, tests, automation | none | | | |

The server in its device build is a client of the driver: `safe_file_*` make
system calls on `/dev/aesdchar`, and its seek command ends in `aesd_ioctl`. The
driver calls the ring with its semaphore held. The main thread of the server and
its client threads share the list items, the safe file and `g_SignalNum`. The
daemon and its parent share nothing but a signal and its value.

What makes each of them correct:

* **ring**: callers see the last N lines, oldest first; a search finds the byte
  of their concatenation; a block is never written past its end.
* **file operations**: writes, however they are cut and interleaved, are appended
  to one log of whole lines; a read gives bytes of that log; a seek leads to a
  byte of it; every call returns.
* **driver memory**: each block has exactly one owner until it is freed.
* **requests**: packets stay whole, the file only grows, a reply is the content,
  every request ends.
* **life cycle**: a thread owns its list item until it is joined, clients find
  the file open, a signal ends the server once every client has been served and joined.
* **daemon start-up**: the process that was started ends, and its exit code is how
  the start-up went; the daemon keeps its socket and no other descriptor.
* **linked list**: callers see a sequence; every block has one owner.
* **system calls**: a call returns, with the status of its command, leaves no
  child behind, and a redirected command's output is what the file holds.

## Modules

```
RecentWrites <---implements--- CircularBuffer          DriverHeap    SystemCalls
     ^                               ^
     | INSTANCE                      | INSTANCE (Ring)
  LineLog <-----implements----- AesdCharDriver         ServerLifecycle
                                                             ^
ItemSequence <--implements----- LinkedList                   | EXTENDS
                                                           Daemon
SocketRequests
```

The proofs about a module are in a module that extends it, named `...Proofs`; those
about `ServerLifecycle` are in `DaemonProofs`, with those about the program that begins
it. `AesdCharDriverProofs` instantiates `CircularBufferProofs` for its ring, and
`SequenceLemmas` holds what is true of sequences alone.
`MC*.tla` give values to constants that a `.cfg` cannot write; the modules
without one are checked directly. Each module marks as *Mutant* the few
operators that repeat a definition with a plausible mistake: replacing the
definition by its mutant makes the property named in `PROJECT.json` fail, which
shows that the property depends on that piece of code.

### CircularBuffer

The fields of `struct aesd_circular_buffer` are the variables; `entry[i]` is a
record of the line in the block, `size` and `allocated`. An operation is one step,
because the caller holds its lock. `AddEntry` is `aesd_circular_buffer_add_entry`:
`AdvanceOffsets` moves the offsets and `Stored` is the entry after the allocation
and the copy. `AddEntryOutOfMemory` is the same call when the allocation it does
not test fails; only the driver uses it. `FindEntryOffset` is the search, written
as the smallest iteration that matches. Bytes of lines are model data: only
lengths and identity matter to the code. A line is taken to be non-empty data of
any length; that `accumulated_offset` is an `int` and the sizes are `size_t` is
left out, since lines of 2 GB cannot be allocated with `kmalloc`.

`RecentWrites` is what callers rely on: `Push` keeps the last `Capacity` lines.
`CircularBuffer` implements it under the mapping `recent <- Contents`.

### AesdCharDriver

`INSTANCE`s the ring and adds the cache, the semaphore, the open files with their
positions, and the call each thread is in. A call is: `Begin...` (arguments
checked, user's buffer copied), `DownRead` or `DownWrite`, its work, and for read
and write `Return`, where the VFS stores the position. `ReadFind` and `ReadCopy`
are separate, since copying to user space may sleep. The loop of `aesd_write` is
a `WriteWithCache` step per newline and one `AddToCache` for the rest, each under
its own lock. The VFS, the semaphore and the allocator are external. ioctl
commands other than the seek, and pointers the VFS never passes, change nothing
and are left out.

`LineLog` is the abstract device: the last lines, a partial line, and the writes under
way, each with what is left of it. A write appends its first piece, up to a newline or
its end, then the next; it is stored when nothing is left, and one that fails
appends no more. `ImplementsLineLog` maps `recent` to the contents of the ring,
`partial` to the cache, and `writing` to the calls of the threads (`WriteOf`), so that a
piece that is skipped, repeated, torn or attributed to a failed write has no
counterpart: a write that returns its count has appended all of it.

### DriverHeap

The same functions, seen through their pointers: which blocks are allocated
(`live`), and the value of `cache.buffptr`, each `entry[i].buffptr`,
`user_data_buff` and `complete_buff`. `write_with_cache` is three steps here,
because krealloc, the call into the ring and kfree each change the heap.
`Outcomes` says what krealloc may do for each of its callers. A failure in `main.c` is
tested there: the write ends, which `EndWrite` allows at any point. In the ring it is
not: `AddEntryOutOfMemory` puts NULL in the place of the block the entry had, and the
thread dies with the lock held. Its buffer, the line that krealloc had moved and the
entry's old block have no pointer any more; the history variable `lost` keeps them, so
that `NoBlockIsLost` can say that nothing else is lost. From then on other writes
can only end; the module can still be unloaded, and loaded with a new lock.

### SocketRequests

Each client's thread is a record of the locals of `handle_client` and of the
safe file function it is in, and each system call a step: recv, lseek, write,
fdatasync, read, send, ioctl. `Lock` and `Unlock` are the mutex of the safe file.
The variable `device` is the build, which never changes; `Failures` says what may
fail in each, and `Leftover` which may find a line of an earlier run. A byte is its
sender, its place in the packet and its kind: text, newline or NUL. `Shapes` are the
packets clients send; `IsLast` is `packet_length`, which stops at a newline or a NUL
anywhere in the buffer, while only a newline ends a line of the device. `taken` is what
was written, in order: a regular file is one sequence that a write overwrites at the
position, the device appends and shows the part up to the last newline (`Size`,
`Content`), and a read of it stops at the end of a line (`Stops`), as `AesdCharDriver`
shows. The device is taken with room for every line. The timer writes its timestamp in
rounds, as clients do, and looks at no result. A send to a client that is gone
returns an error (`SendFails`) or raises SIGPIPE, which nothing handles
(`BreakPipe`): the process ends, and every request with it. The contents of the buffer
beyond what recv gave are left out.

### ServerLifecycle

The main thread follows `run_server` from `check_signal` over listen, accept, the
opening of the file, `list_find_if`, `pthread_join` and `init_client`, and
`server_exit` step by step. Client threads store their status in their list item,
and lock the file for a write and a read. A signal handled by main interrupts
accept only when main is blocked in it. Uses of a safe file that was freed, and
a second join of a thread, are undefined: their outcomes are chosen
nondeterministically: the call fails or succeeds, blocks for ever (`stuck`, with "hang" in
`Failures`), or the process dies (`crashed`).

### Daemon

The program from `main` on. `stage` is the call the start-up makes next, in the
order of `init_base_socket`, `init_demon`, `init_signals_logic` and the first part
of `run_server`; `Fail` is the failure of any of them, with the code the program
ends with and, after the fork, `SendExitSignal`. `fds` is what the descriptors are
open for: `socket` and `open` take the lowest that is closed, `dup2` closes what it
replaces. The parent is three steps: it returns from fork, waits, and exits with
the value it got; SIGQUIT kills it outside of the wait, for it is not blocked. In
the stage "serving" the steps are those of `ServerLifecycle`, which this module
extends; a failure to open the file is reported once more, as in the code.

### LinkedList

`block` is the memory: at each address an item, the block of a large value, or
nothing. `calloc` chooses any free address. The functions of `list.c` that call
each other are operators from a memory to a memory (`AddItem`, `SetItem`,
`RemoveItem`, `ClearItems`, `InsertItem`), in which the pointers are followed and
assigned as in the code, and an action is a call from outside. The loop of `list_clear`
is a recursive function of the number of its iterations, of which there are at most as
many as blocks; so are the iterations of callers. The ten internal
types are the type of the value and whether its data is an address. Items that
were created and not inserted yet are `held`, and `failed` is whether the last call has
returned an error. A call that is refused for its arguments before it has changed
anything is left out; `PushBackFails` is the push that finds its value refused, or no
block for it, once the item is in the list, which `list_push_back_string` forgets to take out
again. A constructor may fail in `list_emplace_back`, which removes the item, and in
`list_item_emplace_struct`, which has replaced the item's value by then (`Set`). A digit is
read through the member `byte`, a `char`: `SignedChar` says whether that is signed, as it
is on the hosts this is built for.

`ItemSequence` is what callers rely on: a sequence of values, appended to, inserted
into, set, removed from and cleared; a call that returns an error has changed nothing.
`LinkedList` implements it under the mapping `items <- Contents`, the values `list_item_get_*`
gives along an iteration.

### SystemCalls

The threads that call, and the children they fork, of which each is a process of
its own with the stages open, dup2, exec and the command. A child that has ended
is kept until a `wait` has taken its status: `wait` takes any, the `waitpid` in
`system` its own. The output file is its bytes, each named by the thread that
asked for the command; two redirected commands write at their own offsets. A signal that
the program handles may interrupt a `wait` while no child has ended (`WaitInterrupted`):
the call fails, and its child is left. History variables remember whether a call met
another call's child, how its own child ended, and how many waits were interrupted.

## Runs

| run | what it shows | bounds | states |
|---|---|---|---|
| `ring` | offsets, flags and blocks agree; searches are right; refinement of RecentWrites | N = 3, lines of lengths 1, 2, 3 | 688 |
| `driver` | lines stay whole; refinement of LineLog; reads and seeks | N = 2, 2 threads, 1 file, 4 calls, writes with 0, 1 and 2 newlines | 755,000 |
| `driver_liveness` | every call returns | N = 1, 2 threads, 3 calls, every failure | 22,500 |
| `heap` | one owner per block, none dangling, none lost but by a thread that dies in the ring | N = 2, 2 writers, 6 blocks, every allocation failing | 100,000 |
| `requests` | whole packets, growing file, complete replies, every request ends | both builds, 2 clients of which one may seek, 2 timestamps in the regular file, packets of up to 3 bytes that end before their line, with it, after it, or have a NUL in them, partial writes; on the device every failure but short sends, on the file those of recv and write; SIGPIPE in any reply | 655,000 |
| `lifecycle_failures` | ownership of items, finality of statuses, open file | 3 clients, one silent, signal at any time, one timer expiry, every failure | 90,900 |
| `daemon` | the parent reports the start-up and ends; the daemon keeps its socket; the server ends after a signal, with every client joined | 3 clients, every failure of the start-up, a signal in it and while main is in accept, foreground and daemon | 163,000 |
| `list` | pointers agree; one owner per block; refinement of ItemSequence | 5 blocks, 4 values, a negative digit among them, failed allocations and constructors of structs | 2,800 up to renaming of the blocks |
| `exec` | no child is left but one per interrupted wait; every call returns; results and files of calls that meet no other | 2 threads, outputs of up to 2 bytes, every failure, interrupted waits | 316,000 |

The bounds let the interesting cases happen. The ring's behaviour depends on
being empty, before its first wrap or after it, and on whether a line fits the
block of its slot: with three slots and three lengths every combination occurs,
several times round, and the run has no bound on its length. In `driver` four
calls are enough to fill two slots, wrap, and read or seek in between, with a
partial line completed by another thread. `MaxCalls` is the only bound that cuts
behaviours short there. Six blocks are the most two writers, two slots, the cache
and a moving block can use at once. Two clients suffice for every race on the
mutex and the position; a third, in the life cycle, is needed to reuse one item
while another client is in the list. Five blocks hold a list of five short values,
or two large ones and one item more: enough for first, last, both and neither, and
for a block to be used again as another thing. Two threads can take each other's
child; children are never more than the calls that wait, so that two process
identifiers suffice. Only `MaxCalls`, `MaxTicks` and one request for each client cut
behaviours short; the ring, the heap, the list and the commands run for ever.

Deadlock checking is off where the system really stops: after the last bounded
call of a liveness run, when every request has ended, when the process ended.

Three runs check a statement of the sources that the code does not keep
(`findings` in `PROJECT.json`):

* `driver_seek_command`: after the ring has wrapped, `AESDCHAR_IOCSEEKTO` counts
  slots of the array and not commands from the oldest. Before that,
  `CommandSeekBeforeWrap` holds.
* `heap_moves`: if krealloc moves the cache when a line completes it, the old
  block is freed twice and the new one never.
* `lifecycle_exit`: a signal makes `server_exit` close and remove the file before it joins
  the clients that still have to write to it or to read their reply, against
  `aesdsocket.c:37`. They are joined (`NoClientLeftBehind`), but not answered.

### Known divergences outside the runs

The passing runs leave a few situations out by name, with a constant, and check
everything else. Changing the constant makes TLC show each of them:

| situation | where | change | fails |
|---|---|---|---|
| a partial send is followed by the whole chunk | `aesdsocket.c:295` | `"short_send"` for the regular file in `MCFailures` | `ReplyIsContent` |
| a reply whose send fails leaves the shared position in the middle of the file, and the next timestamp overwrites what clients sent | `aesdsocket.c:233` | `"send"` for the regular file in `MCFailures` | `FileOnlyGrows` |
| a timestamp before the first write overwrites a file left by a run that was killed | `aesdsocket.c:233` | `Leftover = {FALSE, TRUE}` in `SocketRequests.cfg` | `FileOnlyGrows` |
| a seek command moves the position under another reply, which may then read for ever | `aesdsocket.c:358` | `TRUE` for `NobodySeeks` | `ReplyIsContent`, `RequestsFinish` |
| a client that closes its end while its reply is sent raises SIGPIPE, which ends the server, against `aesdsocket.c:36` | `aesdsocket.c:295` | the invariant `AcceptsUntilSignal` in `SocketRequests.cfg` | `AcceptsUntilSignal` |
| the timer comes before the first client has made main open the file, and `safe_file_lock` is given NULL | `aesdsocket.c:214` | the invariant `TimerFindsFile` in `LifecycleFailures.cfg` | `TimerFindsFile` |
| a client thread blocks for ever on the mutex that was destroyed under it, and `server_exit` in its join | `aesdsocket.c:445` | `"hang"` in `Failures` of `Daemon.cfg` | `AcceptedAreFinished`, `ExitsAfterSignal` |
| a signal before accept blocks, or handled by another thread, is not noticed | `aesdsocket.c:557` | `EarlySignal = TRUE` in `Daemon.cfg` | `ExitsAfterSignal` |
| a client that never sends keeps the server from ending | `aesdsocket.c:748` | `Silent = {c1}` in `Daemon.cfg` | `ExitsAfterSignal` |
| a failed thread creation for a reused item leaves later clients unjoined | `aesdsocket.c:628` | `"thread"` in `Failures` of `Daemon.cfg` | `NoClientLeftBehind` |
| the daemon reports before its parent waits, and kills it | `aesdsocket.c:845` | the invariant `ParentIsNotKilled` in `Daemon.cfg` | `ParentIsNotKilled` |
| a child killed in its start-up leaves its parent waiting | `aesdsocket.c:845` | `ParentEnds` without `main = "crashed"` | `ParentEnds` |
| a failure to open the file is reported to a parent that is gone | `aesdsocket.c:582` | `"open"` in `Failures` of `Daemon.cfg` | `ParentReportsStartUp` |
| a daemon started without its standard output loses its socket to `dup2` | `aesdsocket.c:804` | `Inherited = {0}` in `Daemon.cfg` | `KeepsSocketOnly` |
| the ring loses the block of its entry when its allocation fails, and the thread dies with its own and with the lock | `aesd-circular-buffer.c:136` | `NoBlockIsLost` without `lost`; `"ring"` in `Failing` of `AesdCharDriver.cfg` | `NoBlockIsLost`; `ImplementsLineLog` |
| `list_push_back_string` leaves its item in the list when its string is refused or finds no memory | `list.c:202` | `"string"` in `Failing` of `LinkedList.cfg` | `ImplementsItemSequence` |
| an item that holds a block forgets it when it is set again or deleted on its own | `list.c:664`, `list.c:590` | `Overwrites = TRUE` in `LinkedList.cfg` | `BlocksHaveOneOwner` |
| a constructor that fails in `list_item_emplace_struct` leaves the item with the new value | `list.c:773` | `"reconstruct"` in `Failing` of `LinkedList.cfg` | `ImplementsItemSequence` |
| a digit is read through its lowest byte, as a signed `char` | `list.c:242` | a digit of 200 in `MCValues`, or `SignedChar = FALSE` | `ImplementsItemSequence` |
| a wait that a signal interrupts leaves its child | `systemcalls.c:87`, `systemcalls.c:156` | `EveryChildIsAwaited` without `interrupted` | `EveryChildIsAwaited` |
| `do_exec` takes the status of the child `system` waits for | `systemcalls.c:25` | `MixSystem = TRUE` and a third process in `SystemCalls.cfg` | `EveryChildIsAwaited` |
| a redirected child that cannot run its command writes the program's own buffer to the file | `systemcalls.c:151` | `MCUnflushed == << CHOOSE t \in Threads : TRUE >>` | `FileIsOutputWhenAlone` |

Others are plain to see in the definitions: a packet without a newline is answered
at once (`WriteSome`, against `aesdsocket.c:33`); two threads in `do_exec` may get
each other's result (`Wait`, against the comment of `do_exec`); `in_offs` is the slot written last and `full` is set one write after the last free
entry is used (`WriteSlot`, `FullAfter`, against the comments of
`aesd-circular-buffer.h`), which nothing outside the ring depends on.

## Fairness

* `AesdCharDriver`: a thread inside a call keeps running (weak fairness of
  `Work`), and the semaphore starves no waiter (strong fairness of `DownRead` and
  `DownWrite`): Linux's rwsem queues its waiters. No call has to be made.
* `SocketRequests`: threads run, and a free mutex goes to one that waits (weak
  fairness per thread; since every client takes the mutex a bounded number of
  times, this starves no one). Fairness of `Recv` says that a client sends
  something or closes its end: nothing in the server bounds recv, and the
  constant `Silent` of `ServerLifecycle` shows what happens otherwise.
* `ServerLifecycle` and `Daemon`: threads and both processes run. Nothing obliges a
  client to connect, accept to fail, a signal to come or a silent client to speak.
* `SystemCalls`: a child runs, and its command comes to an end (weak fairness of
  `Child`): nothing in the code bounds it. A thread in `wait` is woken each time a
  child ends, and gets a status if this happens for ever (strong fairness of
  `Wait`); with weak fairness a thread that calls again and again could take every
  status before it. No call has to be made.

## Proofs

Every theorem is about the specification the runs check, for every value of the
constants that its module's ASSUME and its own hypotheses allow:

| module | theorems, and the properties of the runs they state | hypotheses of its own |
|---|---|---|
| `CircularBufferProofs` | `TypeCorrect` (TypeOK), `OffsetsAlwaysDescribeEntries`, `LinesAlwaysFitTheirBlocks`, `FindsTheByte` (FindIsByteOfConcatenation), `Refinement` (KeepsRecentWrites) | |
| `AesdCharDriverProofs` | `TypeCorrect`, `LinesWhole` (LinesAreWhole), `ReadsGiveBytes` (ReadGivesBytesAtPosition), `SeeksInData` (SeeksLandInData), `CommandFoundBeforeWrap` (CommandSeekBeforeWrap) | |
| | `Refinement` (ImplementsLineLog) | the ring's `kmalloc` succeeds: `"ring" \notin Failing` |
| `DriverHeapProofs` | `TypeCorrect` | |
| | `NothingLost` (NoBlockIsLost), `OneOwner` (OneOwnerEach), `CallerFreesItsBlock` | krealloc does not move the cache for a completed line: `CacheStaysForLines` |
| | `NothingLostWithMemory` (NoBlockIsLost without `lost`) | `CacheStaysForLines`, and the ring's allocations succeed |
| `SocketRequestsProofs` | `TypeCorrect`, `MutualExclusion` | |
| | `PacketsWhole` (PacketsStayWhole), `FileGrows` (FileOnlyGrows) | `PositionKept` |
| | `ReplyIsWhole` (ReplyIsContent) | `PositionKept`, `NoShortSends` |
| | `SeekReplyIsTheRest` (SeekReplyIsRest) | `NoShortSends`, one client that seeks |
| `DaemonProofs`, of `ServerLifecycle` | `TypeCorrect`, `OneSlotEach` (ThreadsOwnTheirSlots), `StatusIsFinal` (ProcessedIsFinal), `FileIsOpen` (FileOpenWhileServing) | |
| | `EveryClientJoined` (NoClientLeftBehind) | `pthread_create` succeeds: `"thread" \notin Failures` |
| `DaemonProofs`, of `Daemon` | `DaemonTypeCorrect` (DaemonTypeOK), `DaemonServes` | |
| | `DaemonJoinsEveryClient` (NoClientLeftBehind) | `"thread" \notin Failures` |
| | `ParentIsTold` (ParentReportsStartUp) | the file opens: `"open" \notin Failures` |
| | `SocketIsKept` (KeepsSocketOnly) | the three standard descriptors are open: `Inherited = 0 .. 2` |
| `LinkedListProofs` | `Invariance`, `LinksAlwaysAgree` (LinksAgree) | |
| | `OneOwnerPerBlock` (BlocksHaveOneOwner) | items that own a block are not set again or deleted on their own: `~Overwrites` |
| | `Refinement` (ImplementsItemSequence) | a string that is pushed is neither refused nor without memory, and no constructor fails on an item that exists: `OnlyCleanFailures`; digits fit into a `char`: `DigitsFitByte` |
| `SystemCallsProofs` | `TypeCorrect`, `ResultIsOwn` (ResultIsOwnWhenAlone) | |
| | `EveryChildAwaited` (EveryChildIsAwaited) | do_system is called alone: `~MixSystem` |
| | `FileIsOutput` (FileIsOutputWhenAlone) | the program has flushed: `Unflushed = << >>` |

Each hypothesis is a constant with which the passing run is checked, and without it
the property is false: the run `heap_moves` and the rows of "Known divergences"
show how. Those without a row fail as well: with `Seekers = {c1, c2}`, or `"short_send"` for the device,
`SeekReplyIsRest` does not hold; `"read"` for the regular file leaves the position as
`"send"` does. `PositionKept` speaks of the build with a regular file only: that no
read or send of a reply fails and no earlier run has left a line. For the device the
theorems about the file are unconditional. `Refinement` of the list does not need
`~Overwrites`: a block that is forgotten is lost to the program, but no caller sees it.
The assumptions of the modules are types of their constants, with a few that say more:
N is at most 255, because the offsets are `uint8_t` and are incremented before they are
compared (`CircularBuffer`); there are finitely many threads and process identifiers
(`SystemCalls`, which counts them) and finitely many blocks (`LinkedList`, whose loops
end for that reason); and a value is no address, so that the data of an item is either
(`LinkedList`; in the code its type tells which).

### The inductive invariants

**Ring.** `IInv` is the conjunction of the three invariants. That the entry written
next exists needs the types; that `out_offs` is right after `in_offs` once the ring
is full, and 0 before, needs the exact set of slots in use, `OffsetsDescribeEntries`;
that the block is large enough needs only the entry itself. The refinement has two
cases: before the ring is full `AddEntry` writes slot `Count` and `Contents` grows;
after that it writes the slot of the oldest line, and `Contents` loses its head.
`FindsTheByte` follows the iteration: the sum before iteration k is the length of the
k-th prefix of the concatenation, which is what `SequenceLemmas` is about.

**Device.** `IInv` says which threads are between down and up and that they are what
the semaphore holds (a writer or readers); that the rest of a write begins a line,
since the buffer is cut at its newlines; that a read that has found its byte copies
from there, although other calls run between the two steps, because readers keep the
ring as it is. A thread whose ring allocation fails dies in the ring with the
semaphore held; the invariant of the ring is claimed while none has, and lines are
whole even then. The lemmas about the ring are those of `CircularBufferProofs`, through
an instance. Refinement maps each step to the beginning of a write, its next piece, its
failure, its return, or a stutter.

**Heap.** The allocated blocks are exactly those of an entry, the cache, a write, or a
thread that died in the ring (`LiveIsOwned`), and any two of those pointers differ
(`OwnersDiffer`). The step in
the middle of `write_with_cache`, where entry and cache may share a block, needs to
know who is inside and that `complete_buff` is the cache (`WriterIsInside`).

**Requests.** Three layers, because they need different conditions. `BaseInv` holds
whatever fails: the mutex is held by the one thread between lock and unlock, the
position of the regular file is in the file, and a process that was ended does nothing. `PositionInv` follows the
position of the regular file: at its end whenever the mutex is free, at the end less
what is left to read in a reply, as long as the process runs. That is what the timer
relies on, which writes without a seek. On this rests that what a client has still to write completes, with
what the file has taken, whole packets. `ReplyInv` says that what a client has received,
with the chunk on its way, is the range from where its read began to the position.

**Life cycle and daemon.** Every item of the list has a thread that was created, no
two have the same one until it is joined, and the one main looks at is the one it
found (`ItemsHaveThreads`, `MainHolds`); the connection just accepted has none yet.
`JoinInv` adds how far the joins have come. In the whole program that invariant holds too:
until the start-up is over the server has done nothing, and after it the
steps are the server's. The stages come in one order (`Order`), which carries the
descriptors and the code from one to the next. The parent waits as long as the child starts
up (`ParentWaits`).

**System calls.** `CountInv`: there are as many children whose status nobody has as waiting
calls and interrupted ones, and a call to system waits alone. `AloneInv` and `FileInv` follow the one child of a call that
met no other from fork to its end, and the file with it.

**List.** `IInv` says that there is an order `s` of the items in the list in which they are
chained: each one's `next` and `prev` are its neighbours in `s`, `first` and `last` are its
ends and `size` its length, and the items that are held have no neighbours (`Chained`,
`InOrder`). Besides, an item says the type of the value it holds, and the block it points
to exists and no other item points to it (`Owned`), and if nobody overwrites an item, every
block has such an item (`NoneLost`). The lemmas are about the operators and not the actions,
because a call goes through memories that are no state: `list_emplace_back` adds an item,
sets it and, if the constructor fails, removes it again. For each operator a lemma says
which order it makes of the one it found: `AddItemIsRight`, `SetItemIsRight`,
`RemoveItemIsRight` and `InsertItemIsRight`, by what becomes of the chain where an element
is put in or taken out (`ChainWith`, `ChainWithout`), and `ClearItemsIsRight` by induction on
the iterations, of which the one numbered k leaves the first `Len(s) - k` items. An iteration
of a caller is then `s` itself (`VisitedIsTheOrder`), and the refinement follows from what
each call makes of the values in the order (`MayBecome`): nothing, a value appended, put
in, replaced or taken out, or none left, and nothing if it fails (`CallMakes`).

### What is only model-checked

Every invariant, action property and refinement of the passing runs is a theorem. Left to TLC are:

* Liveness (`CallsReturn` of both modules, `RequestsFinish`, `ParentEnds`, `ExitsAfterSignal`,
  `AcceptedAreFinished`): out of TLAPS's reach.
* That the code violates what its comments say (the three violation runs), and the rows of "Known divergences".

Induction over data is done on sets of numbers (`SetInduction`) and on the prefixes of
`FlattenSeq`, written as a function, since the library's induction theorems cannot
be instantiated here.

## Plan

1. Done: models, runs and proofs of ring, driver, heap, requests, life cycle, daemon, list
   and system calls.
2. Left: the conditions of the theorems about requests stated for each build by itself; the
   bytes of the buffer that an earlier client left, which `sscanf` may read
   (`aesdsocket.c:353`).

## Not modelled

* `safe_file_read` and `safelist_*`: nothing calls them.
* `examples/threading/threading.c` (one thread that takes and releases a mutex and
  hands its block to the caller) and `finder-app/writer.c` (open, write, close): a few
  statements in one order, without anything to interleave with. `writer.c:38` opens an
  existing file without `O_TRUNC`, so that a longer one keeps its tail, against the
  comment at its top; that is plain to see.
* Logging and error texts, device numbers and the registration of the character device.
* The build that writes to the device has no timer to create in `Daemon`.
* The exit codes of a server that has started; errors of the clock in the timer.
* The shell scripts and Makefiles, the kernel image and qemu scripts, the course's tests.
