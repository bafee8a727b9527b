--------------------------- MODULE SocketRequests ---------------------------
(***************************************************************************)
(* server/aesdsocket.c and server/safefile.c: the threads that each answer *)
(* one client (handle_client), and the timer thread (timestamp_callback),  *)
(* on the one file descriptor they share.                                  *)
(*                                                                         *)
(* device tells the two builds apart: with USE_AESD_CHAR_DEVICE the file   *)
(* is /dev/aesdchar, clients can send a seek command and there is no       *)
(* timer; without it the file is a regular one.  A write on the regular    *)
(* file replaces or extends what is at the position; the device appends    *)
(* every write, and shows it line by line.  The device is taken with room  *)
(* for every line: what becomes of older lines is the subject of           *)
(* AesdCharDriver.                                                         *)
(*                                                                         *)
(* The mutex of the safe file protects a sequence of system calls, each of *)
(* them one step.  ioctl is called without it.  A send to a client that is *)
(* gone may return an error, or raise SIGPIPE, which ends the process.     *)
(***************************************************************************)
EXTENDS Integers, SequencesExt

CONSTANTS
  Clients,     \* connections, one thread each
  NULL,        \* no thread
  Builds,      \* whether USE_AESD_CHAR_DEVICE is defined, in the builds that are checked
  BufferSize,  \* CLIENT_BUFFER_SIZE
  Shapes,      \* what a client may send: kinds of bytes, at most a buffer of them
  Timer,       \* the timer thread
  MaxTicks,    \* bound on the expirations of the timer
  Seekers,     \* the clients that may send a seek command to the device
  Leftover,    \* the builds in which the file may have a line from an earlier run
  Failures     \* what may fail in each build

Kinds == {"text", "newline", "nul"}

Faults == {"recv", "write", "read", "send", "short_send", "sigpipe", "seek"}

ASSUME RequestsAssumption ==
  /\ Builds \subseteq BOOLEAN
  /\ BufferSize \in Nat \ {0}
  /\ \A shape \in Shapes : \E length \in 1 .. BufferSize : shape \in [1 .. length -> Kinds]
  /\ MaxTicks \in Nat
  /\ Leftover \subseteq Builds
  /\ Failures \in [Builds -> SUBSET Faults]
  /\ Seekers \subseteq Clients
  /\ Timer \notin Clients /\ NULL \notin Clients \cup {Timer}

VARIABLES
  device,   \* USE_AESD_CHAR_DEVICE
  taken,    \* the bytes of the file; on the device, also those held back until their line ends
  f_pos,    \* the position of the descriptor
  mutex,    \* the thread that holds the mutex of the safe file, or NULL
  request,  \* what each client thread is doing
  alive,    \* the process has not been ended by a signal
  ticks,    \* expirations of the timer so far
  stamp     \* what the timer thread still has to write before it unlocks

vars == << device, taken, f_pos, mutex, request, alive, ticks, stamp >>

\* A byte knows who sent it, its place in what was sent and its kind.
Packet(from, kinds) == [i \in DOMAIN kinds |-> <<from, i, kinds[i]>>]

IsNewline(byte) == byte[3] = "newline"

\* packet_length: whether there is a newline or a NUL anywhere in the buffer.
IsLast(packet) == \E i \in DOMAIN packet : packet[i][3] \in {"newline", "nul"}

\* What one recv gives.  The end of the stream is the empty packet.
Packets(c) == {<< >>} \cup {Packet(c, shape) : shape \in Shapes}

Line(from) == Packet(from, <<"text", "newline">>)

Timestamp == Line(Timer)

\* Where a read stops: on the device at the end of every line.
Stops ==
  IF device THEN {i \in DOMAIN taken : IsNewline(taken[i])} ELSE {Len(taken)}

\* The end of the file: the device ends with its last whole line.
Size == Max({0} \cup Stops)

Content == SubSeq(taken, 1, Size)

TypeOK ==
  /\ device \in Builds
  /\ f_pos \in Nat
  /\ mutex \in Clients \cup {Timer, NULL}
  /\ ticks \in 0 .. MaxTicks
  /\ alive \in BOOLEAN
  /\ Len(stamp) \in 0 .. Len(Timestamp)
  /\ \A c \in Clients :
       /\ request[c].at \in {"recv", "ioctl", "write", "seek_end", "writing", "sync", "read",
                             "start", "end", "back", "reading", "sending", "closed"}
       /\ request[c].status \in {"in_progress", "success", "error"}
       /\ request[c].packet \in Packets(c)
       /\ request[c].todo \in Nat

\* The fields are the locals of handle_client and of the safe_file function it is in.
NewRequest ==
  [at |-> "recv", status |-> "in_progress",
   packet |-> << >>,  \* client->buff after recv, and len
   rest   |-> << >>,  \* what write has not taken yet
   whence |-> "SEEK_SET",
   start  |-> 0,      \* start_position
   todo   |-> 0,      \* bytes_to_read_total - readed_bytes
   chunk  |-> << >>,  \* client->buff after read
   sended |-> 0,
   reply  |-> << >>]  \* what the client has received

Init ==
  /\ device \in Builds
  /\ taken = << >> \/ (device \in Leftover /\ taken = Line(NULL))
  /\ f_pos = 0
  /\ mutex = NULL
  /\ request = [c \in Clients |-> NewRequest]
  /\ alive = TRUE
  /\ ticks = 0
  /\ stamp = << >>

file == << taken, f_pos >>
timer == << device, alive, ticks, stamp >>

-----------------------------------------------------------------------------
(* System calls on the descriptor *)

\* The regular file: bytes replace what is at the position.
WriteFile(bytes) ==
  /\ taken' = SubSeq(taken, 1, f_pos) \o bytes \o SubSeq(taken, f_pos + Len(bytes) + 1, Len(taken))
  /\ f_pos' = f_pos + Len(bytes)

\* The device: wherever the position is, bytes go to the end.  The position moves by them,
\* and by the part of a line that was held back if they complete it.
WriteDevice(bytes) ==
  /\ taken' = taken \o bytes
  /\ f_pos' = f_pos + Len(bytes)
               + (IF \E i \in DOMAIN bytes : IsNewline(bytes[i]) THEN Len(taken) - Size ELSE 0)

Write(bytes) == IF device THEN WriteDevice(bytes) ELSE WriteFile(bytes)

\* A read gives what the line at the position has left, and nothing past the end.
ReadAt(pos, count) ==
  LET ends == {e \in Stops : e > pos}
  IN  IF ends = {} THEN << >> ELSE SubSeq(taken, pos + 1, Min({pos + count, Min(ends)}))

-----------------------------------------------------------------------------
(* handle_client: the packet *)

Go(c, at) == request' = [request EXCEPT ![c].at = at]

Close(c, status) == request' = [request EXCEPT ![c].at = "closed", ![c].status = status]

\* A packet without bytes is not written; it still is the last one.
Recv(c) ==
  /\ request[c].at = "recv"
  /\ \E packet \in Packets(c) :
       request' = [request EXCEPT ![c].packet = packet, ![c].rest = packet,
                                  ![c].at = IF packet = << >> THEN "sync" ELSE "write"]
  /\ UNCHANGED << file, mutex, timer >>

RecvFails(c) ==
  /\ "recv" \in Failures[device]
  /\ request[c].at = "recv"
  /\ Close(c, "error")
  /\ UNCHANGED << file, mutex, timer >>

RecvSeekCommand(c) ==
  /\ device /\ c \in Seekers
  /\ request[c].at = "recv"
  /\ request' = [request EXCEPT ![c].at = "ioctl", ![c].whence = "SEEK_CUR"]
  /\ UNCHANGED << file, mutex, timer >>

\* ioctl, without the mutex: to a byte of a line.  A refused command goes on to the read like an accepted one.
Ioctl(c) ==
  /\ request[c].at = "ioctl"
  /\ Go(c, "read")
  /\ \/ "seek" \in Failures[device] /\ UNCHANGED f_pos
     \/ f_pos' \in 0 .. Size - 1
  /\ UNCHANGED << taken, mutex, timer >>

-----------------------------------------------------------------------------
(* safe_file_lock and safe_file_unlock *)

\* Mutant: a mutex that cannot be taken at once is done without.
TryLock(thread) == mutex' = IF mutex = NULL THEN thread ELSE mutex

Lock(thread) == mutex = NULL /\ mutex' = thread

Unlock == mutex' = NULL

LockFor(c, from, to) ==
  /\ request[c].at = from
  /\ Lock(c)
  /\ Go(c, to)
  /\ UNCHANGED << file, timer >>

-----------------------------------------------------------------------------
(* safe_file_seek_and_write and safe_file_sync *)

WriteLock(c) == LockFor(c, "write", "seek_end")

SeekEnd(c) ==
  /\ request[c].at = "seek_end"
  /\ f_pos' = Size
  /\ Go(c, "writing")
  /\ UNCHANGED << taken, mutex, timer >>

\* Mutant: the mutex is released after every round.
WriteSomeUnlocking(c) ==
  /\ request[c].at = "writing"
  /\ LET rest == request[c].rest
     IN  \E n \in 1 .. Len(rest) :
           /\ Write(SubSeq(rest, 1, n))
           /\ IF n < Len(rest)
              THEN request' = [request EXCEPT ![c].rest = SubSeq(rest, n + 1, Len(rest))]
              ELSE Go(c, IF IsLast(request[c].packet) THEN "sync" ELSE "read")
  /\ Unlock
  /\ UNCHANGED timer

\* One round of safe_file_write.  The regular file may take only some of the bytes.
WriteSome(c) ==
  /\ request[c].at = "writing"
  /\ LET rest == request[c].rest
     IN  \E n \in IF device THEN {Len(rest)} ELSE 1 .. Len(rest) :
           /\ Write(SubSeq(rest, 1, n))
           /\ IF n < Len(rest)
              THEN /\ request' = [request EXCEPT ![c].rest = SubSeq(rest, n + 1, Len(rest))]
                   /\ UNCHANGED mutex
              ELSE /\ Go(c, IF IsLast(request[c].packet) THEN "sync" ELSE "read")
                   /\ Unlock
  /\ UNCHANGED timer

\* Mutant: the error path keeps the mutex.
WriteFailsLocked(c) ==
  /\ "write" \in Failures[device]
  /\ request[c].at = "writing"
  /\ Close(c, "error")
  /\ UNCHANGED << file, mutex, timer >>

WriteFails(c) ==
  /\ "write" \in Failures[device]
  /\ request[c].at = "writing"
  /\ Close(c, "error")
  /\ Unlock
  /\ UNCHANGED << file, timer >>

\* fdatasync waits for the mutex; whether it fails makes no difference.
Sync(c) ==
  /\ request[c].at = "sync"
  /\ mutex = NULL
  /\ Go(c, "read")
  /\ UNCHANGED << file, mutex, timer >>

-----------------------------------------------------------------------------
(* safe_file_read_range *)

\* Mutant: the range is read without the mutex.
ReadUnlocked(c) ==
  /\ request[c].at = "read"
  /\ Go(c, "start")
  /\ UNCHANGED << file, mutex, timer >>

ReadLock(c) == LockFor(c, "read", "start")

\* SEEK_CUR is refused when the position is past the end of the device.
SeekStart(c) ==
  /\ request[c].at = "start"
  /\ LET pos == IF request[c].whence = "SEEK_SET" THEN 0 ELSE f_pos
     IN  IF device /\ pos > Size
         THEN Close(c, "error") /\ Unlock /\ UNCHANGED f_pos
         ELSE /\ f_pos' = pos
              /\ request' = [request EXCEPT ![c].start = pos, ![c].at = "end"]
              /\ UNCHANGED mutex
  /\ UNCHANGED << taken, timer >>

SeekRangeEnd(c) ==
  /\ request[c].at = "end"
  /\ f_pos' = Size
  /\ request' = [request EXCEPT ![c].todo = Size - request[c].start, ![c].at = "back"]
  /\ UNCHANGED << taken, mutex, timer >>

\* Mutant: the range is read from the beginning of the file.
SeekBackToBegin(c) ==
  /\ request[c].at = "back"
  /\ f_pos' = 0
  /\ Go(c, "reading")
  /\ UNCHANGED << taken, mutex, timer >>

SeekBack(c) ==
  /\ request[c].at = "back"
  /\ f_pos' = request[c].start
  /\ Go(c, "reading")
  /\ UNCHANGED << taken, mutex, timer >>

\* Mutant: counts what it asked for instead of what it got.
LessBuffer(todo, chunk) == todo - BufferSize

LessChunk(todo, chunk) == todo - Len(chunk)

\* One read of the loop.
ReadChunk(c) ==
  /\ request[c].at = "reading"
  /\ LET chunk == ReadAt(f_pos, Min({BufferSize, request[c].todo}))
     IN  /\ f_pos' = f_pos + Len(chunk)
         /\ request' = [request EXCEPT ![c].chunk = chunk, ![c].sended = 0, ![c].at = "sending",
                                       ![c].todo = LessChunk(@, chunk)]
  /\ UNCHANGED << taken, mutex, timer >>

ReadFails(c) ==
  /\ "read" \in Failures[device]
  /\ request[c].at = "reading"
  /\ Close(c, "error")
  /\ Unlock
  /\ UNCHANGED << file, timer >>

\* One send of sendcallback, which passes the whole chunk every time.  An interrupted
\* send takes some of it.
Send(c) ==
  /\ request[c].at = "sending"
  /\ LET chunk == request[c].chunk
     IN  \E n \in {Len(chunk)} \cup (IF "short_send" \in Failures[device] THEN 1 .. Len(chunk) ELSE {}) :
           LET sended == request[c].sended + n
               done   == sended >= Len(chunk)
               r      == [request[c] EXCEPT !.reply = @ \o SubSeq(chunk, 1, n), !.sended = sended]
           IN  IF done /\ r.todo = 0
               THEN /\ request' = [request EXCEPT ![c] = [r EXCEPT !.at = "closed", !.status = "success"]]
                    /\ Unlock
               ELSE /\ request' = [request EXCEPT ![c] = [r EXCEPT !.at = IF done THEN "reading" ELSE @]]
                    /\ UNCHANGED mutex
  /\ UNCHANGED << file, timer >>

\* The client is gone: the position stays where the last read left it.
SendFails(c) ==
  /\ "send" \in Failures[device]
  /\ request[c].at = "sending"
  /\ Close(c, "error")
  /\ Unlock
  /\ UNCHANGED << file, timer >>

\* The client is gone, and the signal that says so is not handled: the process ends, and
\* its threads, its descriptors and its mutex with it.
BreakPipe(c) ==
  /\ "sigpipe" \in Failures[device]
  /\ request[c].at = "sending"
  /\ alive' = FALSE
  /\ request' = [d \in Clients |-> [NewRequest EXCEPT !.at = "closed"]]
  /\ Unlock
  /\ UNCHANGED << file, device, ticks, stamp >>

-----------------------------------------------------------------------------
(* timestamp_callback *)

\* The device build has no timer.
Tick ==
  /\ ~device /\ alive
  /\ ticks < MaxTicks
  /\ Lock(Timer)
  /\ ticks' = ticks + 1
  /\ stamp' = Timestamp
  /\ UNCHANGED << file, request, device, alive >>

\* One round of safe_file_write, at the position; after the last one safe_file_unlock.
Stamp ==
  /\ stamp # << >>
  /\ \E n \in 1 .. Len(stamp) :
       /\ Write(SubSeq(stamp, 1, n))
       /\ stamp' = SubSeq(stamp, n + 1, Len(stamp))
       /\ IF n = Len(stamp) THEN Unlock ELSE UNCHANGED mutex
  /\ UNCHANGED << request, device, alive, ticks >>

\* Nobody looks at the result of the write.
StampFails ==
  /\ "write" \in Failures[device]
  /\ stamp # << >>
  /\ stamp' = << >>
  /\ Unlock
  /\ UNCHANGED << file, request, device, alive, ticks >>

-----------------------------------------------------------------------------

Step(c) ==
  \/ Recv(c) \/ RecvFails(c) \/ RecvSeekCommand(c) \/ Ioctl(c)
  \/ SeekEnd(c) \/ WriteSome(c) \/ WriteFails(c)
  \/ SeekStart(c) \/ SeekRangeEnd(c) \/ SeekBack(c) \/ ReadChunk(c) \/ ReadFails(c) \/ Send(c)
  \/ SendFails(c) \/ BreakPipe(c)

TakeLock(c) == WriteLock(c) \/ Sync(c) \/ ReadLock(c)

Next == Tick \/ Stamp \/ StampFails \/ \E c \in Clients : Step(c) \/ TakeLock(c)

Spec == Init /\ [][Next]_vars

\* Threads run, and a mutex that is free goes to one of those that wait for it.  A
\* client is taken to send something or to close its end: nothing bounds recv.
Fairness ==
  /\ WF_vars(Stamp \/ StampFails)
  /\ \A c \in Clients : WF_vars(Step(c)) /\ WF_vars(TakeLock(c))

FairSpec == Spec /\ Fairness

-----------------------------------------------------------------------------
(* Properties *)

\* Packets and timestamps go to the file whole: whatever else is written, and however
\* many system calls a packet takes, no byte of another one gets between two of its own.
PacketsStayWhole ==
  \A i \in DOMAIN taken :
    taken[i][2] > 1 => i > 1 /\ taken[i - 1][1] = taken[i][1] /\ taken[i - 1][2] = taken[i][2] - 1

\* aesdsocket.c: what clients send is appended to the file, and nothing that was written
\* to it, by an earlier run either, is ever overwritten.
FileOnlyGrows == [][IsPrefix(taken, taken')]_vars

Answered(c) == request[c].at # "closed" /\ request'[c].at = "closed" /\ request'[c].status = "success"

NobodySeeks == \A c \in Clients : request[c].whence = "SEEK_SET"

\* aesdsocket.c: a client whose request succeeds gets the full content of the file,
\* its own packet included: nothing moves the position or the end while it is sent, as
\* long as no client sends a seek command.
ReplyIsContent ==
  [][\A c \in Clients :
       Answered(c) /\ NobodySeeks =>
         /\ request'[c].reply = Content
         /\ Range(request[c].packet) \subseteq Range(taken)]_vars

\* A seek command that succeeds is answered with the rest of the device from where the
\* read began, as long as no other client seeks at the same time.
SeekReplyIsRest ==
  [][\A c \in Clients :
       Answered(c) /\ request[c].whence = "SEEK_CUR" =>
         request'[c].reply = SubSeq(Content, request[c].start + 1, Len(Content))]_vars

\* Every request ends, with the process if a signal ends that, whatever fails: no path
\* keeps the mutex, and the read loop ends, unless a client moves the position under it
\* with a seek command.
RequestsFinish == []NobodySeeks => \A c \in Clients : <>(request[c].at = "closed")

\* aesdsocket.c:36 has the server accept connections until SIGINT and SIGTERM: whatever
\* a client does, the process stays.
AcceptsUntilSignal == alive
=============================================================================
