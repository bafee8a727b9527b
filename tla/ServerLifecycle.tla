--------------------------- MODULE ServerLifecycle ---------------------------
(***************************************************************************)
(* server/aesdsocket.c: the main thread from the accept loop (run_server)  *)
(* to the end of the process (server_exit), the threads it creates for its *)
(* clients and joins, the signals that stop it, and the life of the safe   *)
(* file they share.  What a client thread does with the file is the        *)
(* subject of SocketRequests; here it locks the file to write, locks it    *)
(* again to read, and finishes.                                            *)
(*                                                                         *)
(* External: a signal is handled by some thread of the process, and        *)
(* interrupts the system call that thread is blocked in, and no later one. *)
(*                                                                         *)
(* A safe file that is used after it was freed is undefined behaviour: the *)
(* call fails, or looks as if it succeeded, or waits for a mutex that      *)
(* nobody will unlock, or the process is killed.                           *)
(***************************************************************************)
EXTENDS Integers, SequencesExt

CONSTANTS
  Clients,     \* connections, each with the thread created for it
  NULL,        \* no client
  Silent,      \* the clients that never send anything nor close their end
  Failures,    \* what may fail: "listen", "accept", "open", "thread", "recv"; "hang", on a freed mutex
  EarlySignal, \* whether a signal may come while main is not blocked in accept
  MaxTicks     \* bound on the expirations of the timer; 0 in the device build

ASSUME LifecycleAssumption ==
  /\ NULL \notin Clients
  /\ Silent \subseteq Clients
  /\ Failures \subseteq {"listen", "accept", "open", "thread", "recv", "hang"}
  /\ EarlySignal \in BOOLEAN
  /\ MaxTicks \in Nat

VARIABLES
  main,      \* what the main thread does next
  socket,    \* the connection main is finding a place for, or NULL
  current,   \* the item of the list main looks at, or 0
  slots,     \* pClientsList: the client_data of each item
  thread,    \* what each client's thread does next
  pending,   \* connections waiting to be accepted
  signaled,  \* g_SignalNum is set
  file,      \* g_loggingFile: "none" (NULL), "open", "closed" or "freed"
  mutex,     \* the client that holds the mutex of the safe file, or NULL
  ticks      \* expirations of the timer so far

vars == << main, socket, current, slots, thread, pending, signaled, file, mutex, ticks >>
world == << pending, signaled, ticks >>

\* What server_exit does, in its order.
Exiting == {"exit_close", "exit_destroy", "exit_join", "exited"}

\* A client thread from pthread_create to pthread_join.
OnFile == {"writing", "reading"}
Working == {"write", "read"} \cup OnFile
Finished == {"ending", "ended", "joined"}
Created == {"start", "recv", "storing", "stuck"} \cup Working \cup Finished

TypeOK ==
  /\ main \in {"check", "listening", "accept", "open", "find", "join", "init", "crashed"} \cup Exiting
  /\ socket \in Clients \cup {NULL}
  /\ current \in 0 .. Len(slots) + 1
  /\ slots \in Seq([thread : Clients, status : {"unknown", "in_progress", "processed"}])
  /\ thread \in [Clients -> Created \cup {"none"}]
  /\ pending \subseteq Clients
  /\ signaled \in BOOLEAN
  /\ file \in {"none", "open", "closed", "freed"}
  /\ mutex \in Clients \cup {NULL}
  /\ ticks \in 0 .. MaxTicks

Init ==
  /\ main = "check"
  /\ socket = NULL
  /\ current = 0
  /\ slots = << >>
  /\ thread = [c \in Clients |-> "none"]
  /\ pending = {}
  /\ signaled = FALSE
  /\ file = "none"
  /\ mutex = NULL
  /\ ticks = 0

\* What else may become of the main thread's step when it uses a file that was freed.
OnFreedFile == IF file = "freed" THEN {"crashed"} ELSE {}

Running == main \notin {"exited", "crashed"}

-----------------------------------------------------------------------------
(* run_server *)

\* check_signal
CheckSignal ==
  /\ main = "check"
  /\ main' = IF signaled THEN "exit_close" ELSE "listening"
  /\ UNCHANGED << socket, current, slots, thread, file, mutex, world >>

ListenFails ==
  /\ "listen" \in Failures
  /\ main = "listening"
  /\ main' = "exit_close"
  /\ UNCHANGED << socket, current, slots, thread, file, mutex, world >>

BlockInAccept ==
  /\ main = "listening"
  /\ main' = "accept"
  /\ UNCHANGED << socket, current, slots, thread, file, mutex, world >>

Accept ==
  /\ main = "accept"
  /\ \E c \in pending : pending' = pending \ {c} /\ socket' = c
  /\ main' = "open"
  /\ UNCHANGED << current, slots, thread, signaled, file, mutex, ticks >>

\* For another reason than a signal.
AcceptFails ==
  /\ "accept" \in Failures
  /\ main = "accept"
  /\ main' = IF signaled THEN "exit_close" ELSE "check"
  /\ UNCHANGED << socket, current, slots, thread, file, mutex, world >>

\* The first client opens the file.
OpenFile ==
  /\ main = "open"
  /\ file' = "open"
  /\ main' = "find"
  /\ UNCHANGED << socket, current, slots, thread, mutex, world >>

\* Mutant: goes on without the file.
OpenFileFailsUnnoticed ==
  /\ "open" \in Failures
  /\ main = "open" /\ file = "none"
  /\ file' = "freed"
  /\ main' = "find"
  /\ UNCHANGED << socket, current, slots, thread, mutex, world >>

\* safe_file_init cannot allocate the file, or frees it when it cannot be opened; but
\* then it has already stored the pointer.
OpenFileFails ==
  /\ "open" \in Failures
  /\ main = "open" /\ file = "none"
  /\ file' \in {"none", "freed"}
  /\ main' = "exit_close"
  /\ UNCHANGED << socket, current, slots, thread, mutex, world >>

Processed == {k \in DOMAIN slots : slots[k].status = "processed"}

\* list_find_if: the first client that is processed, or a new item at the end.
FindProcessed ==
  /\ main = "find"
  /\ IF Processed # {}
     THEN current' = Min(Processed) /\ main' = "join"
     ELSE current' = Len(slots) + 1 /\ main' = "init"
  /\ UNCHANGED << socket, slots, thread, file, mutex, world >>

\* Mutant: the thread is left alone.
JoinNothing(c) == UNCHANGED thread

\* pthread_join: waits for the thread to end.
Join(c) == thread[c] = "ended" /\ thread' = [thread EXCEPT ![c] = "joined"]

JoinProcessed ==
  /\ main = "join"
  /\ Join(slots[current].thread)
  /\ main' = "init"
  /\ UNCHANGED << socket, current, slots, file, mutex, world >>

\* Mutant: the parameters are not copied.
ClientOfNobody == [thread |-> NULL, status |-> "unknown"]

\* Mutant: an item that is reused keeps its status.
ClientWithOldStatus ==
  [thread |-> socket,
   status |-> IF current \in DOMAIN slots THEN slots[current].status ELSE "unknown"]

NewClient == [thread |-> socket, status |-> "unknown"]

\* init_client, for an item that is reused or emplaced
InitClient ==
  /\ main = "init"
  /\ slots' = IF current > Len(slots) THEN Append(slots, NewClient)
              ELSE [slots EXCEPT ![current] = NewClient]
  /\ thread' = [thread EXCEPT ![socket] = "start"]
  /\ socket' = NULL
  /\ current' = 0
  /\ main' = "check"
  /\ UNCHANGED << file, mutex, world >>

\* pthread_create fails: a new item is removed, one that is reused keeps its old thread.
InitClientFails ==
  /\ "thread" \in Failures
  /\ main = "init"
  /\ slots' = IF current > Len(slots) THEN slots ELSE [slots EXCEPT ![current].status = "unknown"]
  /\ current' = 0
  /\ main' = "exit_close"
  /\ UNCHANGED << socket, thread, file, mutex, world >>

-----------------------------------------------------------------------------
(* server_exit *)

\* safe_file_close, without the mutex
CloseFile ==
  /\ main = "exit_close"
  /\ file' = IF file = "open" THEN "closed" ELSE file
  /\ main' \in {"exit_destroy"} \cup OnFreedFile
  /\ UNCHANGED << socket, current, slots, thread, mutex, world >>

\* safe_file_destroy frees a file once more, or does not free a file whose mutex is held.  The data file is removed.
DestroyFile ==
  /\ main = "exit_destroy"
  /\ file' = IF file = "closed" /\ mutex = NULL THEN "freed" ELSE file
  /\ current' = 1
  /\ main' \in {"exit_join"} \cup OnFreedFile
  /\ UNCHANGED << socket, slots, thread, mutex, world >>

\* Mutant: does not wait for the threads that still run.
JoinEndedClients ==
  /\ main = "exit_join"
  /\ thread' = [c \in Clients |-> IF thread[c] = "ended" THEN "joined" ELSE thread[c]]
  /\ main' = "exited"
  /\ UNCHANGED << socket, current, slots, file, mutex, world >>

\* list_for_each(join_client_thread) stops at the first error.  Joining a thread once
\* more is undefined: an error at best.
JoinClients ==
  /\ main = "exit_join"
  /\ \/ /\ current \in DOMAIN slots
        /\ Join(slots[current].thread)
        /\ current' = current + 1
        /\ main' = main
     \/ /\ current \in DOMAIN slots /\ thread[slots[current].thread] = "joined"
        /\ main' \in {"exited", "crashed"}
        /\ UNCHANGED << current, thread >>
     \/ /\ current \notin DOMAIN slots
        /\ main' = "exited"
        /\ UNCHANGED << current, thread >>
  /\ UNCHANGED << socket, slots, file, mutex, world >>

-----------------------------------------------------------------------------
(* handle_client *)

SlotOf(c) == CHOOSE k \in DOMAIN slots : slots[k].thread = c

Step(c, from, to) ==
  /\ Running
  /\ thread[c] = from
  /\ thread' = [thread EXCEPT ![c] = to]
  /\ UNCHANGED << main, socket, current, file, world >>

SetStatus(c, status) == slots' = [slots EXCEPT ![SlotOf(c)].status = status]

Start(c) ==
  /\ Step(c, "start", "recv")
  /\ SetStatus(c, "in_progress")
  /\ UNCHANGED mutex

Recv(c) ==
  /\ c \notin Silent
  /\ \/ Step(c, "recv", "write")
     \/ "recv" \in Failures /\ Step(c, "recv", "storing")
  /\ UNCHANGED << slots, mutex >>

\* The checks and the lock at the start of safe_file_seek_and_write and of
\* safe_file_read_range.
UseFile(c) ==
  \/ /\ file = "open" /\ (Step(c, "write", "writing") \/ Step(c, "read", "reading"))
     /\ mutex = NULL /\ mutex' = c
     /\ UNCHANGED slots
  \/ /\ file # "open" /\ (Step(c, "write", "storing") \/ Step(c, "read", "storing"))
     /\ UNCHANGED << slots, mutex >>

\* Mutant: a reply keeps the mutex.
LeaveFileLocked(c) ==
  /\ \/ Step(c, "reading", "storing")
     \/ file = "open" /\ Step(c, "writing", "read")
     \/ file # "open" /\ Step(c, "writing", "storing")
  /\ mutex' = IF thread[c] = "reading" THEN mutex ELSE NULL
  /\ UNCHANGED slots

\* The system calls fail once the descriptor is closed.
LeaveFile(c) ==
  /\ \/ Step(c, "reading", "storing")
     \/ file = "open" /\ Step(c, "writing", "read")
     \/ file # "open" /\ Step(c, "writing", "storing")
  /\ mutex' = NULL
  /\ UNCHANGED slots

\* What else may become of a thread when its mutex was destroyed and freed.
UseFreedFile(c) ==
  \/ /\ file = "freed" /\ Step(c, "write", "read")
     /\ UNCHANGED << slots, mutex >>
  \/ /\ "hang" \in Failures /\ file = "freed"
     /\ Step(c, "write", "stuck") \/ Step(c, "read", "stuck")
     /\ UNCHANGED << slots, mutex >>
  \/ /\ Running /\ file = "freed" /\ thread[c] \in {"write", "read"}
     /\ main' = "crashed"
     /\ UNCHANGED << socket, current, slots, thread, file, mutex, world >>

\* The last thing a thread does with its client_data.
StoreStatus(c) ==
  /\ Step(c, "storing", "ending")
  /\ SetStatus(c, "processed")
  /\ UNCHANGED mutex

EndThread(c) ==
  /\ Step(c, "ending", "ended")
  /\ UNCHANGED << slots, mutex >>

-----------------------------------------------------------------------------
(* The world *)

Connect(c) ==
  /\ Running
  /\ thread[c] = "none" /\ c \notin pending /\ socket # c
  /\ pending' = pending \cup {c}
  /\ UNCHANGED << main, socket, current, slots, thread, signaled, file, mutex, ticks >>

\* Mutant: an interrupted accept is called again.
SignalMainRetries ==
  /\ Running
  /\ ~signaled
  /\ EarlySignal \/ main = "accept"
  /\ signaled' = TRUE
  /\ main' = IF main = "accept" THEN "listening" ELSE main
  /\ UNCHANGED << socket, current, slots, thread, pending, file, mutex, ticks >>

\* SIGINT or SIGTERM, handled by the main thread
SignalMain ==
  /\ Running
  /\ ~signaled
  /\ EarlySignal \/ main = "accept"
  /\ signaled' = TRUE
  /\ main' = IF main = "accept" THEN "exit_close" ELSE main
  /\ UNCHANGED << socket, current, slots, thread, pending, file, mutex, ticks >>

\* ... or by a client's
SignalClient(c) ==
  /\ EarlySignal
  /\ ~signaled
  /\ signaled' = TRUE
  /\ Running
  /\ thread[c] \in Created \ {"ended", "joined"}
  /\ thread' = [thread EXCEPT ![c] = IF @ = "recv" THEN "storing" ELSE @]
  /\ UNCHANGED << main, socket, current, slots, pending, file, mutex, ticks >>

\* timestamp_callback locks the file, whatever g_loggingFile is: NULL kills the process.
Tick ==
  /\ Running
  /\ ticks < MaxTicks
  /\ ticks' = ticks + 1
  /\ main' \in IF file = "none" THEN {"crashed"} ELSE {main} \cup OnFreedFile
  /\ UNCHANGED << socket, current, slots, thread, pending, signaled, file, mutex >>

-----------------------------------------------------------------------------

Main ==
  \/ CheckSignal \/ ListenFails \/ BlockInAccept \/ Accept \/ OpenFile \/ OpenFileFails
  \/ FindProcessed \/ JoinProcessed \/ InitClient \/ InitClientFails
  \/ CloseFile \/ DestroyFile \/ JoinClients

Client(c) ==
  \/ Start(c) \/ Recv(c) \/ UseFile(c) \/ UseFreedFile(c) \/ LeaveFile(c)
  \/ StoreStatus(c) \/ EndThread(c)

World == SignalMain \/ Tick \/ \E c \in Clients : Connect(c) \/ SignalClient(c)

Next == Main \/ AcceptFails \/ World \/ \E c \in Clients : Client(c)

Spec == Init /\ [][Next]_vars

\* Threads run, and a free mutex goes to one that waits for it.  Nothing obliges a
\* client to connect, accept to fail, a signal to come or a silent client to speak.
FairSpec == Spec /\ WF_vars(Main) /\ \A c \in Clients : WF_vars(Client(c))

-----------------------------------------------------------------------------
(* Properties *)

\* The client_data of a thread is its own from pthread_create to pthread_join: an item
\* is handed to another client only after its thread was joined, and no thread is
\* forgotten.
ThreadsOwnTheirSlots ==
  \A c \in Clients :
    thread[c] \in Created \ {"joined"} =>
      \E k \in DOMAIN slots : \A j \in DOMAIN slots : slots[j].thread = c <=> j = k

\* A status that main takes for processed is final: the thread that set it does not
\* touch its socket, its buffer or the file any more, even when another client's
\* thread used the same item before.
ProcessedIsFinal ==
  \A k \in DOMAIN slots : slots[k].status = "processed" => thread[slots[k].thread] \in Finished

\* Until the server exits, client threads find the file open.
FileOpenWhileServing ==
  main \notin Exiting /\ Running /\ (\E c \in Clients : thread[c] \in Working) => file = "open"

\* The process ends only when the thread of every client it took has ended and was
\* joined: none runs while the list with its client_data is freed, and none is cut off.
\* Whether the client got its answer is another matter: see SendsBeforeRemoval.
NoClientLeftBehind ==
  main = "exited" => \A c \in Clients : thread[c] \in {"none", "joined"}

\* aesdsocket.c: "done all sending operations and REMOVE file": when server_exit has
\* closed and removed the file, no client still has to write to it or to read its reply.
SendsBeforeRemoval == main \in {"exit_join", "exited"} => \A c \in Clients : thread[c] \notin Working

\* aesdsocket.c: connections are accepted until SIGINT or SIGTERM, which end the server.
ExitsAfterSignal == signaled ~> ~Running

\* The thread of a client that was accepted ends, also when a signal comes meanwhile,
\* unless the process is killed.
AcceptedAreFinished ==
  \A c \in Clients : thread[c] = "start" ~> (thread[c] \in {"ended", "joined"} \/ main = "crashed")

\* aesdsocket.c: the file is created if it does not exist: the timer finds it.
TimerFindsFile == main = "crashed" => file # "none"
=============================================================================
