------------------------------- MODULE Daemon -------------------------------
(***************************************************************************)
(* server/aesdsocket.c: the program from main on, in the foreground or as  *)
(* a daemon.  A daemon is forked once the socket is bound; its parent      *)
(* waits for SIGQUIT, with the status of the start-up, and exits with it.  *)
(* When the start-up is over, the server is that of ServerLifecycle.       *)
(*                                                                         *)
(* This is the build that writes to the regular file: the other has no     *)
(* timer to create.  The timer first expires after ten seconds, which the  *)
(* start-up does not take.                                                 *)
(*                                                                         *)
(* External: SIGQUIT kills a process that is not in sigwaitinfo, for it is *)
(* not blocked.  sigwaitinfo is interrupted by handlers only, and the      *)
(* parent has none.                                                        *)
(***************************************************************************)
EXTENDS ServerLifecycle

CONSTANTS
  Inherited,       \* descriptors that are open when the program starts
  StartUpFailures  \* stages whose system calls may fail, and "sigqueue"

\* The stages of the start-up, in their order; a server in the foreground leaves out Detaching.
Detaching == << "fork", "setsid", "chdir", "close", "null", "dup2" >>
Preparing == << "signals", "timer_create", "timer_settime", "list", "report" >>

ASSUME DaemonAssumption ==
  /\ Inherited \subseteq 0 .. 2
  /\ StartUpFailures \subseteq
       ({"bind", "sigqueue"} \cup ToSet(Detaching) \cup ToSet(Preparing)) \ {"close", "report"}

VARIABLES
  daemon,  \* opt is 'd'
  stage,   \* the call main makes next, "serving" in the accept loop, or "failed"
  fds,     \* what the descriptors of the server are open for
  base,    \* baseSocket
  parent,  \* what the process that forked the daemon does, "none" before that
  told,    \* the status the parent has received, or NoStatus
  code,    \* the status that a failed start-up ends with, or NoStatus
  stray    \* a signal was sent to the pid of a parent that had ended

report == << parent, told, stray >>
startUp == << daemon, stage, fds, base, code >>
all == << vars, startUp, report >>

EXIT_SUCCESS == 0
GENERAL_ERROR == 1
CANNOT_CREATE_TIMER == 6
NoStatus == -1

Descriptors == 0 .. 3
Gone == {"exited", "killed"}

DaemonTypeOK ==
  /\ TypeOK
  /\ daemon \in BOOLEAN
  /\ stage \in {"bind", "serving", "failed"} \cup ToSet(Detaching) \cup ToSet(Preparing)
  /\ fds \in [Descriptors -> {"closed", "inherited", "socket", "null"}]
  /\ base \in Descriptors \cup {-1}
  /\ parent \in {"none", "forked", "waiting", "informed"} \cup Gone
  /\ parent \in {"informed", "exited"} => told \in {EXIT_SUCCESS, GENERAL_ERROR, CANNOT_CREATE_TIMER}
  /\ code \in {NoStatus, GENERAL_ERROR, CANNOT_CREATE_TIMER}
  /\ stray \in BOOLEAN

DaemonInit ==
  /\ Init
  /\ daemon \in BOOLEAN
  /\ stage = "bind"
  /\ fds = [d \in Descriptors |-> IF d \in Inherited THEN "inherited" ELSE "closed"]
  /\ base = -1
  /\ parent = "none"
  /\ told = NoStatus
  /\ code = NoStatus
  /\ stray = FALSE

-----------------------------------------------------------------------------
(* send_exit_signal_to_parent *)

\* Mutant: the signal carries no status.
ReceiveAlone(status) ==
  /\ parent' = CASE parent = "waiting" -> "informed"
                 [] parent \in {"forked", "informed"} -> "killed"
                 [] OTHER -> parent
  /\ UNCHANGED told

\* What SIGQUIT with this status does to the parent.
Receive(status) ==
  /\ parent' = CASE parent = "waiting" -> "informed"
                 [] parent \in {"forked", "informed"} -> "killed"
                 [] OTHER -> parent
  /\ told' = IF parent = "waiting" THEN status ELSE told

\* If the signal cannot be queued, SIGKILL is sent.
SendExitSignal(status) ==
  IF parent = "none" THEN UNCHANGED report
  ELSE /\ stray' = (stray \/ parent \in Gone)
       /\ \/ Receive(status)
          \/ /\ "sigqueue" \in StartUpFailures /\ parent \notin Gone
             /\ parent' = "killed"
             /\ UNCHANGED told

-----------------------------------------------------------------------------
(* The start-up: init_base_socket, init_demon, init_signals_logic, run_server *)

Starting(s) == stage = s /\ main = "check"

\* Mutant: the start is reported before there is a timer and a list.
ReportEarly(s) ==
  CASE s = "signals" -> "report" [] s = "report" -> "timer_create" [] s = "list" -> "serving"
    [] OTHER -> LET order == Detaching \o Preparing
                IN  order[1 + CHOOSE k \in DOMAIN order : order[k] = s]

StageAfter(s) ==
  LET order == Detaching \o Preparing \o << "serving" >>
  IN  order[1 + CHOOSE k \in DOMAIN order : order[k] = s]

\* The lowest descriptor that is closed: what socket and open return.
NextDescriptor == Min({d \in Descriptors : fds[d] = "closed"})

\* Descriptor 0 is taken for an error.
BindFails == stage = "bind" /\ NextDescriptor = 0

Bind ==
  /\ Starting("bind") /\ ~BindFails
  /\ base' = NextDescriptor
  /\ fds' = [fds EXCEPT ![NextDescriptor] = "socket"]
  /\ stage' = IF daemon THEN "fork" ELSE "signals"
  /\ UNCHANGED << vars, report, daemon, code >>

\* From here on the program is the child.
Fork ==
  /\ Starting("fork")
  /\ parent' = "forked"
  /\ stage' = StageAfter(stage)
  /\ UNCHANGED << vars, told, stray, daemon, fds, base, code >>

\* setsid, chdir, sigaction, timer_create, timer_settime and list_create
Prepare ==
  /\ \E s \in {"setsid", "chdir", "signals", "timer_create", "timer_settime", "list"} : Starting(s)
  /\ stage' = StageAfter(stage)
  /\ UNCHANGED << vars, report, daemon, fds, base, code >>

\* Mutant: every descriptor is closed.
CloseAll ==
  /\ Starting("close")
  /\ fds' = [d \in Descriptors |-> "closed"]
  /\ stage' = StageAfter(stage)
  /\ UNCHANGED << vars, report, daemon, base, code >>

CloseOthers ==
  /\ Starting("close")
  /\ fds' = [d \in Descriptors |-> IF d = base THEN fds[d] ELSE "closed"]
  /\ stage' = StageAfter(stage)
  /\ UNCHANGED << vars, report, daemon, base, code >>

OpenNull ==
  /\ Starting("null")
  /\ fds' = [fds EXCEPT ![NextDescriptor] = "null"]
  /\ stage' = StageAfter(stage)
  /\ UNCHANGED << vars, report, daemon, base, code >>

\* dup2 closes what it replaces.
RedirectToNull ==
  /\ Starting("dup2")
  /\ fds' = [d \in Descriptors |-> IF d \in 0 .. 2 THEN "null" ELSE fds[d]]
  /\ stage' = StageAfter(stage)
  /\ UNCHANGED << vars, report, daemon, base, code >>

ReportStart ==
  /\ Starting("report")
  /\ SendExitSignal(EXIT_SUCCESS)
  /\ stage' = StageAfter(stage)
  /\ UNCHANGED << vars, daemon, fds, base, code >>

FailureCode == IF stage \in {"timer_create", "timer_settime"} THEN CANNOT_CREATE_TIMER ELSE GENERAL_ERROR

\* Mutant: the parent is not told.
FailAlone ==
  /\ Starting(stage)
  /\ stage \in StartUpFailures \/ BindFails
  /\ code' = FailureCode
  /\ main' = IF stage \in {"timer_create", "timer_settime", "list"} THEN "exit_close" ELSE "exited"
  /\ stage' = "failed"
  /\ UNCHANGED << socket, current, slots, thread, file, mutex, world, report, daemon, fds, base >>

\* The call of this stage fails.  run_server goes through server_exit.
Fail ==
  /\ Starting(stage)
  /\ stage \in StartUpFailures \/ BindFails
  /\ SendExitSignal(FailureCode)
  /\ code' = FailureCode
  /\ main' = IF stage \in {"timer_create", "timer_settime", "list"} THEN "exit_close" ELSE "exited"
  /\ stage' = "failed"
  /\ UNCHANGED << socket, current, slots, thread, file, mutex, world, daemon, fds, base >>

\* SIGTERM during the start-up: it kills the server until its handler is there.
SignalStartUp ==
  /\ Starting(stage) /\ stage # "serving"
  /\ ~signaled
  /\ IF stage \in {"bind", "signals"} \cup ToSet(Detaching)
     THEN main' = "crashed" /\ UNCHANGED signaled
     ELSE signaled' = TRUE /\ UNCHANGED main
  /\ UNCHANGED << socket, current, slots, thread, pending, file, mutex, ticks, report, startUp >>

-----------------------------------------------------------------------------
(* The parent *)

Wait ==
  /\ parent = "forked"
  /\ parent' = "waiting"
  /\ UNCHANGED << vars, told, stray, startUp >>

ExitParent ==
  /\ parent = "informed"
  /\ parent' = "exited"
  /\ UNCHANGED << vars, told, stray, startUp >>

-----------------------------------------------------------------------------
(* The server *)

\* After its start-up, or in the server_exit of one that failed.  A failure to open
\* the file is reported once more; no one listens on a socket that is lost.
MainServes ==
  /\ stage = "serving" \/ main \in Exiting
  /\ Main
  /\ IF main = "open" /\ main' = "exit_close" THEN SendExitSignal(GENERAL_ERROR) ELSE UNCHANGED report
  /\ main = "listening" /\ main' = "accept" => fds[base] = "socket"
  /\ UNCHANGED startUp

ClientServed(c) ==
  /\ stage = "serving"
  /\ Client(c)
  /\ UNCHANGED << report, startUp >>

ServedWorld ==
  /\ stage = "serving"
  /\ AcceptFails \/ World
  /\ UNCHANGED << report, startUp >>

-----------------------------------------------------------------------------

StartUp ==
  \/ Bind \/ Fork \/ Prepare \/ CloseOthers \/ OpenNull \/ RedirectToNull \/ ReportStart \/ Fail

Parent == Wait \/ ExitParent

DaemonNext ==
  \/ StartUp \/ SignalStartUp \/ Parent \/ MainServes \/ ServedWorld
  \/ \E c \in Clients : ClientServed(c)

\* Both processes run, and the threads of the server do.
DaemonSpec ==
  /\ DaemonInit /\ [][DaemonNext]_all
  /\ WF_all(StartUp) /\ WF_all(Parent)
  /\ WF_all(MainServes) /\ \A c \in Clients : WF_all(ClientServed(c))

-----------------------------------------------------------------------------
(* Properties *)

\* What the parent exits with is how the start-up went: 0 only when the server is in
\* its loop, or was, and otherwise the code that the server itself ends with.  It is told
\* once: no signal goes to the pid of a parent that has ended, which may be another
\* process's by then.
ParentReportsStartUp ==
  /\ parent = "exited" =>
       IF told = EXIT_SUCCESS THEN stage = "serving" ELSE stage = "failed" /\ told = code
  /\ ~stray

\* A daemon that serves has its socket and nothing else that it was started with.
KeepsSocketOnly ==
  daemon /\ stage = "serving" =>
    fds = [d \in Descriptors |-> IF d = base THEN "socket" ELSE "null"]

\* The process that was started as a daemon ends, so that whoever started it goes on,
\* unless a signal kills the child before it has a handler: the parent is not told.
ParentEnds == parent = "forked" ~> (parent \in Gone \/ main = "crashed")

\* aesdsocket.c: the parent must wait for the signal with the return code from the
\* child.  It is not killed by the signal.
ParentIsNotKilled == parent # "killed"
=============================================================================
