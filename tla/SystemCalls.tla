---------------------------- MODULE SystemCalls ----------------------------
(***************************************************************************)
(* examples/systemcalls/systemcalls.c: do_system, do_exec and              *)
(* do_exec_redirect, called by the threads of one program.  Each forks a   *)
(* child for its command.  do_exec and do_exec_redirect then wait for      *)
(* whichever child of the program ends; system waits for its own.          *)
(*                                                                         *)
(* A command writes a few bytes to its standard output, a byte here being  *)
(* the thread that asked for the command.  Redirected commands all write   *)
(* to one file.                                                            *)
(*                                                                         *)
(* External: the kernel keeps a child that has ended until a thread has    *)
(* its status.                                                             *)
(***************************************************************************)
EXTENDS Integers, Sequences, FiniteSets

CONSTANTS
  Threads,    \* threads that call the functions
  Pids,       \* the process identifiers children can have
  NULL,       \* no process, no thread, and the byte 0
  MaxOutput,  \* bound on the bytes a command writes
  Failures,   \* what may fail: "fork", "open", "dup2", "exec", and "wait": a signal interrupts it
  MixSystem,  \* whether do_system is called while another call is going on
  Unflushed   \* the bytes the program has in its own buffer of stdout when it forks

ASSUME SystemCallsAssumption ==
  /\ NULL \notin Threads \cup Pids
  /\ IsFiniteSet(Threads) /\ IsFiniteSet(Pids)
  /\ MaxOutput \in Nat
  /\ Failures \subseteq {"fork", "open", "dup2", "exec", "wait"}
  /\ MixSystem \in BOOLEAN
  /\ Unflushed \in Seq(Threads)

VARIABLES
  call,    \* the call each thread waits in, or Idle
  result,  \* what the last call to return has returned
  child,   \* what each process does
  file,    \* the bytes in the output file
  alone,   \* history: the thread whose call goes on and has met no other's child
  ended,   \* history: how the child of that call has ended
  interrupted  \* history: how many calls have returned from an interrupted wait

vars == << call, result, child, file, alone, ended, interrupted >>
history == << alone, ended, interrupted >>

Kinds == {"system", "exec", "redirect"}
Stages == {"open", "dup2", "exec", "run"}
Statuses == {"zero", "nonzero", "killed"}

Idle == [kind |-> "none", output |-> 0, pid |-> NULL]
NoProcess == [stage |-> "free", of |-> NULL, output |-> 0, redirected |-> FALSE, offset |-> 0,
              status |-> "zero"]

Live == {p \in Pids : child[p].stage \in Stages}
Zombies == {p \in Pids : child[p].stage = "zombie"}
Waiting == {t \in Threads : call[t] # Idle}

CallRecord == [kind : Kinds, output : 0 .. MaxOutput, pid : Pids] \cup {Idle}

ProcessRecord ==
  [stage : Stages \cup {"free", "zombie"}, of : Threads \cup {NULL}, output : 0 .. MaxOutput,
   redirected : BOOLEAN, offset : 0 .. MaxOutput, status : Statuses]

TypeOK ==
  /\ call \in [Threads -> CallRecord]
  /\ result \in BOOLEAN
  /\ child \in [Pids -> ProcessRecord]
  /\ file \in Seq(Threads \cup {NULL}) /\ (Len(file) <= MaxOutput \/ Len(file) <= Len(Unflushed))
  /\ alone \in Threads \cup {NULL}
  /\ ended \in Statuses \cup {"not", "unopened", "failed"}
  /\ interrupted \in Nat

Init ==
  /\ call = [t \in Threads |-> Idle]
  /\ result = FALSE
  /\ child = [p \in Pids |-> NoProcess]
  /\ file = << >>
  /\ alone = NULL
  /\ ended = "not"
  /\ interrupted = 0

-----------------------------------------------------------------------------
(* The caller *)

\* Unless MixSystem, system is called, and goes on, with no other call around.
MayCall(kind) ==
  ~MixSystem =>
    /\ kind = "system" => Waiting = {}
    /\ \A t \in Waiting : call[t].kind # "system"

\* fork.  The output of a command that is not redirected does not matter.
Call(t, kind, output) ==
  /\ t \notin Waiting /\ MayCall(kind)
  /\ kind # "redirect" => output = 0
  /\ \E p \in Pids :
       /\ child[p].stage = "free"
       /\ child' = [child EXCEPT ![p] =
            [NoProcess EXCEPT !.stage = IF kind = "redirect" THEN "open" ELSE "exec",
                              !.of = t, !.output = output]]
       /\ call' = [call EXCEPT ![t] = [kind |-> kind, output |-> output, pid |-> p]]
  /\ alone' = IF Waiting \cup Live \cup Zombies = {} THEN t ELSE NULL
  /\ ended' = "not"
  /\ UNCHANGED << result, file, interrupted >>

ForkFails(t) ==
  /\ "fork" \in Failures
  /\ t \notin Waiting
  /\ result' = FALSE
  /\ UNCHANGED << call, child, file, history >>

\* Mutant: a command that was killed counts as one that exited with 0.
StatusIsZero(status) == status \in {"zero", "killed"}

\* WIFEXITED and WEXITSTATUS; for system, a status of 0
Succeeded(status) == status = "zero"

Return(t, outcome) ==
  /\ call' = [call EXCEPT ![t] = Idle]
  /\ result' = outcome
  /\ alone' = IF alone = t THEN NULL ELSE alone
  /\ ended' = IF alone = t THEN "not" ELSE ended

Reap(t, p) ==
  /\ Return(t, Succeeded(child[p].status))
  /\ child' = [child EXCEPT ![p] = NoProcess]

\* Mutant: does not wait for a child that still runs.
WaitNoHang(t) ==
  /\ t \in Waiting
  /\ \/ \E p \in Zombies : Reap(t, p)
     \/ Zombies = {} /\ Return(t, FALSE) /\ UNCHANGED child
  /\ UNCHANGED << file, interrupted >>

\* wait, and in system waitpid: with no child to wait for, it fails.
Wait(t) ==
  /\ t \in Waiting
  /\ LET mine == IF call[t].kind = "system" THEN {call[t].pid} ELSE Pids
     IN  \/ \E p \in Zombies \cap mine : Reap(t, p)
         \/ mine \cap (Live \cup Zombies) = {} /\ Return(t, FALSE) /\ UNCHANGED child
  /\ UNCHANGED << file, interrupted >>

\* A signal that the program handles interrupts wait while no child has ended: the call
\* fails and leaves a child.  system waits again.
WaitInterrupted(t) ==
  /\ "wait" \in Failures
  /\ t \in Waiting /\ call[t].kind # "system" /\ Zombies = {}
  /\ Return(t, FALSE)
  /\ interrupted' = interrupted + 1
  /\ UNCHANGED << child, file >>

-----------------------------------------------------------------------------
(* The child *)

\* Process p ends.
Exit(p, status, how) ==
  /\ child' = [child EXCEPT ![p] = [NoProcess EXCEPT !.stage = "zombie", !.status = status]]
  /\ ended' = IF alone = child[p].of THEN how ELSE ended
  /\ UNCHANGED << call, result, alone, interrupted >>

Advance(p, from, to) ==
  /\ child[p].stage = from
  /\ child' = [child EXCEPT ![p].stage = to]
  /\ UNCHANGED << call, result, history >>

\* Mutant: what the file held stays.
OpenKept(p) == Advance(p, "open", "dup2") /\ UNCHANGED file

\* open, with O_TRUNC
Open(p) == Advance(p, "open", "dup2") /\ file' = << >>

Redirect(p) ==
  /\ child[p].stage = "dup2"
  /\ child' = [child EXCEPT ![p].stage = "exec", ![p].redirected = TRUE]
  /\ UNCHANGED << call, result, file, history >>

Exec(p) == Advance(p, "exec", "run") /\ UNCHANGED file

\* A write of bytes at an offset of the file; what is between its end and them is 0.
Written(bytes, offset) ==
  [i \in 1 .. IF Len(file) > offset + Len(bytes) THEN Len(file) ELSE offset + Len(bytes) |->
     IF i \in offset + 1 .. offset + Len(bytes) THEN bytes[i - offset]
     ELSE IF i \in DOMAIN file THEN file[i] ELSE NULL]

\* Mutant: the child returns from the function, and is a second copy of the program.
FailAndReturn(p) ==
  /\ child[p].stage \in Failures
  /\ child' = [child EXCEPT ![p].stage = "program"]
  /\ UNCHANGED << call, result, file, history >>

\* Mutant: the child starts again when it could not redirect its output.
FailAndRetry(p) ==
  /\ child[p].stage = "dup2" /\ "dup2" \in Failures
  /\ child' = [child EXCEPT ![p].stage = "open"]
  /\ UNCHANGED << call, result, file, history >>

\* A call of the child fails: EXIT_FAILURE.  exit flushes the buffer it has inherited.
Fail(p) ==
  /\ child[p].stage \in Failures
  /\ Exit(p, "nonzero", IF child[p].stage = "open" THEN "unopened" ELSE "failed")
  /\ file' = IF child[p].redirected THEN Written(Unflushed, 0) ELSE file

\* The command writes a byte, at its own offset of the file.
CommandWrites(p) ==
  /\ child[p].stage = "run" /\ child[p].offset < child[p].output
  /\ child' = [child EXCEPT ![p].offset = @ + 1]
  /\ file' = IF child[p].redirected THEN Written(<< child[p].of >>, child[p].offset) ELSE file
  /\ UNCHANGED << call, result, history >>

CommandEnds(p) ==
  /\ child[p].stage = "run"
  /\ \E status \in Statuses :
       /\ status = "zero" => child[p].offset = child[p].output
       /\ Exit(p, status, status)
  /\ UNCHANGED file

-----------------------------------------------------------------------------

Child(p) == Open(p) \/ Redirect(p) \/ Exec(p) \/ Fail(p) \/ CommandWrites(p) \/ CommandEnds(p)

Next ==
  \/ \E t \in Threads :
       \/ ForkFails(t) \/ Wait(t) \/ WaitInterrupted(t)
       \/ \E kind \in Kinds, output \in 0 .. MaxOutput : Call(t, kind, output)
  \/ \E p \in Pids : Child(p)

\* Commands come to an end.  A thread in wait is woken each time a child ends, and gets
\* a status if this happens again and again.
Spec ==
  /\ Init /\ [][Next]_vars
  /\ \A p \in Pids : WF_vars(Child(p))
  /\ \A t \in Threads : SF_vars(Wait(t))

-----------------------------------------------------------------------------
(* Properties *)

\* There are as many children whose status nobody has as calls that wait, and one more
\* for each wait that a signal has interrupted: no wait fails for want of a child, and
\* no other zombie is left when the calls have returned.  It holds although wait takes
\* the children of others.
EveryChildIsAwaited == Cardinality(Live \cup Zombies) = Cardinality(Waiting) + interrupted

Returns(t) == t \in Waiting /\ t \notin Waiting'

\* The result is that of the command the function was called with, as its
\* documentation says, for a call that met no other call's child: true exactly when
\* the command was run and has exited with 0.
ResultIsOwnWhenAlone ==
  [][\A t \in Threads : Returns(t) /\ alone = t => result' = (ended = "zero")]_vars

\* When a redirected command has succeeded, the file holds what it wrote, and nothing of
\* what the file held before; and nothing at all if the command could not be run.
FileIsOutputWhenAlone ==
  [][\A t \in Threads :
       Returns(t) /\ alone = t /\ call[t].kind = "redirect" =>
         /\ ended = "zero" => file = [i \in 1 .. call[t].output |-> t]
         /\ ended = "failed" => file = << >>]_vars

\* Every call returns, whichever child each of them waits for.
CallsReturn == \A t \in Threads : t \in Waiting ~> t \notin Waiting
=============================================================================
