--------------------------- MODULE SystemCallsProofs ---------------------------
(***************************************************************************)
(* What the run of MCSystemCalls checks for two threads and two processes, *)
(* for any finite number of both, and outputs of any length.               *)
(***************************************************************************)
EXTENDS SystemCalls, FiniteSetTheorems, SequenceTheorems, TLAPS

Processes == Live \cup Zombies

\* As long as do_system is called alone, nobody takes the status of its child, so that
\* waitpid finds it.
SystemIsAlone ==
  \A t \in Waiting : call[t].kind = "system" => Waiting = {t} /\ call[t].pid \in Processes

\* The inductive invariant behind EveryChildIsAwaited.
CountInv == TypeOK /\ EveryChildIsAwaited /\ SystemIsAlone

\* How far a redirected command has come: what the file holds at each stage of p, and
\* once it has ended, for a call of t.
FileFollows(t, p) ==
  LET c == child[p]
  IN  /\ c.stage = "open" => ~c.redirected /\ c.offset = 0
      /\ c.stage = "dup2" => ~c.redirected /\ c.offset = 0 /\ file = << >>
      /\ c.stage = "exec" => c.redirected /\ c.offset = 0 /\ file = << >>
      /\ c.stage = "run" => c.redirected /\ c.offset <= c.output /\ file = [i \in 1 .. c.offset |-> t]
      /\ c.stage \in Stages => c.output = call[t].output
      /\ c.stage = "zombie" =>
           /\ ended = "zero" => file = [i \in 1 .. call[t].output |-> t]
           /\ ended = "failed" => file = << >>

\* The call that met no other's child has one child, its own, and ended is how that one
\* has ended.
AloneHasItsChild ==
  \A t \in Threads : alone = t =>
    /\ Waiting = {t}
    /\ LET p == call[t].pid
       IN  /\ Processes = {p}
           /\ child[p].stage \in Stages => child[p].of = t /\ ended = "not"
           /\ child[p].stage = "zombie" => (child[p].status = "zero" <=> ended = "zero")

FileIsItsOutput ==
  \A t \in Threads :
    alone = t /\ t \in Waiting /\ call[t].kind = "redirect" => FileFollows(t, call[t].pid)

AloneInv == TypeOK /\ AloneHasItsChild
FileInv == AloneInv /\ FileIsItsOutput

-----------------------------------------------------------------------------
(* Types *)

LEMMA WrittenIsSeq ==
  ASSUME file \in Seq(Threads \cup {NULL}), NEW bytes \in Seq(Threads \cup {NULL}), NEW offset \in Nat
  PROVE  /\ Written(bytes, offset) \in Seq(Threads \cup {NULL})
         /\ Len(Written(bytes, offset)) =
              IF Len(file) > offset + Len(bytes) THEN Len(file) ELSE offset + Len(bytes)
  <1> DEFINE size == IF Len(file) > offset + Len(bytes) THEN Len(file) ELSE offset + Len(bytes)
  <1>1. size \in Nat
    OBVIOUS
  <1>2. \A i \in 1 .. size :
          (IF i \in offset + 1 .. offset + Len(bytes) THEN bytes[i - offset]
           ELSE IF i \in DOMAIN file THEN file[i] ELSE NULL) \in Threads \cup {NULL}
    OBVIOUS
  <1>3. QED
    BY <1>1, <1>2 DEF Written

\* The child that fork makes, and what becomes of it.
LEMMA ProcessRecords ==
  /\ NoProcess \in ProcessRecord
  /\ \A stage \in {"open", "exec"}, t \in Threads, output \in 0 .. MaxOutput :
       [NoProcess EXCEPT !.stage = stage, !.of = t, !.output = output] \in ProcessRecord
  /\ \A status \in Statuses : [NoProcess EXCEPT !.stage = "zombie", !.status = status] \in ProcessRecord
  /\ \A r \in ProcessRecord :
       /\ r.status \in Statuses /\ r.offset \in 0 .. MaxOutput /\ r.output \in 0 .. MaxOutput
       /\ r.of \in Threads \cup {NULL} /\ r.redirected \in BOOLEAN
       /\ \A stage \in Stages : [r EXCEPT !.stage = stage] \in ProcessRecord
       /\ [r EXCEPT !.stage = "exec", !.redirected = TRUE] \in ProcessRecord
       /\ r.offset < r.output => [r EXCEPT !.offset = @ + 1] \in ProcessRecord
  <1>1. NoProcess \in ProcessRecord
    BY SystemCallsAssumption DEF NoProcess, ProcessRecord, Statuses
  <1>2. \A stage \in {"open", "exec"}, t \in Threads, output \in 0 .. MaxOutput :
          [NoProcess EXCEPT !.stage = stage, !.of = t, !.output = output] \in ProcessRecord
    BY <1>1 DEF ProcessRecord, Stages
  <1>3. \A status \in Statuses : [NoProcess EXCEPT !.stage = "zombie", !.status = status] \in ProcessRecord
    BY <1>1 DEF ProcessRecord
  <1>4. ASSUME NEW r \in ProcessRecord
        PROVE  /\ r.status \in Statuses /\ r.offset \in 0 .. MaxOutput /\ r.output \in 0 .. MaxOutput
               /\ r.of \in Threads \cup {NULL} /\ r.redirected \in BOOLEAN
               /\ \A stage \in Stages : [r EXCEPT !.stage = stage] \in ProcessRecord
               /\ [r EXCEPT !.stage = "exec", !.redirected = TRUE] \in ProcessRecord
               /\ r.offset < r.output => [r EXCEPT !.offset = @ + 1] \in ProcessRecord
    <2> USE SystemCallsAssumption DEF ProcessRecord, Stages
    <2>1. /\ r.status \in Statuses /\ r.offset \in 0 .. MaxOutput /\ r.output \in 0 .. MaxOutput
          /\ r.of \in Threads \cup {NULL} /\ r.redirected \in BOOLEAN
      OBVIOUS
    <2>2. \A stage \in Stages : [r EXCEPT !.stage = stage] \in ProcessRecord
      OBVIOUS
    <2>3. [r EXCEPT !.stage = "exec", !.redirected = TRUE] \in ProcessRecord
      OBVIOUS
    <2>4. r.offset < r.output => [r EXCEPT !.offset = @ + 1] \in ProcessRecord
      OBVIOUS
    <2>5. QED
      BY <2>1, <2>2, <2>3, <2>4
  <1>5. QED
    BY <1>1, <1>2, <1>3, <1>4

LEMMA InitTypeOK == Init => TypeOK
  <1>1. 0 \in 0 .. MaxOutput
    BY SystemCallsAssumption
  <1>2. << >> \in Seq(Threads \cup {NULL}) /\ Len(<< >>) <= MaxOutput
    BY EmptySeq, SystemCallsAssumption
  <1>3. Idle \in CallRecord
    BY DEF CallRecord
  <1>5. 0 \in Nat
    OBVIOUS
  <1>4. QED
    BY <1>1, <1>2, <1>3, <1>5, ProcessRecords DEF Init, TypeOK

LEMMA NextTypeOK == TypeOK /\ [Next]_vars => TypeOK'
  <1> SUFFICES ASSUME TypeOK, [Next]_vars
               PROVE  TypeOK'
    OBVIOUS
  <1>1. ASSUME NEW t \in Threads, ForkFails(t)
        PROVE  TypeOK'
    BY <1>1 DEF ForkFails, TypeOK, history
  <1>2. ASSUME NEW t \in Threads, Wait(t)
        PROVE  TypeOK'
    BY <1>2, ProcessRecords DEF TypeOK, Wait, Reap, Return, Succeeded, Zombies, Live, CallRecord
  <1>12. ASSUME NEW t \in Threads, WaitInterrupted(t)
        PROVE  TypeOK'
    <2>1. /\ call' = [call EXCEPT ![t] = Idle] /\ result' = FALSE
          /\ alone' \in {alone, NULL} /\ ended' \in {ended, "not"}
          /\ child' = child /\ file' = file /\ interrupted' = interrupted + 1
      BY <1>12 DEF WaitInterrupted, Return
    <2>2. call' \in [Threads -> CallRecord]
      BY <2>1 DEF TypeOK, CallRecord
    <2>3. interrupted' \in Nat
      BY <2>1 DEF TypeOK
    <2>4. QED
      BY <2>1, <2>2, <2>3 DEF TypeOK
  <1>3. ASSUME NEW t \in Threads, NEW kind \in Kinds, NEW output \in 0 .. MaxOutput, Call(t, kind, output)
        PROVE  TypeOK'
    <2>1. PICK p \in Pids :
            /\ child' = [child EXCEPT ![p] =
                 [NoProcess EXCEPT !.stage = IF kind = "redirect" THEN "open" ELSE "exec",
                                   !.of = t, !.output = output]]
            /\ call' = [call EXCEPT ![t] = [kind |-> kind, output |-> output, pid |-> p]]
      BY <1>3 DEF Call
    <2>2. [kind |-> kind, output |-> output, pid |-> p] \in CallRecord
      BY DEF CallRecord
    <2>3. call' \in [Threads -> CallRecord] /\ child' \in [Pids -> ProcessRecord]
      BY <2>1, <2>2, ProcessRecords DEF TypeOK
    <2>4. QED
      BY <1>3, <2>3 DEF TypeOK, Call
  <1>4. ASSUME NEW p \in Pids, Open(p)
        PROVE  TypeOK'
    <2>1. file' \in Seq(Threads \cup {NULL}) /\ Len(file') <= MaxOutput
      BY <1>4, EmptySeq, SystemCallsAssumption DEF Open
    <2>2. QED
      BY <1>4, <2>1, ProcessRecords DEF TypeOK, Open, Advance, history, Stages
  <1>5. ASSUME NEW p \in Pids, Redirect(p)
        PROVE  TypeOK'
    BY <1>5, ProcessRecords DEF TypeOK, Redirect, history, Stages
  <1>6. ASSUME NEW p \in Pids, Exec(p)
        PROVE  TypeOK'
    BY <1>6, ProcessRecords DEF TypeOK, Exec, Advance, history, Stages
  <1>7. ASSUME NEW p \in Pids, Fail(p)
        PROVE  TypeOK'
    <2>1. Unflushed \in Seq(Threads \cup {NULL})
      BY SystemCallsAssumption, SeqMonotonic
    <2>2. /\ Written(Unflushed, 0) \in Seq(Threads \cup {NULL})
          /\ Len(Written(Unflushed, 0)) = IF Len(file) > Len(Unflushed) THEN Len(file) ELSE Len(Unflushed)
      BY <2>1, WrittenIsSeq DEF TypeOK
    <2>3. /\ file' \in Seq(Threads \cup {NULL})
          /\ Len(file') <= MaxOutput \/ Len(file') <= Len(Unflushed)
      BY <1>7, <2>1, <2>2 DEF TypeOK, Fail
    <2>4. QED
      BY <1>7, <2>3, ProcessRecords DEF TypeOK, Fail, Exit, Statuses
  <1>8. ASSUME NEW p \in Pids, CommandWrites(p)
        PROVE  TypeOK'
    <2>1. /\ child[p].of \in Threads \cup {NULL}
          /\ child[p].offset \in 0 .. MaxOutput /\ child[p].output \in 0 .. MaxOutput
          /\ [child[p] EXCEPT !.offset = @ + 1] \in ProcessRecord
      BY <1>8, ProcessRecords DEF TypeOK, CommandWrites
    <2> DEFINE bytes == << child[p].of >>
    <2>2. bytes \in Seq(Threads \cup {NULL}) /\ Len(bytes) = 1
      BY <2>1
    <2>3. /\ file' \in Seq(Threads \cup {NULL})
          /\ Len(file') <= MaxOutput \/ Len(file') <= Len(Unflushed)
      <3>1. file \in Seq(Threads \cup {NULL}) /\ child[p].offset \in Nat
        BY <2>1 DEF TypeOK
      <3>2. /\ Written(bytes, child[p].offset) \in Seq(Threads \cup {NULL})
            /\ Len(Written(bytes, child[p].offset)) =
                 IF Len(file) > child[p].offset + 1 THEN Len(file) ELSE child[p].offset + 1
        <4> HIDE DEF bytes
        <4>1. QED
          BY <2>2, <3>1, WrittenIsSeq
      <3>3. QED
        BY <1>8, <2>1, <3>2, SystemCallsAssumption DEF TypeOK, CommandWrites
    <2>4. child' \in [Pids -> ProcessRecord]
      BY <1>8, <2>1 DEF TypeOK, CommandWrites
    <2>5. QED
      BY <1>8, <2>3, <2>4 DEF TypeOK, CommandWrites, history
  <1>9. ASSUME NEW p \in Pids, CommandEnds(p)
        PROVE  TypeOK'
    BY <1>9, ProcessRecords DEF TypeOK, CommandEnds, Exit, Statuses
  <1>10. CASE UNCHANGED vars
    BY <1>10 DEF TypeOK, vars
  <1>11. QED
    BY <1>1, <1>2, <1>3, <1>4, <1>5, <1>6, <1>7, <1>8, <1>9, <1>10, <1>12 DEF Next, Child

-----------------------------------------------------------------------------
(* What each kind of step does to the calls that wait and to the processes *)

LEMMA Finite ==
  /\ IsFiniteSet(Waiting)
  /\ IsFiniteSet(Processes)
  <1>1. Waiting \subseteq Threads /\ Processes \subseteq Pids
    BY DEF Waiting, Processes, Live, Zombies
  <1>2. QED
    BY <1>1, SystemCallsAssumption, FS_Subset

\* A child goes on and ends without its caller, and stays until it is waited for.
LEMMA ChildKeepsProcesses ==
  ASSUME TypeOK, NEW p \in Pids, Child(p)
  PROVE  /\ call' = call /\ alone' = alone /\ interrupted' = interrupted
         /\ p \in Live
         /\ \A q \in Pids : q # p => child'[q] = child[q]
         /\ Waiting' = Waiting /\ Processes' = Processes
  <1>1. call' = call /\ alone' = alone /\ interrupted' = interrupted
    BY DEF Child, Open, Redirect, Exec, Fail, CommandWrites, CommandEnds, Advance, Exit, history
  <1>2. child[p].stage \in Stages
    BY SystemCallsAssumption
    DEF TypeOK, ProcessRecord, Child, Open, Redirect, Exec, Fail, CommandWrites, CommandEnds, Advance, Stages
  <1>3. child'[p].stage \in Stages \cup {"zombie"} /\ \A q \in Pids : q # p => child'[q] = child[q]
    BY <1>2 DEF TypeOK, ProcessRecord, Child, Open, Redirect, Exec, Fail, CommandWrites, CommandEnds,
                Advance, Exit, NoProcess, Stages
  <1>4. QED
    BY <1>1, <1>2, <1>3 DEF Waiting, Processes, Live, Zombies

Adds(t, kind, output, p) ==
  /\ p \notin Processes /\ Processes' = Processes \cup {p}
  /\ t \notin Waiting /\ Waiting' = Waiting \cup {t}
  /\ call' = [call EXCEPT ![t] = [kind |-> kind, output |-> output, pid |-> p]]
  /\ child' = [child EXCEPT ![p] =
       [NoProcess EXCEPT !.stage = IF kind = "redirect" THEN "open" ELSE "exec",
                         !.of = t, !.output = output]]

\* A call adds its thread and one process.
LEMMA CallAddsProcess ==
  ASSUME TypeOK, NEW t \in Threads, NEW kind \in Kinds, NEW output \in 0 .. MaxOutput, Call(t, kind, output)
  PROVE  \E p \in Pids : Adds(t, kind, output, p)
  <1>1. PICK p \in Pids :
          /\ child[p].stage = "free"
          /\ child' = [child EXCEPT ![p] =
               [NoProcess EXCEPT !.stage = IF kind = "redirect" THEN "open" ELSE "exec",
                                 !.of = t, !.output = output]]
          /\ call' = [call EXCEPT ![t] = [kind |-> kind, output |-> output, pid |-> p]]
    BY DEF Call
  <1>2. p \notin Processes
    BY <1>1 DEF Processes, Live, Zombies, Stages
  <1>3. t \notin Waiting /\ Waiting' = Waiting \cup {t}
    BY <1>1 DEF Call, TypeOK, Waiting, Kinds, Idle
  <1>4. Processes' = Processes \cup {p}
    BY <1>1 DEF TypeOK, NoProcess, Processes, Live, Zombies, Stages
  <1>5. QED
    BY <1>1, <1>2, <1>3, <1>4 DEF Adds

\* A call that returns from wait takes a process that has ended, or there was none for it.
LEMMA WaitTakesProcess ==
  ASSUME TypeOK, NEW t \in Threads, Wait(t)
  PROVE  /\ t \in Waiting /\ Waiting' = Waiting \ {t} /\ call' = [call EXCEPT ![t] = Idle]
         /\ alone' = (IF alone = t THEN NULL ELSE alone) /\ interrupted' = interrupted
         /\ \/ \E p \in Zombies :
                 /\ call[t].kind = "system" => p = call[t].pid
                 /\ Processes' = Processes \ {p}
                 /\ result' = (child[p].status = "zero")
            \/ Processes \cap (IF call[t].kind = "system" THEN {call[t].pid} ELSE Pids) = {}
  <1>1. /\ t \in Waiting /\ call' = [call EXCEPT ![t] = Idle]
        /\ alone' = (IF alone = t THEN NULL ELSE alone) /\ interrupted' = interrupted
    BY DEF Wait, Reap, Return
  <1>2. Waiting' = Waiting \ {t}
    BY <1>1 DEF TypeOK, Waiting
  <1>3. ASSUME NEW p \in Zombies, Reap(t, p)
        PROVE  Processes' = Processes \ {p} /\ result' = (child[p].status = "zero")
    BY <1>3 DEF Reap, Return, Succeeded, TypeOK, NoProcess, Processes, Live, Zombies, Stages
  <1>4. QED
    BY <1>1, <1>2, <1>3 DEF Wait, Processes

\* A call whose wait is interrupted leaves all processes.
LEMMA InterruptedKeepsProcesses ==
  ASSUME TypeOK, NEW t \in Threads, WaitInterrupted(t)
  PROVE  /\ t \in Waiting /\ Waiting' = Waiting \ {t} /\ call' = [call EXCEPT ![t] = Idle]
         /\ alone' = (IF alone = t THEN NULL ELSE alone) /\ interrupted' = interrupted + 1
         /\ call[t].kind # "system" /\ Zombies = {} /\ result' = FALSE
         /\ Processes' = Processes
  <1>1. /\ t \in Waiting /\ call' = [call EXCEPT ![t] = Idle]
        /\ alone' = (IF alone = t THEN NULL ELSE alone) /\ interrupted' = interrupted + 1
        /\ call[t].kind # "system" /\ Zombies = {} /\ result' = FALSE
        /\ child' = child
    BY DEF WaitInterrupted, Return
  <1>2. Waiting' = Waiting \ {t}
    BY <1>1 DEF TypeOK, Waiting
  <1>3. QED
    BY <1>1, <1>2 DEF Processes, Live, Zombies

\* The other calls go on when one returns.
LEMMA OthersStillWait ==
  ASSUME TypeOK, NEW t \in Threads, Waiting' = Waiting \ {t}, call' = [call EXCEPT ![t] = Idle]
  PROVE  \A u \in Waiting' : u \in Waiting /\ u # t /\ call'[u] = call[u]
  BY DEF TypeOK, Waiting

-----------------------------------------------------------------------------
(* Every child is awaited *)

LEMMA InitCountInv == Init => CountInv
  <1> SUFFICES ASSUME Init
               PROVE  CountInv
    OBVIOUS
  <1>1. Waiting = {}
    BY DEF Init, Waiting
  <1>2. Processes = {}
    BY DEF Init, NoProcess, Processes, Live, Zombies, Stages
  <1>3. Cardinality(Waiting) = 0 /\ Cardinality(Processes) = 0
    BY <1>1, <1>2, FS_EmptySet
  <1>4. interrupted = 0
    BY DEF Init
  <1>5. EveryChildIsAwaited
    BY <1>3, <1>4 DEF EveryChildIsAwaited, Processes
  <1>6. QED
    BY <1>1, <1>5, InitTypeOK DEF CountInv, SystemIsAlone

LEMMA NextCountInv ==
  ASSUME ~MixSystem
  PROVE  CountInv /\ [Next]_vars => CountInv'
  <1> SUFFICES ASSUME CountInv, [Next]_vars
               PROVE  EveryChildIsAwaited' /\ SystemIsAlone'
    BY NextTypeOK DEF CountInv
  <1>1. /\ TypeOK /\ Cardinality(Processes) = Cardinality(Waiting) + interrupted
        /\ interrupted \in Nat /\ Cardinality(Waiting) \in Nat /\ Cardinality(Processes) \in Nat
    BY Finite, FS_CardinalityType DEF CountInv, EveryChildIsAwaited, Processes, TypeOK
  <1>2. ASSUME NEW t \in Threads, ForkFails(t)
        PROVE  EveryChildIsAwaited' /\ SystemIsAlone'
    BY <1>2 DEF CountInv, ForkFails, EveryChildIsAwaited, SystemIsAlone, Waiting, Processes, Live, Zombies, history
  <1>3. ASSUME NEW t \in Threads, Wait(t)
        PROVE  EveryChildIsAwaited' /\ SystemIsAlone'
    <2>1. Waiting # {}
      BY <1>1, <1>3, WaitTakesProcess
    <2>2. Processes # {}
      <3>1. Cardinality(Waiting) # 0 /\ (Processes = {} => Cardinality(Processes) = 0)
        BY <2>1, Finite, FS_EmptySet
      <3>2. QED
        BY <1>1, <3>1
    <2>3. Processes \cap (IF call[t].kind = "system" THEN {call[t].pid} ELSE Pids) # {}
      <3>1. Processes \subseteq Pids
        BY DEF Processes, Live, Zombies
      <3>2. QED
        BY <1>1, <1>3, <2>2, <3>1, WaitTakesProcess DEF CountInv, SystemIsAlone
    <2>4. PICK p \in Processes : Processes' = Processes \ {p}
      BY <1>1, <1>3, <2>3, WaitTakesProcess DEF Processes
    <2>5. Cardinality(Waiting') = Cardinality(Waiting) - 1
      BY <1>1, <1>3, Finite, FS_RemoveElement, WaitTakesProcess
    <2>6. Cardinality(Processes') = Cardinality(Processes) - 1
      BY <2>4, Finite, FS_RemoveElement
    <2>7. SystemIsAlone'
      <3>1. t \in Waiting /\ Waiting' = Waiting \ {t} /\ call' = [call EXCEPT ![t] = Idle]
        BY <1>1, <1>3, WaitTakesProcess
      <3>2. \A u \in Waiting' : u \in Waiting /\ u # t /\ call'[u] = call[u]
        BY <1>1, <3>1, OthersStillWait
      <3>3. \A u \in Waiting' : call'[u].kind # "system"
        BY <3>1, <3>2 DEF CountInv, SystemIsAlone
      <3>4. QED
        BY <3>3 DEF SystemIsAlone
    <2>8. QED
      <3>1. interrupted' = interrupted
        BY <1>1, <1>3, WaitTakesProcess
      <3>2. QED
        BY <1>1, <2>5, <2>6, <2>7, <3>1 DEF EveryChildIsAwaited, Processes
  <1>8. ASSUME NEW t \in Threads, WaitInterrupted(t)
        PROVE  EveryChildIsAwaited' /\ SystemIsAlone'
    <2>1. /\ t \in Waiting /\ Waiting' = Waiting \ {t} /\ call' = [call EXCEPT ![t] = Idle]
          /\ interrupted' = interrupted + 1 /\ Processes' = Processes
      BY <1>1, <1>8, InterruptedKeepsProcesses
    <2>2. Cardinality(Waiting') = Cardinality(Waiting) - 1
      BY <2>1, Finite, FS_RemoveElement
    <2>3. SystemIsAlone'
      <3>1. \A u \in Waiting' : u \in Waiting /\ u # t /\ call'[u] = call[u]
        BY <1>1, <2>1, OthersStillWait
      <3>2. \A u \in Waiting' : call'[u].kind # "system"
        BY <2>1, <3>1 DEF CountInv, SystemIsAlone
      <3>3. QED
        BY <3>2 DEF SystemIsAlone
    <2>4. Cardinality(Processes') = Cardinality(Waiting') + interrupted'
      <3>1. Cardinality(Processes') = Cardinality(Processes)
        BY <2>1
      <3>2. QED
        BY <1>1, <2>1, <2>2, <3>1
    <2>5. EveryChildIsAwaited'
      BY <2>4 DEF EveryChildIsAwaited, Processes
    <2>6. QED
      BY <2>3, <2>5
  <1>4. ASSUME NEW t \in Threads, NEW kind \in Kinds, NEW output \in 0 .. MaxOutput, Call(t, kind, output)
        PROVE  EveryChildIsAwaited' /\ SystemIsAlone'
    <2>1. PICK p \in Pids : Adds(t, kind, output, p)
      BY <1>1, <1>4, CallAddsProcess
    <2>2. Cardinality(Waiting') = Cardinality(Waiting) + 1 /\ Cardinality(Processes') = Cardinality(Processes) + 1
      BY <2>1, Finite, FS_AddElement DEF Adds
    <2>3. CASE kind = "system"
      <3>1. Waiting = {}
        BY <1>4, <2>3 DEF Call, MayCall
      <3>2. call'[t].pid = p /\ Waiting' = {t} /\ p \in Processes'
        BY <1>1, <2>1, <3>1 DEF Adds, TypeOK
      <3>3. SystemIsAlone'
        BY <3>2 DEF SystemIsAlone
      <3>4. interrupted' = interrupted
        BY <1>4 DEF Call
      <3>5. QED
        BY <1>1, <2>2, <3>3, <3>4 DEF EveryChildIsAwaited, Processes
    <2>4. CASE kind # "system"
      <3>1. \A u \in Waiting : call[u].kind # "system"
        BY <1>4 DEF Call, MayCall
      <3>2. QED
        BY <1>1, <1>4, <2>1, <2>2, <2>4, <3>1
        DEF Call, Adds, TypeOK, Waiting, EveryChildIsAwaited, SystemIsAlone, Processes
    <2>5. QED
      BY <2>3, <2>4
  <1>5. ASSUME NEW p \in Pids, Child(p)
        PROVE  EveryChildIsAwaited' /\ SystemIsAlone'
    BY <1>1, <1>5, ChildKeepsProcesses DEF CountInv, EveryChildIsAwaited, SystemIsAlone, Processes
  <1>6. CASE UNCHANGED vars
    BY <1>6 DEF CountInv, vars, EveryChildIsAwaited, SystemIsAlone, Waiting, Processes, Live, Zombies
  <1>7. QED
    BY <1>2, <1>3, <1>4, <1>5, <1>6, <1>8 DEF Next

-----------------------------------------------------------------------------
(* A call that is alone *)

LEMMA InitAloneInv == Init => AloneInv
  BY InitTypeOK, SystemCallsAssumption DEF Init, AloneInv, AloneHasItsChild

\* The child that goes on while a call is alone is the child of that call.
LEMMA ChildOfTheCall ==
  ASSUME AloneInv, NEW p \in Pids, Child(p), NEW t \in Threads, alone = t
  PROVE  /\ t \in Waiting /\ call[t].pid = p /\ Processes = {p}
         /\ child[p].of = t /\ ended = "not"
  <1>1. p \in Processes /\ child[p].stage \in Stages
    BY ChildKeepsProcesses DEF AloneInv, Processes, Live
  <1>2. QED
    BY <1>1 DEF AloneInv, AloneHasItsChild

\* A child that goes on is of the same thread; when it ends, ended is set if it is the
\* child of the call that is alone.
LEMMA ChildSteps ==
  ASSUME TypeOK, NEW p \in Pids, Child(p)
  PROVE  \/ child'[p].stage \in Stages /\ child'[p].of = child[p].of
            /\ ended' = ended
         \/ /\ child'[p].stage = "zombie"
            /\ alone = child[p].of => (child'[p].status = "zero" <=> ended' = "zero")
  <1>1. ASSUME Open(p) \/ Redirect(p) \/ Exec(p)
        PROVE  child'[p].stage \in Stages /\ child'[p].of = child[p].of /\ ended' = ended
    BY <1>1 DEF TypeOK, ProcessRecord, Open, Redirect, Exec, Advance, Stages, history
  <1>2. ASSUME CommandWrites(p)
        PROVE  child'[p].stage \in Stages /\ child'[p].of = child[p].of /\ ended' = ended
    BY <1>2 DEF TypeOK, ProcessRecord, CommandWrites, Stages, history
  <1>3. ASSUME NEW status, NEW how, Exit(p, status, how), status = "zero" <=> how = "zero"
        PROVE  /\ child'[p].stage = "zombie"
               /\ alone = child[p].of => (child'[p].status = "zero" <=> ended' = "zero")
    BY <1>3 DEF TypeOK, Exit, NoProcess
  <1>4. Fail(p) => \E how : Exit(p, "nonzero", how) /\ how # "zero"
    BY DEF Fail
  <1>5. CommandEnds(p) => \E status : Exit(p, status, status)
    BY DEF CommandEnds
  <1>6. QED
    BY <1>1, <1>2, <1>3, <1>4, <1>5 DEF Child

LEMMA NextAloneInv == AloneInv /\ [Next]_vars => AloneInv'
  <1> SUFFICES ASSUME AloneInv, [Next]_vars
               PROVE  AloneHasItsChild'
    BY NextTypeOK DEF AloneInv
  <1>1. TypeOK
    BY DEF AloneInv
  <1>2. ASSUME NEW t \in Threads, ForkFails(t)
        PROVE  AloneHasItsChild'
    BY <1>2 DEF AloneInv, AloneHasItsChild, ForkFails, Waiting, Processes, Live, Zombies, history
  <1>3. ASSUME NEW t \in Threads, Wait(t) \/ WaitInterrupted(t)
        PROVE  AloneHasItsChild'
    <2> SUFFICES ASSUME NEW u \in Threads, alone' = u
                 PROVE  FALSE
      BY DEF AloneHasItsChild
    <2>1. t \in Waiting /\ alone' = (IF alone = t THEN NULL ELSE alone)
      BY <1>1, <1>3, WaitTakesProcess, InterruptedKeepsProcesses
    <2>2. alone = u /\ u # t
      BY <2>1, SystemCallsAssumption
    <2>3. QED
      BY <2>1, <2>2 DEF AloneInv, AloneHasItsChild
  <1>4. ASSUME NEW t \in Threads, NEW kind \in Kinds, NEW output \in 0 .. MaxOutput, Call(t, kind, output)
        PROVE  AloneHasItsChild'
    <2>1. PICK p \in Pids : Adds(t, kind, output, p)
      BY <1>1, <1>4, CallAddsProcess
    <2> SUFFICES ASSUME NEW u \in Threads, alone' = u
                 PROVE  /\ Waiting' = {u} /\ Processes' = {call'[u].pid}
                        /\ child'[call'[u].pid].stage # "zombie" /\ child'[call'[u].pid].of = u
                        /\ ended' = "not"
      BY DEF AloneHasItsChild
    <2>2. u = t /\ Waiting = {} /\ Processes = {}
      BY <1>4, SystemCallsAssumption DEF Call, Processes
    <2>3. Waiting' = {t} /\ Processes' = {p} /\ call'[t].pid = p
      BY <1>1, <2>1, <2>2 DEF Adds, TypeOK
    <2>4. child'[p].stage # "zombie" /\ child'[p].of = t
      BY <1>1, <2>1 DEF Adds, TypeOK, NoProcess
    <2>5. QED
      BY <1>4, <2>2, <2>3, <2>4 DEF Call
  <1>5. ASSUME NEW p \in Pids, Child(p)
        PROVE  AloneHasItsChild'
    <2> SUFFICES ASSUME NEW t \in Threads, alone' = t
                 PROVE  /\ Waiting' = {t}
                        /\ Processes' = {p} /\ call'[t].pid = p
                        /\ child'[p].stage \in Stages => child'[p].of = t /\ ended' = "not"
                        /\ child'[p].stage = "zombie" => (child'[p].status = "zero" <=> ended' = "zero")
      BY DEF AloneHasItsChild
    <2>1. alone = t /\ call' = call /\ Waiting' = Waiting /\ Processes' = Processes
      BY <1>1, <1>5, ChildKeepsProcesses
    <2>2. t \in Waiting /\ call[t].pid = p /\ Processes = {p} /\ child[p].of = t /\ ended = "not"
      BY <1>5, <2>1, ChildOfTheCall
    <2>3. \/ child'[p].stage \in Stages /\ child'[p].of = t /\ ended' = "not"
          \/ child'[p].stage = "zombie" /\ (child'[p].status = "zero" <=> ended' = "zero")
      BY <1>1, <1>5, <2>1, <2>2, ChildSteps
    <2>4. "zombie" \notin Stages
      BY DEF Stages
    <2>5. Waiting = {t}
      BY <2>1 DEF AloneInv, AloneHasItsChild
    <2>6. QED
      BY <2>1, <2>2, <2>3, <2>4, <2>5
  <1>6. CASE UNCHANGED vars
    BY <1>6 DEF AloneInv, AloneHasItsChild, vars, Waiting, Processes, Live, Zombies
  <1>7. QED
    BY <1>2, <1>3, <1>4, <1>5, <1>6 DEF Next

\* A call returns in its own wait.
LEMMA ReturnsInWait ==
  ASSUME TypeOK, [Next]_vars, NEW t \in Threads, Returns(t)
  PROVE  Wait(t) \/ WaitInterrupted(t)
  <1>1. t \in Waiting /\ Waiting' # Waiting /\ t \notin Waiting'
    BY DEF Returns
  <1>2. ASSUME NEW u \in Threads, ForkFails(u)
        PROVE  FALSE
    BY <1>1, <1>2 DEF ForkFails, Waiting
  <1>3. ASSUME NEW u \in Threads, Wait(u) \/ WaitInterrupted(u)
        PROVE  u = t
    BY <1>1, <1>3, WaitTakesProcess, InterruptedKeepsProcesses
  <1>4. ASSUME NEW u \in Threads, NEW kind \in Kinds, NEW output \in 0 .. MaxOutput, Call(u, kind, output)
        PROVE  FALSE
    BY <1>1, <1>4, CallAddsProcess DEF Adds
  <1>5. ASSUME NEW p \in Pids, Child(p)
        PROVE  FALSE
    BY <1>1, <1>5, ChildKeepsProcesses
  <1>6. ~UNCHANGED vars
    BY <1>1 DEF vars, Waiting
  <1>7. QED
    BY <1>2, <1>3, <1>4, <1>5, <1>6 DEF Next

\* A call that is alone gets the status of its own child.
LEMMA AloneGetsItsChild ==
  ASSUME AloneInv, NEW t \in Threads, Wait(t), alone = t
  PROVE  /\ t \in Waiting /\ child[call[t].pid].stage = "zombie"
         /\ result' = (child[call[t].pid].status = "zero")
  <1>1. TypeOK /\ t \in Waiting
    BY WaitTakesProcess DEF AloneInv
  <1>2. Processes = {call[t].pid} /\ call[t].pid \in Pids
    BY <1>1 DEF AloneInv, AloneHasItsChild, Processes, Live, Zombies
  <1>3. PICK p \in Zombies : result' = (child[p].status = "zero")
    BY <1>1, <1>2, WaitTakesProcess
  <1>4. p = call[t].pid
    BY <1>2 DEF Processes
  <1>5. QED
    BY <1>1, <1>3, <1>4 DEF Zombies

\* Its child still runs when its wait is interrupted.
LEMMA AloneIsInterrupted ==
  ASSUME AloneInv, NEW t \in Threads, WaitInterrupted(t), alone = t
  PROVE  result' = FALSE /\ ended = "not"
  <1>1. Zombies = {} /\ result' = FALSE
    BY InterruptedKeepsProcesses DEF AloneInv
  <1>2. call[t].pid \in Live
    BY <1>1 DEF AloneInv, AloneHasItsChild, Processes
  <1>3. QED
    BY <1>1, <1>2 DEF AloneInv, AloneHasItsChild, Live

-----------------------------------------------------------------------------
(* The file of a command that is alone *)

\* Nothing is written, or the next byte.
LEMMA WrittenAtEnd ==
  ASSUME NEW t \in Threads, NEW n \in Nat, file = [i \in 1 .. n |-> t]
  PROVE  /\ Written(<< >>, 0) = file
         /\ Written(<< t >>, n) = [i \in 1 .. n + 1 |-> t]
  <1>1. Len(file) = n /\ DOMAIN file = 1 .. n
    OBVIOUS
  <1>2. Written(<< >>, 0) = file
    BY <1>1 DEF Written
  <1>3. Written(<< t >>, n) = [i \in 1 .. n + 1 |-> t]
    <2> DEFINE bytes == << t >>
    <2>1. Len(bytes) = 1 /\ bytes[1] = t
      OBVIOUS
    <2> HIDE DEF bytes
    <2>2. Written(bytes, n) =
            [i \in 1 .. n + 1 |-> IF i \in n + 1 .. n + 1 THEN bytes[i - n]
                                  ELSE IF i \in DOMAIN file THEN file[i] ELSE NULL]
      BY <1>1, <2>1 DEF Written
    <2>3. \A i \in 1 .. n + 1 :
            (IF i \in n + 1 .. n + 1 THEN bytes[i - n]
             ELSE IF i \in DOMAIN file THEN file[i] ELSE NULL) = t
      BY <1>1, <2>1
    <2>4. QED
      BY <2>2, <2>3 DEF bytes
  <1>4. QED
    BY <1>2, <1>3

LEMMA EmptyFile ==
  ASSUME NEW t
  PROVE  << >> = [i \in 1 .. 0 |-> t]
  OBVIOUS

\* Each step of the command of t that is alone
LEMMA ChildFollows ==
  ASSUME Unflushed = << >>, FileInv, NEW t \in Threads, alone = t, t \in Waiting, call[t].kind = "redirect",
         NEW p \in Pids, call[t].pid = p, child[p].of = t, Child(p)
  PROVE  FileFollows(t, p)'
  <1>1. TypeOK /\ FileFollows(t, p) /\ call' = call
    BY ChildKeepsProcesses DEF FileInv, AloneInv, FileIsItsOutput
  <1>2. /\ child[p] \in ProcessRecord /\ child[p].output \in Nat /\ child[p].offset \in Nat
        /\ DOMAIN child = Pids
    <2>1. child[p] \in ProcessRecord /\ DOMAIN child = Pids
      BY <1>1 DEF TypeOK
    <2>2. child[p].output \in 0 .. MaxOutput /\ child[p].offset \in 0 .. MaxOutput
      BY <2>1, ProcessRecords
    <2>3. QED
      BY <2>1, <2>2, SystemCallsAssumption
  <1>3. CASE Open(p)
    <2>1. child[p].stage = "open" /\ child' = [child EXCEPT ![p].stage = "dup2"] /\ file' = << >>
      BY <1>3 DEF Open, Advance
    <2>2. ~child[p].redirected /\ child[p].offset = 0 /\ child[p].output = call[t].output
      BY <1>1, <2>1 DEF FileFollows, Stages
    <2>3. /\ child'[p].stage = "dup2" /\ ~child'[p].redirected
          /\ child'[p].offset = 0 /\ child'[p].output = call[t].output
      BY <1>2, <2>1, <2>2 DEF ProcessRecord
    <2>4. QED
      BY <1>1, <2>1, <2>3 DEF FileFollows
  <1>4. CASE Redirect(p)
    BY <1>1, <1>2, <1>4 DEF FileFollows, Redirect, ProcessRecord, Stages
  <1>5. CASE Exec(p)
    BY <1>1, <1>2, <1>5, EmptyFile DEF FileFollows, Exec, Advance, ProcessRecord, Stages
  <1>6. CASE Fail(p)
    <2>1. child'[p].stage = "zombie" /\ ended' \in {"unopened", "failed"}
      BY <1>2, <1>6 DEF Fail, Exit, NoProcess
    <2>2. ended' = "failed" => file' = << >>
      <3>1. file = << >> => Written(Unflushed, 0) = << >>
        BY WrittenAtEnd, EmptyFile
      <3>2. child[p].stage \in {"open", "dup2", "exec"}
        BY <1>2, <1>6, SystemCallsAssumption DEF Fail, ProcessRecord, Stages
      <3>3. QED
        BY <1>1, <1>6, <3>1, <3>2 DEF Fail, Exit, FileFollows
    <2>3. QED
      BY <2>1, <2>2 DEF FileFollows, Stages
  <1>7. CASE CommandWrites(p)
    <2>1. child' = [child EXCEPT ![p].offset = @ + 1] /\ child[p].stage = "run" /\ child[p].offset < child[p].output
      BY <1>7 DEF CommandWrites
    <2>2. child[p].redirected /\ file = [i \in 1 .. child[p].offset |-> t]
      BY <1>1, <2>1 DEF FileFollows
    <2>3. file' = [i \in 1 .. child[p].offset + 1 |-> t]
      BY <1>2, <1>7, <2>2, WrittenAtEnd DEF CommandWrites
    <2>4. QED
      BY <1>1, <1>2, <2>1, <2>2, <2>3 DEF FileFollows, ProcessRecord, Stages
  <1>8. CASE CommandEnds(p)
    <2>1. PICK status \in Statuses :
            /\ child[p].stage = "run" /\ file' = file
            /\ status = "zero" => child[p].offset = child[p].output
            /\ Exit(p, status, status)
      BY <1>8 DEF CommandEnds
    <2>2. child'[p].stage = "zombie" /\ ended' = status
      BY <1>2, <2>1 DEF Exit, NoProcess
    <2>3. child[p].output = call[t].output /\ file = [i \in 1 .. child[p].offset |-> t]
      BY <1>1, <2>1 DEF FileFollows, Stages
    <2>4. QED
      BY <1>1, <2>1, <2>2, <2>3 DEF FileFollows, Stages, Statuses
  <1>9. QED
    BY <1>3, <1>4, <1>5, <1>6, <1>7, <1>8 DEF Child

LEMMA NextFileInv ==
  ASSUME Unflushed = << >>
  PROVE  FileInv /\ [Next]_vars => FileInv'
  <1> SUFFICES ASSUME FileInv, [Next]_vars,
                      NEW t \in Threads, alone' = t, t \in Waiting', call'[t].kind = "redirect"
               PROVE  FileFollows(t, call[t].pid)'
    BY NextAloneInv DEF FileInv, FileIsItsOutput
  <1>1. TypeOK /\ AloneInv
    BY DEF FileInv, AloneInv
  <1>2. ASSUME NEW u \in Threads, ForkFails(u)
        PROVE  FileFollows(t, call[t].pid)'
    BY <1>2 DEF FileInv, FileIsItsOutput, FileFollows, ForkFails, Waiting, history
  <1>3. ASSUME NEW u \in Threads, Wait(u) \/ WaitInterrupted(u)
        PROVE  FALSE
    <2>1. u \in Waiting /\ alone' = (IF alone = u THEN NULL ELSE alone)
      BY <1>1, <1>3, WaitTakesProcess, InterruptedKeepsProcesses
    <2>2. QED
      BY <1>1, <2>1, SystemCallsAssumption DEF AloneInv, AloneHasItsChild
  <1>4. ASSUME NEW u \in Threads, NEW kind \in Kinds, NEW output \in 0 .. MaxOutput, Call(u, kind, output)
        PROVE  FileFollows(t, call[t].pid)'
    <2>1. PICK p \in Pids : Adds(u, kind, output, p)
      BY <1>1, <1>4, CallAddsProcess
    <2>2. u = t
      BY <1>4, SystemCallsAssumption DEF Call
    <2>3. call'[t].pid = p /\ call'[t].kind = kind /\ call'[t].output = output
      BY <1>1, <2>1, <2>2 DEF Adds, TypeOK
    <2>4. /\ child'[p].stage = "open" /\ ~child'[p].redirected
          /\ child'[p].offset = 0 /\ child'[p].output = output
      BY <1>1, <2>1, <2>3 DEF Adds, TypeOK, NoProcess
    <2>5. QED
      BY <2>3, <2>4 DEF FileFollows
  <1>5. ASSUME NEW p \in Pids, Child(p)
        PROVE  FileFollows(t, call[t].pid)'
    <2>1. alone = t /\ call' = call
      BY <1>1, <1>5, ChildKeepsProcesses
    <2>2. t \in Waiting /\ call[t].pid = p /\ child[p].of = t
      BY <1>1, <1>5, <2>1, ChildOfTheCall
    <2>3. QED
      BY <1>5, <2>1, <2>2, ChildFollows
  <1>6. CASE UNCHANGED vars
    BY <1>6 DEF FileInv, FileIsItsOutput, FileFollows, vars, Waiting
  <1>7. QED
    BY <1>2, <1>3, <1>4, <1>5, <1>6 DEF Next

-----------------------------------------------------------------------------
(* Theorems *)

\* The variables have their types, and the file is never longer than a command's output
\* or what the program had not flushed.
THEOREM TypeCorrect == Spec => []TypeOK
  <1>1. QED
    BY InitTypeOK, NextTypeOK, PTL DEF Spec

\* do_exec and do_exec_redirect never find that there is no child to wait for, and leave
\* no zombie but one for each wait that a signal has interrupted, although each takes
\* whichever child ends first; do_system neither, as long as it is called alone.
THEOREM EveryChildAwaited ==
  ASSUME ~MixSystem
  PROVE  Spec => []EveryChildIsAwaited
  <1>1. CountInv => EveryChildIsAwaited
    BY DEF CountInv
  <1>2. QED
    BY InitCountInv, NextCountInv, <1>1, PTL DEF Spec

\* A call that met no other's child returns true exactly when its own command has run
\* and exited with 0.
THEOREM ResultIsOwn == Spec => ResultIsOwnWhenAlone
  <1>1. AloneInv /\ [Next]_vars => \A t \in Threads : Returns(t) /\ alone = t => result' = (ended = "zero")
    <2> SUFFICES ASSUME AloneInv, [Next]_vars, NEW t \in Threads, Returns(t), alone = t
                 PROVE  result' = (ended = "zero")
      OBVIOUS
    <2>1. CASE Wait(t)
      BY <2>1, AloneGetsItsChild DEF AloneInv, AloneHasItsChild
    <2>2. CASE WaitInterrupted(t)
      BY <2>2, AloneIsInterrupted
    <2>3. QED
      BY <2>1, <2>2, ReturnsInWait DEF AloneInv
  <1>2. QED
    BY InitAloneInv, NextAloneInv, <1>1, PTL DEF Spec, ResultIsOwnWhenAlone

\* A redirected command that met no other leaves in the file what it wrote and nothing
\* else, and nothing when it could not be run, if stdout was flushed before fork.
THEOREM FileIsOutput ==
  ASSUME Unflushed = << >>
  PROVE  Spec => FileIsOutputWhenAlone
  <1>1. Init => FileInv
    BY InitAloneInv, SystemCallsAssumption DEF FileInv, FileIsItsOutput, Init
  <1>2. FileInv /\ [Next]_vars =>
          \A t \in Threads :
            Returns(t) /\ alone = t /\ call[t].kind = "redirect" =>
              /\ ended = "zero" => file = [i \in 1 .. call[t].output |-> t]
              /\ ended = "failed" => file = << >>
    <2> SUFFICES ASSUME FileInv, [Next]_vars, NEW t \in Threads,
                        Returns(t), alone = t, call[t].kind = "redirect"
                 PROVE  /\ ended = "zero" => file = [i \in 1 .. call[t].output |-> t]
                        /\ ended = "failed" => file = << >>
      OBVIOUS
    <2>1. CASE Wait(t)
      <3>1. t \in Waiting /\ child[call[t].pid].stage = "zombie"
        BY <2>1, AloneGetsItsChild DEF FileInv
      <3>2. QED
        BY <3>1 DEF FileInv, FileIsItsOutput, FileFollows
    <2>2. CASE WaitInterrupted(t)
      BY <2>2, AloneIsInterrupted DEF FileInv
    <2>3. QED
      BY <2>1, <2>2, ReturnsInWait DEF FileInv, AloneInv
  <1>3. QED
    BY <1>1, <1>2, NextFileInv, PTL DEF Spec, FileIsOutputWhenAlone
=============================================================================
