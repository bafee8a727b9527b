------------------------------ MODULE LineLog ------------------------------
(***************************************************************************)
(* What the aesdchar device promises the programs that write to it,        *)
(* whichever way their writes interleave: a log of the last Capacity       *)
(* complete lines, and the beginning of the line that is not complete yet. *)
(* A write is cut after every newline; its pieces are appended one at a    *)
(* time, in order, each once, and it is stored when none is left.  A write *)
(* that fails says so, and appends no more.                                *)
(***************************************************************************)
EXTENDS Naturals, Sequences

CONSTANTS
  Capacity,  \* how many complete lines are kept
  NL,        \* the newline
  Writers,   \* the threads that write
  Buffers,   \* what can be written
  MayFail    \* whether a write can fail

VARIABLES
  recent,   \* the complete lines kept, oldest first
  partial,  \* the bytes after the last newline
  writing   \* the write of each writer, and what is left of it

vars == << recent, partial, writing >>

Keep == INSTANCE RecentWrites WITH Lines <- Buffers

NoWrite == [at |-> "none"]

Stored == [at |-> "stored"]

Failed == [at |-> "failed"]

\* A write that has rest left to append.
Writing(rest) == IF rest = << >> THEN Stored ELSE [at |-> "writing", rest |-> rest]

Init == recent = << >> /\ partial = << >> /\ writing = [w \in Writers |-> NoWrite]

Begin(w) ==
  /\ writing[w] = NoWrite
  /\ \E buf \in Buffers : writing' = [writing EXCEPT ![w] = Writing(buf)]
  /\ UNCHANGED << recent, partial >>

\* The first n bytes of rest are its first line, or all of it.
IsFirstPiece(rest, n) ==
  /\ \A i \in 1 .. n - 1 : rest[i] # NL
  /\ n = Len(rest) \/ rest[n] = NL

\* A piece that ends its line completes the partial one.
Extend(piece) ==
  IF piece[Len(piece)] = NL
  THEN recent' = Keep!Push(recent, partial \o piece) /\ partial' = << >>
  ELSE recent' = recent /\ partial' = partial \o piece

AppendPiece(w) ==
  /\ writing[w].at = "writing"
  /\ LET rest == writing[w].rest
     IN  \E n \in 1 .. Len(rest) :
           /\ IsFirstPiece(rest, n)
           /\ Extend(SubSeq(rest, 1, n))
           /\ writing' = [writing EXCEPT ![w] = Writing(SubSeq(rest, n + 1, Len(rest)))]

Fail(w) ==
  /\ MayFail
  /\ writing[w].at \in {"none", "writing"}
  /\ writing' = [writing EXCEPT ![w] = Failed]
  /\ UNCHANGED << recent, partial >>

Finish(w) ==
  /\ writing[w] \in {Stored, Failed}
  /\ writing' = [writing EXCEPT ![w] = NoWrite]
  /\ UNCHANGED << recent, partial >>

Next == \E w \in Writers : Begin(w) \/ AppendPiece(w) \/ Fail(w) \/ Finish(w)

Spec == Init /\ [][Next]_vars
=============================================================================
