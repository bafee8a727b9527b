---------------------------- MODULE RecentWrites ----------------------------
(***************************************************************************)
(* What the circular buffer of the aesdchar driver promises its callers:   *)
(* the last Capacity lines that were added, oldest first.  Nothing here    *)
(* speaks of slots, offsets or flags; CircularBuffer is shown to implement *)
(* this specification.                                                     *)
(***************************************************************************)
EXTENDS Naturals, Sequences

CONSTANTS
  Capacity,  \* how many lines are kept
  Lines      \* the lines that can be added

VARIABLE recent  \* the lines kept, oldest first

\* The lines kept once line has been added: at the limit the oldest makes room.
Push(lines, line) ==
  IF Len(lines) < Capacity THEN Append(lines, line) ELSE Append(Tail(lines), line)

Init == recent = << >>

Add(line) == recent' = Push(recent, line)

Next == \E line \in Lines : Add(line)

Spec == Init /\ [][Next]_recent
=============================================================================
