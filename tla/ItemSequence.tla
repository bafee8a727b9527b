---------------------------- MODULE ItemSequence ----------------------------
(***************************************************************************)
(* What the list of server/list.c promises the program that uses it: a     *)
(* sequence of values, whatever becomes of the memory behind them.  A call *)
(* that reports a failure does nothing to it.                              *)
(***************************************************************************)
EXTENDS SequencesExt

CONSTANTS
  Values,  \* what can be stored
  Unset    \* the value of an item that was never set

VARIABLES
  items,  \* the values, from the first to the last
  failed  \* whether the last call has returned an error

Init == items = << >> /\ failed = FALSE

\* What each operation may make of a sequence s.
PushedBack(s) == {Append(s, value) : value \in Values}

\* Nothing can be inserted after the last item; into an empty sequence, anything can.
Inserted(s) ==
  {InsertAt(s, k, value) : k \in IF s = << >> THEN {1} ELSE DOMAIN s, value \in Values \cup {Unset}}

WasSet(s) == {[s EXCEPT ![k] = value] : k \in DOMAIN s, value \in Values}

Removed(s) == {RemoveAt(s, k) : k \in DOMAIN s}

Operation ==
  /\ items' \in PushedBack(items) \cup Inserted(items) \cup WasSet(items) \cup Removed(items) \cup {<< >>}
  /\ failed' = FALSE

\* A call that fails, or one on an item that is in no sequence
Elsewhere == items' = items /\ failed' \in BOOLEAN

Next == Operation \/ Elsewhere

Spec == Init /\ [][Next]_<< items, failed >>
=============================================================================
