---------------------------- MODULE MCDriverHeap ----------------------------
(* krealloc may do anything, except, in the first case, move the cache when a *)
(* line completes it.  Failures in main.c need no outcome: see EndWrite.      *)
EXTENDS DriverHeap

InPlaceForLines ==
  [add_to_cache |-> {"in_place", "moved"}, write_with_cache |-> {"in_place"},
   add_entry |-> {"in_place", "moved", "fails"}]

Anywhere ==
  [add_to_cache |-> {"in_place", "moved"}, write_with_cache |-> {"in_place", "moved"},
   add_entry |-> {"in_place", "moved"}]

=============================================================================
