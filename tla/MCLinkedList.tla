---------------------------- MODULE MCLinkedList ----------------------------
(* A value of each way to store one: in the union, through the union's byte, and in *)
(* a block, as a string and as a struct.                                            *)
EXTENDS LinkedList

CONSTANTS short, long, client

MCValues ==
  {[type |-> "digit", of |-> -100], [type |-> "string", of |-> short],
   [type |-> "string", of |-> long], [type |-> "struct", of |-> client]}

MCLarge == {[type |-> "string", of |-> long], [type |-> "struct", of |-> client]}

Symmetry == Permutations(Blocks)
=============================================================================
