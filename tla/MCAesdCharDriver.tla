-------------------------- MODULE MCAesdCharDriver --------------------------
(* Writes that begin a line, end one, do both, and make two lines. *)
EXTENDS AesdCharDriver

MCWrites == { << "a" >>, << "b", NL >>, << NL, "c" >>, << "d", "e", NL, NL >> }

MCFewWrites == { << "a" >>, << NL, "c" >>, << "d", NL, NL >> }

MCOffsets == { -1, 0, 1, 3 }

Symmetry == Permutations(Procs) \cup Permutations(Files)
=============================================================================
