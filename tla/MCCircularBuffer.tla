--------------------------- MODULE MCCircularBuffer ---------------------------
(* A ring of three entries and lines of three lengths. *)
EXTENDS CircularBuffer

MCLines == { << "a" >>, << "b", "b" >>, << "c", "c", "c" >> }
===============================================================================
