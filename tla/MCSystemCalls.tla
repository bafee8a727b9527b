--------------------------- MODULE MCSystemCalls ---------------------------
(* The program has flushed its buffer before it calls. *)
EXTENDS SystemCalls

MCUnflushed == << >>
=============================================================================
