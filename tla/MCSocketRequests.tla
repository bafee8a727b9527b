-------------------------- MODULE MCSocketRequests --------------------------
(* What clients send ends before its line does, with the line, after it, or has a   *)
(* NUL in it.  Everything may fail but a send that takes a part of its bytes, and,  *)
(* on the regular file, a send or a read: a reply that is cut off there leaves the  *)
(* position in its middle.  A signal that ends the process may cut off any reply.   *)
EXTENDS SocketRequests

MCShapes ==
  {<<"text">>, <<"text", "newline">>, <<"text", "newline", "text">>, <<"nul", "text">>}

MCFailures ==
  [build \in BOOLEAN |->
     {"recv", "write", "sigpipe"} \cup (IF build THEN {"read", "send", "seek"} ELSE {})]
=============================================================================
