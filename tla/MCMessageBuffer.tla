--------------------------- MODULE MCMessageBuffer ---------------------------
(* Two sockets, two messages and up to four nodes alive at once. *)
EXTENDS MessageBuffer
=============================================================================
