--------------------------- MODULE MCSocketClient ---------------------------
(* As Client/main does: one socket, and then two more with the same        *)
(* SocketClient, a message on each.                                        *)
EXTENDS SocketClient

CONSTANTS s1, s2, s3

MCSocket == {s1, s2, s3}
MCRequests == [s \in MCSocket |-> 1]
MCBatches == << <<s1>>, <<s2, s3>> >>
MCUnsupported == {}
=============================================================================
