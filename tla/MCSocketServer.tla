--------------------------- MODULE MCSocketServer ---------------------------
(* Two peers; the first sends FirstSends messages and the second           *)
(* SecondSends.  The second message of the first is of an unknown type     *)
(* when OneUnsupported.                                                         *)
EXTENDS SocketServer

CONSTANTS s1, s2, FirstSends, SecondSends, OneUnsupported

MCSocket == {s1, s2}
MCRequests == (s1 :> FirstSends) @@ (s2 :> SecondSends)
MCUnsupported == IF OneUnsupported THEN {<<s1, 2>>} ELSE {}

(* As many messages as every socket may buffer at once. *)
MCPipeCapacity ==
  2 * (MaxNumberMessagesInBuffer - 1
         + (MaxBytesPerReadWrite + BlockSize + MessageSize - 2) \div MessageSize)
=============================================================================
