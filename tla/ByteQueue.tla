------------------------------ MODULE ByteQueue ------------------------------
(* What a BlockBuffer promises: a first-in first-out queue of bytes.        *)
EXTENDS Naturals, Sequences

CONSTANT Byte

VARIABLE bytes

Init == bytes = <<>>

Push ==
  /\ bytes' \in Seq(Byte)
  /\ Len(bytes') > Len(bytes)
  /\ SubSeq(bytes', 1, Len(bytes)) = bytes

Pop == \E n \in 1 .. Len(bytes) : bytes' = SubSeq(bytes, n + 1, Len(bytes))

Next == Push \/ Pop

Spec == Init /\ [][Next]_bytes
=============================================================================
