------------------------------ MODULE SeqFilter ------------------------------
(* The part of a sequence that lies in a set, in a form that can be proved *)
(* about: SelectSeq takes an operator, which no lemma can quantify over.   *)
EXTENDS Integers, Sequences

Filter(q, S) ==
  LET kept[i \in 0 .. Len(q)] ==
        IF i = 0 THEN <<>>
        ELSE IF q[i] \in S THEN Append(kept[i - 1], q[i]) ELSE kept[i - 1]
  IN  kept[Len(q)]
=============================================================================
