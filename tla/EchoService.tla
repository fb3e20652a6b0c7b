----------------------------- MODULE EchoService -----------------------------
(***************************************************************************)
(* What the server promises its peers, and the client relies on: on each   *)
(* connection, the cells of the supported messages that were sent whole,   *)
(* in order, and nothing else.  Buffers, rounds and partial transfers are  *)
(* not seen.                                                               *)
(***************************************************************************)
EXTENDS Naturals, Sequences

CONSTANTS
  Connection,
  Due(_, _)   \* Due(s, n): the answer to the first n cells sent on s

VARIABLES
  asked,      \* cells sent on each connection
  answered    \* the answer that was given

vars == <<asked, answered>>

Init ==
  /\ asked = [s \in Connection |-> 0]
  /\ answered = [s \in Connection |-> <<>>]

Ask(s) ==
  /\ asked' = [asked EXCEPT ![s] = @ + 1]
  /\ UNCHANGED answered

Answer(s) ==
  /\ Len(answered[s]) < Len(Due(s, asked[s]))
  /\ answered' = [answered EXCEPT ![s] =
                    Append(@, Due(s, asked[s])[Len(@) + 1])]
  /\ UNCHANGED asked

Next == \E s \in Connection : Ask(s) \/ Answer(s)

Spec == Init /\ [][Next]_vars
=============================================================================
