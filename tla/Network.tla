------------------------------- MODULE Network -------------------------------
(***************************************************************************)
(* What lies outside the program: the kernel's side of its TCP connections *)
(* and the hosts at their other ends.  It is modelled from the calls       *)
(* SocketLib makes and the results it tells apart.                         *)
(*                                                                         *)
(* The bytes of a message travel as a few cells, so that reads and writes  *)
(* can stop in the middle of one: "head" ends the field that holds the     *)
(* length, and "body" ends the message.  When SplitHeaders, that first     *)
(* field can be cut as well, and "len" is its beginning.  Each socket is   *)
(* one connection, and the messages of its peer are numbered.              *)
(***************************************************************************)
EXTENDS Naturals, SequencesExt

CONSTANTS
  Socket,     \* the sockets, one for each connection
  Requests,   \* Requests[s]: how many messages the peer of s sends
  SplitHeaders,
  SendRoom    \* cells the kernel holds for a peer that does not read

ASSUME NetworkAssumption ==
  /\ Requests \in [Socket -> Nat]
  /\ SplitHeaders \in BOOLEAN
  /\ SendRoom \in Nat \ {0}

VARIABLES
  backlog,   \* connections waiting for accept(), oldest first
  peer,      \* state of each connection as the kernel sees it
  sent,      \* cells its peer has sent so far
  inbox,     \* cells that arrived and were not read, oldest first
  outbox,    \* cells written and not yet received by the peer
  received   \* cells the peer has received

network == <<backlog, peer, sent, inbox, outbox, received>>

(* "fin": the peer has closed.  "reset": an RST arrived.  "broken": an RST *)
(* arrived after the peer had closed, in answer to something written.      *)
PeerState == {"none", "open", "fin", "reset", "broken"}

Message == UNION {{s} \X (1 .. Requests[s]) : s \in Socket}
Parts == IF SplitHeaders THEN <<"len", "head", "body">> ELSE <<"head", "body">>
MessageSize == Len(Parts)
LengthSize == MessageSize - 1    \* cells up to the end of the length field

Cell == Message \X ToSet(Parts)
CellsOf(m) == [i \in DOMAIN Parts |-> <<m, Parts[i]>>]

(* The i-th cell of what the peer of s sends. *)
SentCell(s, i) ==
  << <<s, ((i - 1) \div MessageSize) + 1>>, Parts[((i - 1) % MessageSize) + 1] >>

NetworkTypeOK ==
  /\ backlog \in Seq(Socket)
  /\ peer \in [Socket -> PeerState]
  /\ sent \in [Socket -> Nat]
  /\ inbox \in [Socket -> Seq(Cell)]
  /\ outbox \in [Socket -> Seq(Cell)]
  /\ received \in [Socket -> Seq(Cell)]
  /\ \A s \in Socket : /\ sent[s] <= MessageSize * Requests[s]
                       /\ Len(outbox[s]) <= SendRoom

NetworkInit ==
  /\ backlog = <<>>
  /\ peer = [s \in Socket |-> "none"]
  /\ sent = [s \in Socket |-> 0]
  /\ inbox = [s \in Socket |-> <<>>]
  /\ outbox = [s \in Socket |-> <<>>]
  /\ received = [s \in Socket |-> <<>>]

PeerConnect(s) ==
  /\ peer[s] = "none"
  /\ peer' = [peer EXCEPT ![s] = "open"]
  /\ backlog' = Append(backlog, s)
  /\ UNCHANGED <<sent, inbox, outbox, received>>

PeerSend(s) ==
  /\ peer[s] = "open"
  /\ sent[s] < MessageSize * Requests[s]
  /\ sent' = [sent EXCEPT ![s] = @ + 1]
  /\ inbox' = [inbox EXCEPT ![s] = Append(@, SentCell(s, sent'[s]))]
  /\ UNCHANGED <<backlog, peer, outbox, received>>

PeerReceive(s) ==
  /\ peer[s] = "open"
  /\ outbox[s] # <<>>
  /\ received' = [received EXCEPT ![s] = Append(@, Head(outbox[s]))]
  /\ outbox' = [outbox EXCEPT ![s] = Tail(@)]
  /\ UNCHANGED <<backlog, peer, sent, inbox>>

(* The peer closes: FIN, or RST when it leaves something unread. *)
PeerClose(s) ==
  /\ peer[s] = "open"
  /\ peer' = [peer EXCEPT ![s] = IF outbox[s] = <<>> THEN "fin" ELSE "reset"]
  /\ outbox' = [outbox EXCEPT ![s] = <<>>]
  /\ UNCHANGED <<backlog, sent, inbox, received>>

(* What is written to a peer that closed is answered by an RST. *)
PeerReject(s) ==
  /\ peer[s] = "fin"
  /\ outbox[s] # <<>>
  /\ peer' = [peer EXCEPT ![s] = "broken"]
  /\ outbox' = [outbox EXCEPT ![s] = <<>>]
  /\ UNCHANGED <<backlog, sent, inbox, received>>

PeerNext ==
  \E s \in Socket : \/ PeerConnect(s)
                    \/ PeerSend(s)
                    \/ PeerReceive(s)
                    \/ PeerClose(s)
                    \/ PeerReject(s)

-----------------------------------------------------------------------------
(* System calls on the connection of s. *)

(* accept() returns the oldest connection. *)
KernelAccept(s) ==
  /\ backlog # <<>>
  /\ s = Head(backlog)
  /\ backlog' = Tail(backlog)
  /\ UNCHANGED <<peer, sent, inbox, outbox, received>>

(* select() finds something for read() to return. *)
Readable(s) == inbox[s] # <<>> \/ peer[s] \in {"fin", "reset", "broken"}

(* select() finds room for write(), or an error for it to return. *)
Writable(s) == Len(outbox[s]) < SendRoom \/ peer[s] \in {"reset", "broken"}

(* read() returns the first k cells. *)
KernelRead(s, k) ==
  /\ k <= Len(inbox[s])
  /\ inbox' = [inbox EXCEPT ![s] = SubSeq(@, k + 1, Len(@))]
  /\ UNCHANGED <<backlog, peer, sent, outbox, received>>

WouldBlock(s) == inbox[s] = <<>> /\ peer[s] = "open"
EndOfFile(s) == inbox[s] = <<>> /\ peer[s] = "fin"
ReadError(s) == inbox[s] = <<>> /\ peer[s] \in {"reset", "broken"}

(* write() takes the cells. *)
KernelWrite(s, cells) ==
  /\ peer[s] \in {"open", "fin"}
  /\ Len(outbox[s]) + Len(cells) <= SendRoom
  /\ outbox' = [outbox EXCEPT ![s] = @ \o cells]
  /\ UNCHANGED <<backlog, peer, sent, inbox, received>>

NoRoom(s) == peer[s] \in {"open", "fin"} /\ Len(outbox[s]) = SendRoom
WriteError(s) == peer[s] = "reset"

(* write() fails with EPIPE and the process receives SIGPIPE. *)
WriteSignals(s) == peer[s] = "broken"
=============================================================================
