----------------------- MODULE SocketServer_refinement -----------------------
(***************************************************************************)
(* The server conserves what its peers send it, cell for cell, and so      *)
(* implements EchoService: proved for any number of peers, messages and    *)
(* limits, while the length field of a message comes whole.                *)
(***************************************************************************)
EXTENDS SocketServer_proofs

(* The way of a reply: received, in the kernel, in sendBuffer_, in the     *)
(* queue to send and in the queue of the center.                           *)
Way(r, o, b, g, i) == r \o o \o b \o g \o i

(* Until a connection is reset, the answer to the first n cells of its     *)
(* stream is what is on that way.                                          *)
Kept(p, s, n, r, o, b, g, q) ==
  p \in {"none", "open", "fin"} =>
    Supported(SentCells(s, 0, n)) = Way(r, o, b, Flat(g), Flat(Messages(q)))

(* So it is for what has left recvBuffer_. *)
Conserved ==
  \A s \in Socket :
    Kept(peer[s], s, Taken(s), received[s], outbox[s], sendBuffer[s], outgoing[s],
         BufferedFrom(s))

RefinementInv == PassInv /\ Conserved

-----------------------------------------------------------------------------
(* Cells, sent and flattened *)

(* The two cells of a message. *)
LEMMA TwoCells ==
  ASSUME ~SplitHeaders, NEW m
  PROVE  /\ Len(CellsOf(m)) = 2
         /\ CellsOf(m)[1] = <<m, Parts[1]>>
         /\ CellsOf(m)[2] = <<m, Parts[2]>>
<1>1. CellsOf(m) = [i \in 1 .. 2 |-> <<m, Parts[i]>>]
  BY TwoParts, PartsType DEF CellsOf
<1> QED BY <1>1

(* Messages flattened are cells, as many as there are parts. *)
LEMMA FlatType ==
  ASSUME ~SplitHeaders, NEW q \in Seq(Message)
  PROVE  /\ Flat(q) \in Seq(Cell)
         /\ Len(Flat(q)) = 2 * Len(q)
         /\ \A i \in 1 .. 2 * Len(q) :
              Flat(q)[i] = << q[((i - 1) \div 2) + 1], Parts[((i - 1) % 2) + 1] >>
<1> DEFINE n == Len(q)
           cell(i) == << q[((i - 1) \div 2) + 1], Parts[((i - 1) % 2) + 1] >>
<1>1. n \in Nat /\ \A i \in 1 .. n : q[i] \in Message
  BY LenProperties, ElementOfSeq
<1>2. Flat(q) = [i \in 1 .. 2 * n |-> cell(i)]
  BY TwoParts DEF Flat
<1> HIDE DEF n
<1>3. ASSUME NEW i \in 1 .. 2 * n
      PROVE  cell(i) \in Cell
  <2>1. ((i - 1) \div 2) + 1 \in 1 .. n /\ ((i - 1) % 2) + 1 \in 1 .. 2
    BY <1>1
  <2>2. Parts[((i - 1) % 2) + 1] \in ToSet(Parts)
    BY <2>1, PartsType, TwoParts
  <2> QED BY <1>1, <2>1, <2>2 DEF Cell
<1> HIDE DEF cell
<1>4. 2 * n \in Nat
  BY <1>1
<1>5. Flat(q) \in Seq(Cell) /\ Len(Flat(q)) = 2 * n
  BY <1>2, <1>3, <1>4, IsASeq
<1> QED BY <1>2, <1>5 DEF n, cell

(* Flattening goes message by message. *)
LEMMA FlatConcat ==
  ASSUME ~SplitHeaders, NEW q \in Seq(Message), NEW r \in Seq(Message)
  PROVE  Flat(q \o r) = Flat(q) \o Flat(r)
<1> DEFINE a == Len(q)
           b == Len(r)
           u == q \o r
           fu == Flat(u)
           fq == Flat(q)
           fr == Flat(r)
<1>1. a \in Nat /\ b \in Nat
  BY LenProperties
<1>2. /\ u \in Seq(Message) /\ Len(u) = a + b
      /\ \A i \in 1 .. a + b : u[i] = IF i <= a THEN q[i] ELSE r[i - a]
  BY ConcatProperties
<1> HIDE DEF u
<1>3. /\ fu \in Seq(Cell) /\ Len(fu) = 2 * Len(u)
      /\ \A i \in 1 .. 2 * Len(u) :
           fu[i] = << u[((i - 1) \div 2) + 1], Parts[((i - 1) % 2) + 1] >>
  BY <1>2, FlatType
<1>4. /\ fq \in Seq(Cell) /\ Len(fq) = 2 * a
      /\ \A i \in 1 .. 2 * a :
           fq[i] = << q[((i - 1) \div 2) + 1], Parts[((i - 1) % 2) + 1] >>
  BY FlatType
<1>5. /\ fr \in Seq(Cell) /\ Len(fr) = 2 * b
      /\ \A i \in 1 .. 2 * b :
           fr[i] = << r[((i - 1) \div 2) + 1], Parts[((i - 1) % 2) + 1] >>
  BY FlatType
<1> HIDE DEF fu, fq, fr, a, b
<1>6. /\ fq \o fr \in Seq(Cell) /\ Len(fq \o fr) = 2 * a + 2 * b
      /\ \A i \in 1 .. 2 * a + 2 * b :
           (fq \o fr)[i] = IF i <= 2 * a THEN fq[i] ELSE fr[i - 2 * a]
  <2>1. /\ fq \o fr \in Seq(Cell) /\ Len(fq \o fr) = Len(fq) + Len(fr)
        /\ \A i \in 1 .. Len(fq) + Len(fr) :
             (fq \o fr)[i] = IF i <= Len(fq) THEN fq[i] ELSE fr[i - Len(fq)]
    BY <1>4, <1>5, ConcatProperties
  <2>2. Len(fq) = 2 * a /\ Len(fr) = 2 * b
    BY <1>4, <1>5
  <2> QED BY <2>1, <2>2
<1>7. ASSUME NEW i \in 1 .. 2 * a + 2 * b
      PROVE  fu[i] = (fq \o fr)[i]
  <2> DEFINE k == ((i - 1) \div 2) + 1
  <2>1. k \in 1 .. a + b /\ fu[i] = << u[k], Parts[((i - 1) % 2) + 1] >>
    <3>1. k \in 1 .. a + b /\ 2 * (a + b) = 2 * a + 2 * b
      BY <1>1
    <3>2. i \in 1 .. 2 * Len(u)
      BY <1>2, <3>1
    <3> QED BY <1>3, <3>1, <3>2
  <2>2. CASE i <= 2 * a
    <3>1. k \in 1 .. a /\ i \in 1 .. 2 * a
      BY <1>1, <2>2
    <3>2. fq[i] = << q[k], Parts[((i - 1) % 2) + 1] >>
      BY <1>4, <3>1
    <3> HIDE DEF k
    <3>3. u[k] = q[k]
      BY <1>2, <2>1, <3>1
    <3> QED BY <1>6, <2>1, <2>2, <3>2, <3>3
  <2>3. CASE i > 2 * a
    <3> DEFINE j == i - 2 * a
    <3>1. j \in 1 .. 2 * b /\ ((j - 1) \div 2) + 1 = k - a /\ (j - 1) % 2 = (i - 1) % 2 /\ k > a
      BY <1>1, <2>3
    <3>2. fr[j] = << r[((j - 1) \div 2) + 1], Parts[((j - 1) % 2) + 1] >>
      <4> HIDE DEF j
      <4> QED BY <1>5, <3>1
    <3>3. (fq \o fr)[i] = fr[j]
      BY <1>1, <1>6, <2>3
    <3> HIDE DEF k, j
    <3>4. u[k] = r[k - a]
      BY <1>1, <1>2, <2>1, <3>1
    <3> QED BY <2>1, <3>1, <3>2, <3>3, <3>4
  <2>4. i <= 2 * a \/ i > 2 * a
    BY <1>1
  <2> QED BY <2>2, <2>3, <2>4
<1>8. fu = fq \o fr
  <2>1. Len(fu) = Len(fq \o fr)
    BY <1>1, <1>2, <1>3, <1>6
  <2> DEFINE v == fq \o fr
  <2>2. \A i \in 1 .. Len(fu) : fu[i] = v[i]
    BY <1>6, <1>7, <2>1
  <2>3. v \in Seq(Cell) /\ fu \in Seq(Cell) /\ Len(fu) = Len(v)
    BY <1>3, <1>6, <2>1
  <2> HIDE DEF v
  <2> QED BY <2>2, <2>3, SeqEqual DEF v
<1> QED BY <1>8 DEF fu, fq, fr, u

(* One message, flattened. *)
LEMMA FlatOne ==
  ASSUME ~SplitHeaders, NEW m \in Message
  PROVE  Flat(<<m>>) = CellsOf(m) /\ CellsOf(m) \in Seq(Cell)
<1> DEFINE q == <<m>>
           u == Flat(q)
           v == CellsOf(m)
<1>1. q \in Seq(Message) /\ Len(q) = 1 /\ q[1] = m
  OBVIOUS
<1> HIDE DEF q
<1>2. /\ u \in Seq(Cell) /\ Len(u) = 2 * Len(q)
      /\ \A i \in 1 .. 2 * Len(q) :
           u[i] = << q[((i - 1) \div 2) + 1], Parts[((i - 1) % 2) + 1] >>
  BY <1>1, FlatType
<1>3. /\ v \in Seq(Cell) /\ Len(v) = 2
      /\ v[1] = <<m, Parts[1]>> /\ v[2] = <<m, Parts[2]>>
  BY CellsOfType, TwoCells
<1> HIDE DEF u, v
<1>4. ((1 - 1) \div 2) + 1 = 1 /\ ((1 - 1) % 2) + 1 = 1
  OBVIOUS
<1>5. ((2 - 1) \div 2) + 1 = 1 /\ ((2 - 1) % 2) + 1 = 2
  OBVIOUS
<1>6. u[1] = <<m, Parts[1]>> /\ u[2] = <<m, Parts[2]>> /\ Len(u) = 2
  BY <1>1, <1>2, <1>4, <1>5
<1>7. \A i \in 1 .. Len(u) : u[i] = v[i]
  BY <1>3, <1>6
<1>8. u = v
  BY <1>2, <1>3, <1>6, <1>7, SeqEqual
<1> QED BY <1>3, <1>8 DEF u, v, q

(* The message of each envelope. *)
LEMMA MessagesType ==
  ASSUME NEW q \in Seq(Queues!Envelope)
  PROVE  /\ Messages(q) \in Seq(Message)
         /\ Len(Messages(q)) = Len(q)
         /\ \A i \in 1 .. Len(q) : Messages(q)[i] = q[i].msg
<1> DEFINE n == Len(q)
<1>1. n \in Nat /\ \A i \in 1 .. n : q[i] \in Queues!Envelope
  BY LenProperties, ElementOfSeq
<1>2. \A i \in 1 .. n : q[i].msg \in Message
  BY <1>1 DEF Queues!Envelope
<1>3. Messages(q) = [i \in 1 .. n |-> q[i].msg]
  BY LenProperties DEF Messages
<1> HIDE DEF n
<1>4. Messages(q) \in Seq(Message)
  BY <1>1, <1>2, <1>3, IsASeq
<1> QED BY <1>1, <1>3, <1>4 DEF n

LEMMA MessagesConcat ==
  ASSUME NEW q \in Seq(Queues!Envelope), NEW r \in Seq(Queues!Envelope)
  PROVE  Messages(q \o r) = Messages(q) \o Messages(r)
<1> DEFINE u == q \o r
           mu == Messages(u)
           mq == Messages(q)
           mr == Messages(r)
           v == mq \o mr
<1>1. /\ u \in Seq(Queues!Envelope) /\ Len(u) = Len(q) + Len(r)
      /\ \A i \in 1 .. Len(q) + Len(r) : u[i] = IF i <= Len(q) THEN q[i] ELSE r[i - Len(q)]
      /\ Len(q) \in Nat /\ Len(r) \in Nat
  BY ConcatProperties, LenProperties
<1> HIDE DEF u
<1>2. /\ mu \in Seq(Message) /\ Len(mu) = Len(u) /\ \A i \in 1 .. Len(u) : mu[i] = u[i].msg
  BY <1>1, MessagesType
<1>3. /\ mq \in Seq(Message) /\ Len(mq) = Len(q) /\ \A i \in 1 .. Len(q) : mq[i] = q[i].msg
      /\ mr \in Seq(Message) /\ Len(mr) = Len(r) /\ \A i \in 1 .. Len(r) : mr[i] = r[i].msg
  BY MessagesType
<1> HIDE DEF mu, mq, mr
<1>4. /\ v \in Seq(Message) /\ Len(v) = Len(mq) + Len(mr)
      /\ \A i \in 1 .. Len(mq) + Len(mr) : v[i] = IF i <= Len(mq) THEN mq[i] ELSE mr[i - Len(mq)]
  <2>1. mq \in Seq(Message) /\ mr \in Seq(Message)
    BY <1>3
  <2> QED BY <2>1, ConcatProperties
<1> HIDE DEF v
<1>5. ASSUME NEW i \in 1 .. Len(mu)
      PROVE  mu[i] = v[i]
  <2>1. i \in 1 .. Len(q) + Len(r) /\ mu[i] = u[i].msg
    BY <1>1, <1>2
  <2>2. CASE i <= Len(q)
    <3>1. i \in 1 .. Len(q) /\ v[i] = mq[i] /\ u[i] = q[i]
      BY <1>1, <1>3, <1>4, <2>1, <2>2
    <3> QED BY <1>3, <2>1, <3>1
  <2>3. CASE ~ (i <= Len(q))
    <3> DEFINE j == i - Len(q)
    <3>1. j \in 1 .. Len(r) /\ v[i] = mr[j] /\ u[i] = r[j]
      BY <1>1, <1>3, <1>4, <2>1, <2>3
    <3> HIDE DEF j
    <3> QED BY <1>3, <2>1, <3>1
  <2> QED BY <2>2, <2>3
<1>6. mu = v
  BY <1>1, <1>2, <1>3, <1>4, <1>5, SeqEqual
<1> QED BY <1>6 DEF mu, mq, mr, u, v

LEMMA MessagesOne ==
  ASSUME NEW e \in Queues!Envelope
  PROVE  Messages(<<e>>) = <<e.msg>>
BY DEF Messages

(* What a peer sends is cells, and goes on from where it stopped. *)
LEMMA SentType ==
  ASSUME NEW s \in Socket, NEW a \in Nat, NEW b \in Nat, a <= b,
         b <= MessageSize * Requests[s]
  PROVE  /\ SentCells(s, a, b) \in Seq(Cell)
         /\ Len(SentCells(s, a, b)) = b - a
         /\ \A i \in 1 .. b - a : SentCells(s, a, b)[i] = SentCell(s, a + i)
<1> DEFINE n == b - a
           cell(i) == SentCell(s, a + i)
<1>1. n \in Nat
  OBVIOUS
<1>2. SentCells(s, a, b) = [i \in 1 .. n |-> cell(i)]
  BY DEF SentCells
<1>3. ASSUME NEW i \in 1 .. n
      PROVE  cell(i) \in Cell
  <2>1. Requests[s] \in Nat /\ MessageSize * Requests[s] \in Nat
    BY NetworkAssumption, PartsType
  <2> DEFINE j == a + i
             m == MessageSize * Requests[s]
  <2>2. j \in 1 .. m
    <3> HIDE DEF m
    <3> QED BY <2>1 DEF m
  <2> HIDE DEF j
  <2>3. SentCell(s, j) \in Cell
    BY <2>2, SentCellType
  <2> QED BY <2>3 DEF j
<1> HIDE DEF n, cell
<1>4. SentCells(s, a, b) \in Seq(Cell) /\ Len(SentCells(s, a, b)) = n
  BY <1>1, <1>2, <1>3, IsASeq
<1> QED BY <1>1, <1>2, <1>4 DEF n, cell

LEMMA SentConcat ==
  ASSUME NEW s \in Socket, NEW a \in Nat, NEW b \in Nat, NEW c \in Nat,
         a <= b, b <= c, c <= MessageSize * Requests[s]
  PROVE  SentCells(s, a, c) = SentCells(s, a, b) \o SentCells(s, b, c)
<1> DEFINE u == SentCells(s, a, c)
           q == SentCells(s, a, b)
           r == SentCells(s, b, c)
           v == q \o r
           m == MessageSize * Requests[s]
<1>1. a <= c /\ b <= MessageSize * Requests[s]
  <2>1. m \in Nat
    BY NetworkAssumption, PartsType
  <2> HIDE DEF m
  <2>2. c <= m => b <= m
    BY <2>1
  <2> QED BY <2>2 DEF m
<1>2. /\ u \in Seq(Cell) /\ Len(u) = c - a /\ \A i \in 1 .. c - a : u[i] = SentCell(s, a + i)
      /\ q \in Seq(Cell) /\ Len(q) = b - a /\ \A i \in 1 .. b - a : q[i] = SentCell(s, a + i)
      /\ r \in Seq(Cell) /\ Len(r) = c - b /\ \A i \in 1 .. c - b : r[i] = SentCell(s, b + i)
  BY <1>1, SentType
<1> HIDE DEF u, q, r
<1>3. /\ v \in Seq(Cell) /\ Len(v) = Len(q) + Len(r)
      /\ \A i \in 1 .. Len(q) + Len(r) : v[i] = IF i <= Len(q) THEN q[i] ELSE r[i - Len(q)]
  BY <1>2, ConcatProperties
<1> HIDE DEF v
<1>4. ASSUME NEW i \in 1 .. Len(u)
      PROVE  u[i] = v[i]
  <2>1. i \in 1 .. Len(q) + Len(r) /\ u[i] = SentCell(s, a + i)
    BY <1>1, <1>2
  <2>2. CASE i <= Len(q)
    BY <1>2, <1>3, <2>1, <2>2
  <2>3. CASE ~ (i <= Len(q))
    <3> DEFINE j == i - Len(q)
    <3>1. j \in 1 .. c - b /\ v[i] = r[j] /\ b + j = a + i
      BY <1>1, <1>2, <1>3, <2>1, <2>3
    <3> HIDE DEF j
    <3>2. r[j] = SentCell(s, b + j)
      BY <1>2, <3>1
    <3> QED BY <2>1, <3>1, <3>2
  <2> QED BY <2>2, <2>3
<1>5. Len(u) = Len(v)
  BY <1>2, <1>3
<1>6. u = v
  BY <1>2, <1>3, <1>4, <1>5, SeqEqual
<1> QED BY <1>6 DEF u, q, r, v

(* The cells sent next after whole messages are those of the next one. *)
LEMMA SentMessage ==
  ASSUME ~SplitHeaders, NEW s \in Socket, NEW n \in Nat, n % 2 = 0,
         n + 2 <= MessageSize * Requests[s]
  PROVE  SentCells(s, n, n + 2) = CellsOf(<<s, (n \div 2) + 1>>)
<1> DEFINE m == <<s, (n \div 2) + 1>>
           b == n + 2
           u == SentCells(s, n, b)
           v == CellsOf(m)
<1>1. b \in Nat /\ n <= b /\ b - n = 2
  OBVIOUS
<1>2. b <= MessageSize * Requests[s]
  OBVIOUS
<1>3. m \in Message
  <2>1. Requests[s] \in Nat /\ n + 2 <= 2 * Requests[s]
    BY NetworkAssumption, TwoParts
  <2>2. (n \div 2) + 1 \in 1 .. Requests[s]
    BY <2>1
  <2> QED BY <2>2 DEF Message
<1>4. /\ v \in Seq(Cell) /\ Len(v) = 2
      /\ v[1] = <<m, Parts[1]>> /\ v[2] = <<m, Parts[2]>>
  BY <1>3, CellsOfType, TwoCells
<1> HIDE DEF b
<1>5. /\ u \in Seq(Cell) /\ Len(u) = 2
      /\ \A i \in 1 .. 2 : u[i] = SentCell(s, n + i)
  BY <1>1, <1>2, SentType
<1>6. /\ SentCell(s, n + 1) = << <<s, (((n + 1) - 1) \div 2) + 1>>, Parts[(((n + 1) - 1) % 2) + 1] >>
      /\ SentCell(s, n + 2) = << <<s, (((n + 2) - 1) \div 2) + 1>>, Parts[(((n + 2) - 1) % 2) + 1] >>
  BY TwoParts DEF SentCell
<1>7. /\ ((n + 1) - 1) \div 2 = n \div 2 /\ (((n + 1) - 1) % 2) + 1 = 1
      /\ ((n + 2) - 1) \div 2 = n \div 2 /\ (((n + 2) - 1) % 2) + 1 = 2
  OBVIOUS
<1>8. SentCell(s, n + 1) = <<m, Parts[1]>> /\ SentCell(s, n + 2) = <<m, Parts[2]>>
  BY <1>6, <1>7
<1> HIDE DEF u, v, m
<1>9. u[1] = v[1] /\ u[2] = v[2]
  BY <1>4, <1>5, <1>8
<1>10. Len(u) = Len(v) /\ \A i \in 1 .. Len(u) : u[i] = v[i]
  <2>1. \A i \in 1 .. 2 : u[i] = v[i]
    BY <1>9
  <2>2. Len(u) = 2 /\ Len(v) = 2
    BY <1>4, <1>5
  <2> QED BY <2>1, <2>2
<1>11. u = v
  BY <1>4, <1>5, <1>10, SeqEqual
<1> QED BY <1>11 DEF u, v, b, m

(* Both cells of a message are supported, or neither. *)
LEMMA SupportedMessage ==
  ASSUME ~SplitHeaders, NEW m \in Message
  PROVE  Supported(CellsOf(m)) = IF m \in Unsupported THEN <<>> ELSE CellsOf(m)
<1> DEFINE c == <<m, Parts[1]>>
           d == <<m, Parts[2]>>
           S == {x \in Cell : x[1] \notin Unsupported}
<1>1. c \in Cell /\ d \in Cell
  BY TwoParts, PartsType DEF Cell
<1>2. CellsOf(m) = <<c>> \o <<d>>
  <2>1. CellsOf(m) = [i \in 1 .. 2 |-> <<m, Parts[i]>>]
    BY TwoParts, PartsType DEF CellsOf
  <2> QED BY <2>1
<1>3. (c \in S <=> m \notin Unsupported) /\ (d \in S <=> m \notin Unsupported)
  BY <1>1
<1>4. Supported(CellsOf(m)) = Filter(CellsOf(m), S)
  BY DEF Supported
<1> HIDE DEF c, d, S
<1>5. <<c>> \in Seq(Cell) /\ <<d>> \in Seq(Cell)
  BY <1>1
<1>6. \A u, v \in Seq(Cell) : Filter(u \o v, S) = Filter(u, S) \o Filter(v, S)
  BY FilterConcat
<1>7. Filter(<<c>> \o <<d>>, S) = Filter(<<c>>, S) \o Filter(<<d>>, S)
  BY <1>5, <1>6
<1>8. /\ Filter(<<c>>, S) = IF c \in S THEN <<c>> ELSE <<>>
      /\ Filter(<<d>>, S) = IF d \in S THEN <<d>> ELSE <<>>
  BY <1>1, FilterOne
<1> QED BY <1>2, <1>3, <1>4, <1>7, <1>8

-----------------------------------------------------------------------------
(* The steps along the way *)

(* Concatenation of cells, where it can be cited for any three of them. *)
LEMMA CellsAssociate ==
  \A u, v, w \in Seq(Cell) : (u \o v) \o w = u \o (v \o w)
BY ConcatAssociative

(* The peer receives a cell. *)
LEMMA WayReceive ==
  ASSUME NEW r \in Seq(Cell), NEW o \in Seq(Cell), o # <<>>, NEW b, NEW g, NEW i
  PROVE  Way(Append(r, Head(o)), Tail(o), b, g, i) = Way(r, o, b, g, i)
<1> DEFINE h == Head(o)
           w == Tail(o)
<1>1. h \in Cell /\ w \in Seq(Cell) /\ <<h>> \in Seq(Cell)
  BY HeadTailProperties
<1>2. o = <<h>> \o w
  BY <1>1, HeadTailProperties
<1> HIDE DEF h, w
<1>3. Append(r, h) = r \o <<h>>
  BY <1>1, AppendIsConcat
<1> DEFINE one == <<h>>
<1> HIDE DEF one
<1>4. (r \o one) \o w = r \o (one \o w)
  BY <1>1, ConcatAssociative DEF one
<1>5. Append(r, h) \o w = r \o o
  BY <1>2, <1>3, <1>4 DEF one
<1> QED BY <1>5 DEF Way, h, w

(* Cells are written. *)
LEMMA WayWrite ==
  ASSUME NEW r \in Seq(Cell), NEW o \in Seq(Cell), NEW b \in Seq(Cell), NEW g, NEW i,
         NEW k \in 0 .. Len(b)
  PROVE  Way(r, o \o SubSeq(b, 1, k), SubSeq(b, k + 1, Len(b)), g, i) = Way(r, o, b, g, i)
<1> DEFINE x == SubSeq(b, 1, k)
           y == SubSeq(b, k + 1, Len(b))
<1>1. x \in Seq(Cell) /\ y \in Seq(Cell) /\ r \o o \in Seq(Cell)
  BY PieceType, ConcatProperties
<1>2. x \o y = b
  <2>1. /\ Len(b) \in Nat /\ 1 \in 1 .. Len(b) + 1
        /\ k \in 1 - 1 .. Len(b) /\ Len(b) \in k .. Len(b)
    BY LenProperties
  <2>2. SubSeq(b, 1, k) \o SubSeq(b, k + 1, Len(b)) = SubSeq(b, 1, Len(b))
    BY <2>1, ConcatAdjacentSubSeq
  <2>3. SubSeq(b, 1, Len(b)) = b
    BY SubSeqFull
  <2> QED BY <2>2, <2>3
<1> HIDE DEF x, y
<1>3. (r \o o) \o x = r \o (o \o x)
  BY <1>1, ConcatAssociative
<1>4. ((r \o o) \o x) \o y = (r \o o) \o (x \o y)
  <2> DEFINE ro == r \o o
  <2> HIDE DEF ro
  <2>0. ro \in Seq(Cell)
    BY <1>1 DEF ro
  <2>1. (ro \o x) \o y = ro \o (x \o y)
    BY ONLY <1>1, <2>0, CellsAssociate
  <2> QED BY <2>1 DEF ro
<1> QED BY <1>2, <1>3, <1>4 DEF Way, x, y

(* A message to send is printed into the empty sendBuffer_. *)
LEMMA WayPrint ==
  ASSUME NEW r \in Seq(Cell), NEW o \in Seq(Cell), NEW c \in Seq(Cell),
         NEW g \in Seq(Cell), NEW i
  PROVE  Way(r, o, c, g, i) = Way(r, o, <<>>, c \o g, i)
<1> DEFINE ro == r \o o
<1>1. ro \in Seq(Cell)
  BY ConcatProperties
<1> HIDE DEF ro
<1>2. ro \o <<>> = ro /\ (ro \o c) \o g = ro \o (c \o g)
  BY <1>1, ConcatEmptySeq, ConcatAssociative, SMTT(30)
<1> QED BY <1>2 DEF Way, ro

(* The center moves a message from one queue to the other. *)
LEMMA WayProcess ==
  ASSUME NEW r, NEW o, NEW b, r \o o \o b \in Seq(Cell),
         NEW g \in Seq(Cell), NEW c \in Seq(Cell), NEW i \in Seq(Cell)
  PROVE  Way(r, o, b, g \o c, i) = Way(r, o, b, g, c \o i)
<1> DEFINE rob == r \o o \o b
<1>1. rob \in Seq(Cell)
  OBVIOUS
<1> HIDE DEF rob
<1>2. rob \o g \in Seq(Cell)
  BY <1>1, ConcatProperties
<1>3. rob \o (g \o c) = (rob \o g) \o c
  BY ONLY <1>1, CellsAssociate
<1>4. \A y \in Seq(Cell) : (y \o c) \o i = y \o (c \o i)
  BY ONLY CellsAssociate
<1>5. (rob \o (g \o c)) \o i = (rob \o g) \o (c \o i)
  BY ONLY <1>2, <1>3, <1>4
<1> QED BY <1>5 DEF Way, rob

(* What a way ends in may be longer. *)
LEMMA WayLonger ==
  ASSUME NEW x, x \in Seq(Cell), NEW g \in Seq(Cell), NEW i \in Seq(Cell), NEW c \in Seq(Cell)
  PROVE  (x \o g) \o (i \o c) = ((x \o g) \o i) \o c
<1> DEFINE y == x \o g
<1>1. y \in Seq(Cell)
  BY ConcatProperties
<1> HIDE DEF y
<1>2. (y \o i) \o c = y \o (i \o c)
  BY <1>1, CellsAssociate
<1> QED BY <1>2 DEF y

-----------------------------------------------------------------------------
(* The steps of the server *)

(* What Conserved says of a socket depends on. *)
Side(s) ==
  <<peer[s], Taken(s), received[s], outbox[s], sendBuffer[s], outgoing[s], BufferedFrom(s)>>

LEMMA SideType ==
  ASSUME ~SplitHeaders, TypeOK, NEW s \in Socket
  PROVE  /\ received[s] \in Seq(Cell) /\ outbox[s] \in Seq(Cell) /\ sendBuffer[s] \in Seq(Cell)
         /\ received[s] \o outbox[s] \o sendBuffer[s] \in Seq(Cell)
         /\ outgoing[s] \in Seq(Message) /\ Flat(outgoing[s]) \in Seq(Cell)
         /\ BufferedFrom(s) \in Seq(Queues!Envelope)
         /\ Messages(BufferedFrom(s)) \in Seq(Message)
         /\ Flat(Messages(BufferedFrom(s))) \in Seq(Cell)
<1>1. received[s] \in Seq(Cell) /\ outbox[s] \in Seq(Cell) /\ sendBuffer[s] \in Seq(Cell)
  BY DEF TypeOK, SocketTypeOK, NetworkTypeOK
<1>2. received[s] \o outbox[s] \o sendBuffer[s] \in Seq(Cell)
  BY <1>1, ConcatProperties
<1>3. outgoing[s] \in Seq(Message)
  BY DEF TypeOK, SocketTypeOK, Queues!TypeOK
<1>4. BufferedFrom(s) \in Seq(Queues!Envelope)
  BY BufferedType DEF TypeOK
<1>5. Messages(BufferedFrom(s)) \in Seq(Message)
  BY <1>4, MessagesType
<1> QED BY <1>1, <1>2, <1>3, <1>4, <1>5, FlatType

(* A step that concerns one socket. *)
LEMMA ConservedOthers ==
  ASSUME Conserved, NEW s \in Socket,
         \A t \in Socket : t # s => Side(t)' = Side(t),
         Kept(peer'[s], s, Taken(s)', received'[s], outbox'[s], sendBuffer'[s], outgoing'[s],
              BufferedFrom(s)')
  PROVE  Conserved'
<1>1. ASSUME NEW t \in Socket, t # s
      PROVE  Kept(peer'[t], t, Taken(t)', received'[t], outbox'[t], sendBuffer'[t], outgoing'[t],
                  BufferedFrom(t)')
  BY <1>1 DEF Side, Conserved
<1> QED BY <1>1 DEF Conserved

(* A step that concerns none. *)
LEMMA ConservedFrame ==
  ASSUME Conserved, \A t \in Socket : Side(t)' = Side(t)
  PROVE  Conserved'
<1>1. ASSUME NEW t \in Socket
      PROVE  Kept(peer'[t], t, Taken(t)', received'[t], outbox'[t], sendBuffer'[t], outgoing'[t],
                  BufferedFrom(t)')
  BY DEF Side, Conserved
<1> QED BY <1>1 DEF Conserved

(* Reads, and the ends of the loops. *)
LEMMA OtherStepsConserve ==
  ASSUME TypeOK, Stream, Conserved, NEW s \in Socket,
         \/ ReadData(s) \/ ReadCloses(s) \/ ReadStops(s) \/ ExtractDone(s)
         \/ WriteCloses(s) \/ WriteStops(s)
  PROVE  Conserved'
<1>1. UNCHANGED <<peer, received, outbox, sendBuffer, outgoing, incoming>>
  BY DEF ReadData, KernelRead, ReadCloses, ReadStops, ExtractDone, WriteCloses, WriteStops,
         sockets, queues, network
<1>2. \A t \in Socket : Taken(t)' = Taken(t)
  <2>1. CASE ReadData(s)
    BY <2>1, ReadStream DEF TypeOK
  <2>2. CASE ~ReadData(s)
    <3>1. UNCHANGED <<sent, recvBuffer, inbox>>
      BY <2>2 DEF ReadCloses, ReadStops, ExtractDone, WriteCloses, WriteStops, sockets, network
    <3> QED BY <3>1, StreamFrame
  <2> QED BY <2>1, <2>2
<1>3. \A t \in Socket : BufferedFrom(t)' = BufferedFrom(t)
  BY <1>1, BufferedFrame
<1>4. \A t \in Socket : Side(t)' = Side(t)
  BY <1>1, <1>2, <1>3 DEF Side
<1> QED BY <1>4, ConservedFrame

(* The next message to send goes into sendBuffer_. *)
LEMMA PrintConserves ==
  ASSUME ~SplitHeaders, TypeOK, Stream, Conserved, NEW s \in Socket, PrintMessage(s)
  PROVE  Conserved'
<1> DEFINE h == Head(outgoing[s])
           w == Tail(outgoing[s])
<1>1. /\ sendBuffer[s] = <<>> /\ outgoing[s] # <<>>
      /\ UNCHANGED <<peer, sent, inbox, received, outbox, recvBuffer, incoming>>
  BY DEF PrintMessage, HasMessageToSend, Queues!Dequeue, network
<1>2. /\ sendBuffer'[s] = CellsOf(h) /\ outgoing'[s] = w
      /\ \A t \in Socket : t # s => sendBuffer'[t] = sendBuffer[t] /\ outgoing'[t] = outgoing[t]
  BY DEF PrintMessage, Queues!Dequeue, TypeOK, SocketTypeOK, Queues!TypeOK
<1>3. /\ h \in Message /\ w \in Seq(Message) /\ outgoing[s] \in Seq(Message)
      /\ outgoing[s] = <<h>> \o w
  BY <1>1, SideType, HeadTailProperties
<1> HIDE DEF h, w
<1>4. Flat(outgoing[s]) = CellsOf(h) \o Flat(w) /\ CellsOf(h) \in Seq(Cell) /\ Flat(w) \in Seq(Cell)
  <2> DEFINE one == <<h>>
  <2>1. one \in Seq(Message)
    BY <1>3
  <2>2. Flat(one) = CellsOf(h) /\ CellsOf(h) \in Seq(Cell)
    BY <1>3, FlatOne
  <2> HIDE DEF one
  <2>3. Flat(one \o w) = Flat(one) \o Flat(w) /\ Flat(w) \in Seq(Cell)
    BY <1>3, <2>1, FlatConcat, FlatType
  <2> QED BY <1>3, <2>2, <2>3 DEF one
<1>5. \A t \in Socket : Taken(t)' = Taken(t) /\ BufferedFrom(t)' = BufferedFrom(t)
  BY <1>1, StreamFrame, BufferedFrame
<1> DEFINE r == received[s]
           o == outbox[s]
           i == Flat(Messages(BufferedFrom(s)))
           c == CellsOf(h)
           g == Flat(w)
<1>6. Way(r, o, c, g, i) = Way(r, o, <<>>, c \o g, i)
  <2>1. r \in Seq(Cell) /\ o \in Seq(Cell) /\ c \in Seq(Cell) /\ g \in Seq(Cell)
    BY <1>4, SideType
  <2> HIDE DEF r, o, c, g, i
  <2> QED BY <2>1, WayPrint
<1>7. Kept(peer'[s], s, Taken(s)', received'[s], outbox'[s], sendBuffer'[s], outgoing'[s],
           BufferedFrom(s)')
  BY <1>1, <1>2, <1>4, <1>5, <1>6 DEF Conserved, Kept
<1>8. \A t \in Socket : t # s => Side(t)' = Side(t)
  BY <1>1, <1>2, <1>5 DEF Side
<1> QED BY <1>7, <1>8, ConservedOthers

(* Cells go from sendBuffer_ to the kernel. *)
LEMMA WriteConserves ==
  ASSUME ~SplitHeaders, TypeOK, Stream, Conserved, NEW s \in Socket, WriteData(s)
  PROVE  Conserved'
<1>1. PICK k \in 1 .. Min({BlockSize, Len(sendBuffer[s])}) :
        /\ KernelWrite(s, SubSeq(sendBuffer[s], 1, k))
        /\ sendBuffer' = [sendBuffer EXCEPT ![s] = SubSeq(@, k + 1, Len(@))]
  BY DEF WriteData
<1>2. UNCHANGED <<peer, sent, inbox, received, recvBuffer, incoming, outgoing>>
  BY <1>1 DEF WriteData, KernelWrite, queues
<1>3. k \in 0 .. Len(sendBuffer[s])
  BY WriteSize DEF TypeOK
<1>4. /\ sendBuffer'[s] = SubSeq(sendBuffer[s], k + 1, Len(sendBuffer[s]))
      /\ outbox'[s] = outbox[s] \o SubSeq(sendBuffer[s], 1, k)
      /\ \A t \in Socket : t # s => sendBuffer'[t] = sendBuffer[t] /\ outbox'[t] = outbox[t]
  BY <1>1 DEF KernelWrite, TypeOK, SocketTypeOK, NetworkTypeOK
<1>5. \A t \in Socket : Taken(t)' = Taken(t) /\ BufferedFrom(t)' = BufferedFrom(t)
  BY <1>2, StreamFrame, BufferedFrame
<1> DEFINE r == received[s]
           o == outbox[s]
           b == sendBuffer[s]
           g == Flat(outgoing[s])
           i == Flat(Messages(BufferedFrom(s)))
<1>6. Way(r, o \o SubSeq(b, 1, k), SubSeq(b, k + 1, Len(b)), g, i) = Way(r, o, b, g, i)
  <2>1. r \in Seq(Cell) /\ o \in Seq(Cell) /\ b \in Seq(Cell) /\ k \in 0 .. Len(b)
    BY <1>3, SideType
  <2> HIDE DEF r, o, b, g, i
  <2> QED BY <2>1, WayWrite
<1>7. Kept(peer'[s], s, Taken(s)', received'[s], outbox'[s], sendBuffer'[s], outgoing'[s],
           BufferedFrom(s)')
  BY <1>2, <1>4, <1>5, <1>6 DEF Conserved, Kept
<1>8. \A t \in Socket : t # s => Side(t)' = Side(t)
  BY <1>2, <1>4, <1>5 DEF Side
<1> QED BY <1>7, <1>8, ConservedOthers

(* The next message of a stream adds its cells to the answer. *)
LEMMA NextAnswer ==
  ASSUME ~SplitHeaders, NEW s \in Socket, NEW n \in Nat, n % 2 = 0,
         n + 2 <= MessageSize * Requests[s]
  PROVE  LET m == <<s, (n \div 2) + 1>>
         IN  /\ Supported(SentCells(s, 0, n)) \in Seq(Cell)
             /\ Supported(SentCells(s, 0, n + 2)) =
                  IF m \in Unsupported THEN Supported(SentCells(s, 0, n))
                  ELSE Supported(SentCells(s, 0, n)) \o CellsOf(m)
<1> DEFINE m == <<s, (n \div 2) + 1>>
           b == n + 2
           u == SentCells(s, 0, n)
           v == SentCells(s, n, b)
           S == {c \in Cell : c[1] \notin Unsupported}
<1>1. b \in Nat /\ 0 <= n /\ n <= b /\ b <= MessageSize * Requests[s]
  OBVIOUS
<1>2. n <= MessageSize * Requests[s]
  <2> DEFINE k == MessageSize * Requests[s]
  <2>1. k \in Nat
    BY NetworkAssumption, PartsType
  <2>2. b <= k
    BY <1>1
  <2> HIDE DEF k
  <2>3. n <= k
    BY <2>1, <2>2
  <2> QED BY <2>3 DEF k
<1>3. v = CellsOf(m) /\ m \in Message
  <2>1. v = CellsOf(m)
    BY SentMessage
  <2>2. Requests[s] \in Nat /\ n + 2 <= 2 * Requests[s]
    BY NetworkAssumption, TwoParts
  <2>3. (n \div 2) + 1 \in 1 .. Requests[s]
    BY <2>2
  <2> QED BY <2>1, <2>3 DEF Message
<1> HIDE DEF b
<1>4. u \in Seq(Cell) /\ v \in Seq(Cell)
  BY <1>1, <1>2, SentType
<1>5. SentCells(s, 0, b) = u \o v
  BY <1>1, SentConcat, ZenonT(40)
<1> HIDE DEF u, v, S, m
<1>6. Filter(u \o v, S) = Filter(u, S) \o Filter(v, S) /\ Filter(u, S) \in Seq(Cell)
  <2>1. \A x, y \in Seq(Cell) : Filter(x \o y, S) = Filter(x, S) \o Filter(y, S)
    BY FilterConcat
  <2>2. Filter(u, S) \in Seq(Cell)
    BY <1>4, FilterSeq
  <2> QED BY <1>4, <2>1, <2>2
<1>7. \A x : Supported(x) = Filter(x, S)
  BY DEF Supported, S
<1>8. Supported(CellsOf(m)) = IF m \in Unsupported THEN <<>> ELSE CellsOf(m)
  BY <1>3, SupportedMessage
<1>9. Filter(u, S) \o <<>> = Filter(u, S)
  BY <1>6, ConcatEmptySeq
<1>10. /\ Supported(u) \in Seq(Cell)
       /\ Supported(SentCells(s, 0, b)) =
            IF m \in Unsupported THEN Supported(u) ELSE Supported(u) \o CellsOf(m)
  BY <1>3, <1>5, <1>6, <1>7, <1>8, <1>9
<1> QED BY <1>10 DEF m, u, b

(* A message joins the queue of the center, flattened. *)
LEMMA BufferedFlat ==
  ASSUME ~SplitHeaders, NEW q \in Seq(Queues!Envelope), NEW e \in Queues!Envelope
  PROVE  /\ Flat(Messages(Append(q, e))) = Flat(Messages(q)) \o CellsOf(e.msg)
         /\ Flat(Messages(<<e>> \o q)) = CellsOf(e.msg) \o Flat(Messages(q))
<1> DEFINE x == <<e>>
           y == <<e.msg>>
           mq == Messages(q)
<1>1. x \in Seq(Queues!Envelope) /\ e.msg \in Message
  BY DEF Queues!Envelope
<1>2. y \in Seq(Message) /\ mq \in Seq(Message)
  BY <1>1, MessagesType
<1>3. Append(q, e) = q \o x
  BY AppendIsConcat
<1>4. Messages(x) = y /\ Flat(y) = CellsOf(e.msg)
  BY <1>1, MessagesOne, FlatOne
<1> HIDE DEF x, y
<1>5. Messages(q \o x) = mq \o Messages(x) /\ Messages(x \o q) = Messages(x) \o mq
  BY <1>1, MessagesConcat
<1> HIDE DEF mq
<1>6. Flat(mq \o y) = Flat(mq) \o Flat(y) /\ Flat(y \o mq) = Flat(y) \o Flat(mq)
  BY <1>2, FlatConcat
<1> QED BY <1>3, <1>4, <1>5, <1>6 DEF x, mq

(* A message leaves recvBuffer_, and its answer is on the way. *)
LEMMA ExtractConserves ==
  ASSUME ~SplitHeaders, TypeOK, Stream, Conserved, NEW s \in Socket, ExtractOne(s)
  PROVE  Conserved'
<1> DEFINE n == Taken(s)
           m == FirstMessage(s)
           e == [sock |-> s, msg |-> m]
           q == BufferedFrom(s)
<1>1. /\ InStep(s) /\ Len(recvBuffer[s]) >= MessageSize
      /\ UNCHANGED <<peer, sent, inbox, received, outbox, sendBuffer, outgoing>>
  BY DEF ExtractOne, HasWholeMessage, network, queues, Queues!Arrive
<1>2. /\ n % 2 = 0 /\ m = <<s, (n \div 2) + 1>> /\ n \in Nat
      /\ Taken(s)' = n + 2
      /\ \A t \in Socket : t # s => Taken(t)' = Taken(t)
  BY <1>1, FirstOfStream, ExtractOneStream, TwoParts DEF TypeOK, Stream, Runs
<1>3. n + 2 <= MessageSize * Requests[s]
  <2> DEFINE k == MessageSize * Requests[s]
             l == Len(recvBuffer[s])
  <2>1. k \in Nat /\ sent[s] \in Nat /\ sent[s] <= k
    BY NetworkAssumption, PartsType DEF TypeOK, NetworkTypeOK
  <2>2. l \in Nat /\ Len(inbox[s]) \in Nat /\ l >= 2 /\ n = sent[s] - l - Len(inbox[s])
    BY <1>1, TwoParts, LenProperties DEF Taken, TypeOK, SocketTypeOK, NetworkTypeOK
  <2> HIDE DEF k, l, n
  <2>3. n + 2 <= k
    BY <2>1, <2>2
  <2> QED BY <2>3 DEF k
<1>4. m \in Message
  BY <1>1, FirstMessageType DEF TypeOK, InStep
<1>5. /\ Supported(SentCells(s, 0, n)) \in Seq(Cell)
      /\ Supported(SentCells(s, 0, n + 2)) =
           IF m \in Unsupported THEN Supported(SentCells(s, 0, n))
           ELSE Supported(SentCells(s, 0, n)) \o CellsOf(m)
  <2> HIDE DEF n, m
  <2> QED BY <1>2, <1>3, NextAnswer
<1>6. CASE m \in Unsupported
  <2>1. UNCHANGED incoming
    BY <1>6 DEF ExtractOne, queues
  <2>2. \A t \in Socket : BufferedFrom(t)' = BufferedFrom(t)
    BY <2>1, BufferedFrame
  <2>3. Kept(peer'[s], s, Taken(s)', received'[s], outbox'[s], sendBuffer'[s], outgoing'[s],
             BufferedFrom(s)')
    BY <1>1, <1>2, <1>5, <1>6, <2>2 DEF Conserved, Kept
  <2>4. \A t \in Socket : t # s => Side(t)' = Side(t)
    BY <1>1, <1>2, <2>2 DEF Side
  <2> QED BY <2>3, <2>4, ConservedOthers
<1>7. CASE m \notin Unsupported
  <2>1. incoming' = Append(incoming, e) /\ e \in Queues!Envelope /\ e.sock = s /\ e.msg = m
    BY <1>4, <1>7 DEF ExtractOne, Queues!Arrive, Queues!Envelope
  <2> HIDE DEF e
  <2>2. \A t \in Socket :
          BufferedFrom(t)' = IF e.sock = t THEN Append(BufferedFrom(t), e) ELSE BufferedFrom(t)
    BY <2>1, BufferedArrive DEF TypeOK
  <2>3. BufferedFrom(s)' = Append(q, e) /\ \A t \in Socket : t # s => BufferedFrom(t)' = BufferedFrom(t)
    BY <2>1, <2>2
  <2> DEFINE r == received[s]
             o == outbox[s]
             b == sendBuffer[s]
             g == Flat(outgoing[s])
             i == Flat(Messages(q))
             c == CellsOf(m)
  <2>4. Flat(Messages(Append(q, e))) = i \o c
    BY <2>1, SideType, BufferedFlat
  <2>5. Way(r, o, b, g, i \o c) = Way(r, o, b, g, i) \o c
    <3>1. r \o o \o b \in Seq(Cell) /\ g \in Seq(Cell) /\ i \in Seq(Cell)
      BY SideType
    <3>2. c \in Seq(Cell)
      BY <1>4, CellsOfType
    <3> DEFINE x == r \o o \o b
    <3>3. x \in Seq(Cell)
      BY <3>1
    <3>4. g \in Seq(Cell) /\ i \in Seq(Cell) /\ c \in Seq(Cell)
      BY <3>1, <3>2
    <3> HIDE DEF g, i, c, x
    <3>5. (x \o g) \o (i \o c) = ((x \o g) \o i) \o c
      BY ONLY <3>3, <3>4, WayLonger, SMTT(30)
    <3> QED BY <3>5 DEF Way, x
  <2>6. Kept(peer'[s], s, Taken(s)', received'[s], outbox'[s], sendBuffer'[s], outgoing'[s],
             BufferedFrom(s)')
    BY <1>1, <1>2, <1>5, <1>7, <2>3, <2>4, <2>5 DEF Conserved, Kept
  <2>7. \A t \in Socket : t # s => Side(t)' = Side(t)
    BY <1>1, <1>2, <2>3 DEF Side
  <2> QED BY <2>6, <2>7, ConservedOthers
<1> QED BY <1>6, <1>7

(* The center moves a message from its queue to that of the same socket. *)
LEMMA ProcessConserves ==
  ASSUME ~SplitHeaders, TypeOK, Stream, Conserved, ProcessMessage
  PROVE  Conserved'
<1>0. /\ incoming # <<>> /\ Head(incoming) \in Queues!Envelope
      /\ Tail(incoming) \in Seq(Queues!Envelope)
  BY HeadTailProperties DEF ProcessMessage, TypeOK, SocketTypeOK, Queues!TypeOK
<1> PICK e \in Queues!Envelope : e = Head(incoming)
  BY <1>0
<1> DEFINE s == e.sock
           m == e.msg
           q == BufferedFrom(s)'
<1>1. /\ incoming # <<>> /\ incoming' = Tail(incoming)
      /\ outgoing' = [outgoing EXCEPT ![s] = Append(@, m)]
      /\ UNCHANGED <<peer, sent, inbox, received, outbox, sendBuffer, recvBuffer>>
  BY DEF ProcessMessage, sockets, network
<1>2. e \in Queues!Envelope /\ s \in Socket /\ m \in Message
      /\ incoming' \in Seq(Queues!Envelope)
  BY <1>0, <1>1 DEF Queues!Envelope
<1>3. \A t \in Socket :
        BufferedFrom(t) = (IF e.sock = t THEN <<e>> ELSE <<>>) \o BufferedFrom(t)'
  BY <1>1, BufferedTail DEF TypeOK
<1>4. \A t \in Socket : BufferedFrom(t)' \in Seq(Queues!Envelope)
  BY <1>2, FilterSeq DEF BufferedFrom, Queues!Envelope
<1>5. ASSUME NEW t \in Socket, t # s
      PROVE  BufferedFrom(t)' = BufferedFrom(t)
  <2> DEFINE x == BufferedFrom(t)'
  <2>1. x \in Seq(Queues!Envelope) /\ BufferedFrom(t) = <<>> \o x
    BY <1>3, <1>4, <1>5
  <2> HIDE DEF x
  <2>2. <<>> \o x = x
    BY <2>1, ConcatEmptySeq
  <2> QED BY <2>1, <2>2 DEF x
<1>6. BufferedFrom(s) = <<e>> \o q /\ q \in Seq(Queues!Envelope)
  BY <1>2, <1>3, <1>4
<1>7. /\ outgoing'[s] = Append(outgoing[s], m)
      /\ \A t \in Socket : t # s => outgoing'[t] = outgoing[t]
  BY <1>1, <1>2 DEF TypeOK, SocketTypeOK, Queues!TypeOK
<1>8. \A t \in Socket : Taken(t)' = Taken(t)
  BY <1>1, StreamFrame
<1> HIDE DEF s, m, q
<1> DEFINE r == received[s]
           o == outbox[s]
           b == sendBuffer[s]
           g == Flat(outgoing[s])
           i == Flat(Messages(q))
           c == CellsOf(m)
<1>9. Flat(Messages(<<e>> \o q)) = c \o i
  BY <1>2, <1>6, BufferedFlat DEF m
<1>10. Flat(Append(outgoing[s], m)) = g \o c /\ c \in Seq(Cell)
  <2> DEFINE p == outgoing[s]
             one == <<m>>
  <2>1. p \in Seq(Message) /\ one \in Seq(Message)
    BY <1>2, SideType
  <2>2. Flat(one) = CellsOf(m) /\ CellsOf(m) \in Seq(Cell)
    BY <1>2, FlatOne
  <2>3. Append(p, m) = p \o one
    BY <1>2, <2>1, AppendIsConcat
  <2> HIDE DEF p, one
  <2>4. Flat(p \o one) = Flat(p) \o Flat(one)
    BY <2>1, FlatConcat
  <2> QED BY <2>2, <2>3, <2>4 DEF p
<1>11. Way(r, o, b, g \o c, i) = Way(r, o, b, g, c \o i)
  <2>1. r \o o \o b \in Seq(Cell) /\ g \in Seq(Cell)
    BY <1>2, SideType
  <2>2. i \in Seq(Cell)
    BY <1>6, MessagesType, FlatType
  <2>3. c \in Seq(Cell)
    BY <1>10
  <2> HIDE DEF r, o, b, g, c, i
  <2> QED BY <2>1, <2>2, <2>3, WayProcess
<1>12. Kept(peer'[s], s, Taken(s)', received'[s], outbox'[s], sendBuffer'[s], outgoing'[s],
            BufferedFrom(s)')
  <2>1. BufferedFrom(s)' = q
    BY DEF q
  <2> QED BY <1>1, <1>2, <1>6, <1>7, <1>8, <1>9, <1>10, <1>11, <2>1 DEF Conserved, Kept
<1>13. \A t \in Socket : t # s => Side(t)' = Side(t)
  BY <1>1, <1>5, <1>7, <1>8 DEF Side
<1> QED BY <1>2, <1>12, <1>13, ConservedOthers

(* Peers send, receive and go. *)
LEMMA PeersConserve ==
  ASSUME ~SplitHeaders, TypeOK, Stream, Conserved, PeerNext, UNCHANGED <<call, sockets, queues>>
  PROVE  Conserved'
<1>1. /\ \A t \in Socket : Taken(t)' = Taken(t)
      /\ \A t \in Socket : BufferedFrom(t)' = BufferedFrom(t)
      /\ UNCHANGED <<sendBuffer, outgoing>>
  BY PeerStream, BufferedFrame DEF sockets, queues, TypeOK
<1>2. PICK s \in Socket : \/ PeerConnect(s)
                          \/ PeerSend(s)
                          \/ PeerReceive(s)
                          \/ PeerClose(s)
                          \/ PeerReject(s)
  BY DEF PeerNext
<1>3. \A t \in Socket : t # s => Side(t)' = Side(t)
  <2>1. ASSUME NEW t \in Socket, t # s
        PROVE  /\ peer'[t] = peer[t] /\ received'[t] = received[t] /\ outbox'[t] = outbox[t]
    BY <1>2, <2>1 DEF PeerConnect, PeerSend, PeerReceive, PeerClose, PeerReject,
                      TypeOK, NetworkTypeOK
  <2> QED BY <1>1, <2>1 DEF Side
<1>4. CASE PeerReceive(s)
  <2> DEFINE r == received[s]
             o == outbox[s]
             b == sendBuffer[s]
             g == Flat(outgoing[s])
             i == Flat(Messages(BufferedFrom(s)))
  <2>1. /\ o # <<>> /\ peer'[s] = peer[s]
        /\ received'[s] = Append(r, Head(o)) /\ outbox'[s] = Tail(o)
    BY <1>4 DEF PeerReceive, TypeOK, NetworkTypeOK
  <2>2. r \in Seq(Cell) /\ o \in Seq(Cell)
    BY SideType
  <2>3. Way(Append(r, Head(o)), Tail(o), b, g, i) = Way(r, o, b, g, i)
    <3> HIDE DEF r, o, b, g, i
    <3> QED BY <2>1, <2>2, WayReceive
  <2>4. Kept(peer'[s], s, Taken(s)', received'[s], outbox'[s], sendBuffer'[s], outgoing'[s],
             BufferedFrom(s)')
    BY <1>1, <2>1, <2>3 DEF Conserved, Kept
  <2> QED BY <1>3, <2>4, ConservedOthers
<1>5. CASE PeerConnect(s) \/ PeerSend(s) \/ PeerClose(s) \/ PeerReject(s)
  <2>1. /\ received'[s] = received[s]
        /\ peer'[s] \in {"none", "open", "fin"} => /\ peer[s] \in {"none", "open", "fin"}
                                                   /\ outbox'[s] = outbox[s]
    BY <1>5 DEF PeerConnect, PeerSend, PeerClose, PeerReject, TypeOK, NetworkTypeOK
  <2>2. Kept(peer'[s], s, Taken(s)', received'[s], outbox'[s], sendBuffer'[s], outgoing'[s],
             BufferedFrom(s)')
    BY <1>1, <2>1 DEF Conserved, Kept
  <2> QED BY <1>3, <2>2, ConservedOthers
<1> QED BY <1>2, <1>4, <1>5

(* Nothing was sent, and nothing is on the way. *)
LEMMA InitConserved ==
  ASSUME ~SplitHeaders, Init
  PROVE  Conserved
<1>1. ASSUME NEW s \in Socket
      PROVE  Kept(peer[s], s, Taken(s), received[s], outbox[s], sendBuffer[s], outgoing[s],
                  BufferedFrom(s))
  <2>1. /\ sent[s] = 0 /\ inbox[s] = <<>> /\ recvBuffer[s] = <<>> /\ outgoing[s] = <<>>
        /\ received[s] = <<>> /\ outbox[s] = <<>> /\ sendBuffer[s] = <<>> /\ incoming = <<>>
    BY DEF Init, NetworkInit, SocketInit, Queues!Init
  <2>2. Taken(s) = 0
    <3>1. Len(<<>>) = 0
      BY EmptySeq
    <3>2. sent[s] = 0 /\ Len(recvBuffer[s]) = 0 /\ Len(inbox[s]) = 0
      BY <2>1, <3>1
    <3> QED BY ONLY <3>2 DEF Taken
  <2>3. BufferedFrom(s) = <<>>
    BY <2>1, FilterEmpty DEF BufferedFrom
  <2>4. \A q \in Seq(Cell) : Len(q) = 0 => q = <<>>
    BY EmptySeq
  <2>5. SentCells(s, 0, 0) = <<>>
    <3> DEFINE z == MessageSize * Requests[s]
    <3>1. z \in Nat
      BY NetworkAssumption, PartsType
    <3>2. 0 <= z /\ 0 - 0 = 0
      BY <3>1
    <3>3. SentCells(s, 0, 0) \in Seq(Cell) /\ Len(SentCells(s, 0, 0)) = 0 - 0
      BY <3>2, SentType
    <3> QED BY <2>4, <3>2, <3>3
  <2>6. Supported(<<>>) = <<>>
    BY FilterEmpty DEF Supported
  <2>7. Messages(<<>>) = <<>>
    BY DEF Messages
  <2>8. Flat(<<>>) = <<>>
    <3>1. <<>> \in Seq(Message) /\ Len(<<>>) = 0
      BY EmptySeq
    <3>2. Flat(<<>>) \in Seq(Cell) /\ Len(Flat(<<>>)) = 2 * 0
      BY <3>1, FlatType
    <3> QED BY <2>4, <3>2
  <2>9. Way(<<>>, <<>>, <<>>, <<>>, <<>>) = <<>>
    BY EmptySeq, ConcatEmptySeq DEF Way
  <2> QED BY <2>1, <2>2, <2>3, <2>5, <2>6, <2>7, <2>8, <2>9 DEF Kept
<1> QED BY <1>1 DEF Conserved

(* Every step conserves. *)
LEMMA NextConserved ==
  ASSUME ~SplitHeaders, RefinementInv, [Next]_vars
  PROVE  RefinementInv'
<1>1. /\ TypeOK /\ SocketTypeOK /\ NetworkTypeOK /\ Stream /\ Whole /\ Conserved
      /\ PassInv /\ PassInv'
  BY NextPass DEF RefinementInv, PassInv, StreamInv, Inv, TypeOK
<1>2. CASE \E s \in Socket : HandlerStep(s)
  <2>1. PICK s \in Socket : HandlerStep(s)
    BY <1>2
  <2>2. ~ExtractClears(s) /\ ~ExtractGarbage(s)
    BY <1>1, <2>1, StepWhole
  <2>3. Conserved'
    BY <1>1, <2>1, <2>2, OtherStepsConserve, PrintConserves, WriteConserves, ExtractConserves
       DEF HandlerStep
  <2> QED BY <1>1, <2>3 DEF RefinementInv
<1>3. CASE \E s \in Socket : StartReadable(s) \/ StartWritable(s)
  <2>1. UNCHANGED <<peer, sent, inbox, received, outbox, recvBuffer, sendBuffer, queues>>
    BY <1>3 DEF StartReadable, StartWritable, CheckNonBlockConnect, sockets, network
  <2>2. \A t \in Socket : Side(t)' = Side(t)
    BY <1>1, <2>1, StreamFrame, BufferedFrame DEF Side, queues
  <2> QED BY <1>1, <2>2, ConservedFrame DEF RefinementInv
<1>4. CASE PeerNext /\ UNCHANGED <<call, sockets, queues>>
  BY <1>1, <1>4, PeersConserve DEF RefinementInv
<1>5. CASE ProcessMessage
  BY <1>1, <1>5, ProcessConserves DEF RefinementInv
<1>6. CASE UNCHANGED <<peer, sent, inbox, outbox, received, recvBuffer, sendBuffer, queues>>
  <2>1. \A t \in Socket : Side(t)' = Side(t)
    BY <1>1, <1>6, StreamFrame, BufferedFrame DEF Side, queues
  <2> QED BY <1>1, <2>1, ConservedFrame DEF RefinementInv
<1> QED BY <1>1, <1>2, <1>3, <1>4, <1>5, <1>6, StepKinds

-----------------------------------------------------------------------------
(* What the invariant shows *)

(* What a peer sent is what was taken, what was read and what was not. *)
LEMMA StreamCells ==
  ASSUME TypeOK, Stream, NEW s \in Socket
  PROVE  /\ Taken(s) \in Nat /\ Taken(s) <= sent[s]
         /\ sent[s] \in Nat /\ sent[s] <= MessageSize * Requests[s]
         /\ SentCells(s, Taken(s), sent[s]) = recvBuffer[s] \o inbox[s]
         /\ recvBuffer[s] \o inbox[s] \in Seq(Cell)
<1> DEFINE n == Taken(s)
           m == sent[s]
           rb == recvBuffer[s]
           ib == inbox[s]
           u == SentCells(s, n, m)
           v == rb \o ib
<1>1. /\ rb \in Seq(Cell) /\ ib \in Seq(Cell) /\ Len(rb) \in Nat /\ Len(ib) \in Nat
      /\ m \in Nat /\ m <= MessageSize * Requests[s]
  BY LenProperties DEF TypeOK, SocketTypeOK, NetworkTypeOK
<1>2. /\ n \in Nat
      /\ \A i \in 1 .. Len(rb) : rb[i] = SentCell(s, n + i)
      /\ \A i \in 1 .. Len(ib) : ib[i] = SentCell(s, n + Len(rb) + i)
  BY DEF Stream, Runs
<1>3. n = m - Len(rb) - Len(ib)
  BY DEF Taken
<1> HIDE DEF n, m, rb, ib
<1>4. n <= m /\ m - n = Len(rb) + Len(ib)
  BY <1>1, <1>2, <1>3
<1>5. u \in Seq(Cell) /\ Len(u) = m - n /\ \A i \in 1 .. m - n : u[i] = SentCell(s, n + i)
  BY <1>1, <1>2, <1>4, SentType
<1>6. /\ v \in Seq(Cell) /\ Len(v) = Len(rb) + Len(ib)
      /\ \A i \in 1 .. Len(rb) + Len(ib) : v[i] = IF i <= Len(rb) THEN rb[i] ELSE ib[i - Len(rb)]
  BY <1>1, ConcatProperties
<1> HIDE DEF u, v
<1>7. ASSUME NEW i \in 1 .. Len(u)
      PROVE  u[i] = v[i]
  <2>1. i \in 1 .. Len(rb) + Len(ib) /\ u[i] = SentCell(s, n + i)
    BY <1>4, <1>5
  <2>2. CASE i <= Len(rb)
    <3>1. i \in 1 .. Len(rb) /\ v[i] = rb[i]
      BY ONLY <1>1, <1>6, <2>1, <2>2
    <3>2. rb[i] = SentCell(s, n + i)
      BY <1>2, <3>1
    <3> QED BY <2>1, <3>1, <3>2
  <2>3. CASE ~ (i <= Len(rb))
    <3> DEFINE j == i - Len(rb)
    <3>1. j \in 1 .. Len(ib) /\ v[i] = ib[j] /\ n + Len(rb) + j = n + i
      BY <1>1, <1>2, <1>6, <2>1, <2>3
    <3> HIDE DEF j
    <3>2. ib[j] = SentCell(s, n + Len(rb) + j)
      BY <1>2, <3>1
    <3> QED BY <2>1, <3>1, <3>2
  <2> QED BY <2>2, <2>3
<1>8. Len(u) = Len(v)
  BY <1>4, <1>5, <1>6
<1>9. u = v
  BY <1>5, <1>6, <1>7, <1>8, SeqEqual
<1>10. n \in Nat /\ n <= m /\ m \in Nat /\ m <= MessageSize * Requests[s]
  BY <1>1, <1>2, <1>4
<1> QED BY <1>6, <1>9, <1>10 DEF u, v, n, m, rb, ib

(* The answer to what was sent goes on from the answer to what was taken. *)
LEMMA AnswerConcat ==
  ASSUME NEW s \in Socket, NEW n \in Nat, NEW m \in Nat, n <= m,
         m <= MessageSize * Requests[s]
  PROVE  /\ Supported(SentCells(s, 0, n)) \in Seq(Cell)
         /\ Supported(SentCells(s, n, m)) \in Seq(Cell)
         /\ Supported(SentCells(s, 0, m))
              = Supported(SentCells(s, 0, n)) \o Supported(SentCells(s, n, m))
<1> DEFINE u == SentCells(s, 0, n)
           v == SentCells(s, n, m)
           S == {c \in Cell : c[1] \notin Unsupported}
<1>1. n <= MessageSize * Requests[s]
  <2> DEFINE k == MessageSize * Requests[s]
  <2>1. k \in Nat
    BY NetworkAssumption, PartsType
  <2>2. m <= k
    OBVIOUS
  <2> HIDE DEF k
  <2>3. n <= k
    BY <2>1, <2>2
  <2> QED BY <2>3 DEF k
<1>2. u \in Seq(Cell) /\ v \in Seq(Cell)
  BY <1>1, SentType
<1>3. SentCells(s, 0, m) = u \o v
  BY SentConcat
<1>4. \A x : Supported(x) = Filter(x, S)
  BY DEF Supported
<1> HIDE DEF u, v, S
<1>5. \A x, y \in Seq(Cell) : Filter(x \o y, S) = Filter(x, S) \o Filter(y, S)
  BY FilterConcat
<1>6. \A x \in Seq(Cell) : Filter(x, S) \in Seq(Cell)
  BY FilterSeq
<1>7. Filter(u \o v, S) = Filter(u, S) \o Filter(v, S)
  BY <1>2, <1>5
<1> QED BY <1>2, <1>3, <1>4, <1>6, <1>7 DEF u, v

LEMMA ImpliesConservation ==
  ASSUME RefinementInv
  PROVE  Conservation
<1> SUFFICES ASSUME NEW s \in Socket, peer[s] \in {"open", "fin"}
             PROVE  Supported(SentCells(s, 0, sent[s]))
                      = Way(received[s], outbox[s], sendBuffer[s], Flat(outgoing[s]),
                            Flat(Messages(BufferedFrom(s))))
                          \o Supported(recvBuffer[s] \o inbox[s])
  BY DEF Conservation, Way
<1> DEFINE n == Taken(s)
           m == sent[s]
<1>1. TypeOK /\ Stream /\ Conserved
  BY DEF RefinementInv, PassInv, StreamInv, Inv
<1>2. /\ n \in Nat /\ n <= m /\ m \in Nat /\ m <= MessageSize * Requests[s]
      /\ SentCells(s, n, m) = recvBuffer[s] \o inbox[s]
  BY <1>1, StreamCells
<1>3. Supported(SentCells(s, 0, n))
        = Way(received[s], outbox[s], sendBuffer[s], Flat(outgoing[s]),
              Flat(Messages(BufferedFrom(s))))
  BY <1>1 DEF Conserved, Kept
<1> HIDE DEF n, m
<1>4. Supported(SentCells(s, 0, m))
        = Supported(SentCells(s, 0, n)) \o Supported(SentCells(s, n, m))
  BY <1>2, AnswerConcat
<1> QED BY <1>2, <1>3, <1>4 DEF m

(* Cell k of a stream is c. *)
CellAt(q, k, c) == q \in Seq(Cell) /\ k \in 1 .. Len(q) /\ q[k] = c

(* A cell keeps its place when others are put behind it. *)
LEMMA PrefixStays ==
  ASSUME NEW x, NEW y \in Seq(Cell), NEW k, NEW c, CellAt(x, k, c)
  PROVE  CellAt(x \o y, k, c)
<1>1. /\ x \in Seq(Cell) /\ k \in 1 .. Len(x) /\ x[k] = c
      /\ Len(x) \in Nat /\ Len(y) \in Nat
  BY LenProperties DEF CellAt
<1>2. x \o y \in Seq(Cell) /\ Len(x \o y) = Len(x) + Len(y) /\ (x \o y)[k] = x[k]
  BY <1>1, ConcatProperties
<1> QED BY <1>1, <1>2 DEF CellAt

(* What a peer receives next is the next cell of what it is owed. *)
LEMMA ReceiveAnswers ==
  ASSUME ~SplitHeaders, RefinementInv, NEW s \in Socket, PeerReceive(s)
  PROVE  /\ Len(received[s]) < Len(Due(s, sent[s]))
         /\ Head(outbox[s]) = Due(s, sent[s])[Len(received[s]) + 1]
<1> DEFINE n == Taken(s)
           m == sent[s]
           w == m - (m % MessageSize)
           d == Due(s, m)
           a == Supported(SentCells(s, 0, n))
           z == Supported(SentCells(s, n, w))
           r == received[s]
           o == outbox[s]
           b == sendBuffer[s]
           g == Flat(outgoing[s])
           i == Flat(Messages(BufferedFrom(s)))
<1>1. TypeOK /\ Stream /\ Conserved /\ Whole
  BY DEF RefinementInv, PassInv, StreamInv, Inv
<1>2. /\ n \in Nat /\ n <= m /\ m \in Nat /\ m <= MessageSize * Requests[s] /\ n % 2 = 0
  BY <1>1, StreamCells, TwoParts DEF Whole
<1>3. w \in Nat /\ n <= w /\ w <= m
  <2>1. w = m - (m % 2)
    BY TwoParts
  <2> HIDE DEF n, m, w
  <2> QED BY <1>2, <2>1
<1>4. w <= MessageSize * Requests[s]
  <2> DEFINE k == MessageSize * Requests[s]
  <2>1. k \in Nat /\ m <= k
    BY <1>2, NetworkAssumption, PartsType
  <2> HIDE DEF k, w, m
  <2>2. w <= k
    BY <1>2, <1>3, <2>1
  <2> QED BY <2>2 DEF k
<1>5. d = Supported(SentCells(s, 0, w))
  BY DEF Due
<1>6. a = Way(r, o, b, g, i)
  BY <1>1 DEF Conserved, Kept, PeerReceive
<1>7. /\ r \in Seq(Cell) /\ o \in Seq(Cell) /\ b \in Seq(Cell) /\ g \in Seq(Cell)
      /\ i \in Seq(Cell) /\ o # <<>>
  BY <1>1, SideType DEF PeerReceive
<1>8. a \in Seq(Cell) /\ z \in Seq(Cell) /\ Supported(SentCells(s, 0, w)) = a \o z
  <2> HIDE DEF n, w
  <2> QED BY <1>2, <1>3, <1>4, AnswerConcat
<1> HIDE DEF n, m, w, d, a, z, r, o, b, g, i
<1>9. /\ Len(r) \in Nat /\ Len(o) \in Nat /\ Len(o) > 0 /\ Head(o) = o[1]
  BY <1>7, EmptySeq, LenProperties
<1> DEFINE ro == r \o o
           k == Len(r) + 1
           c == o[1]
<1>10. /\ ro \in Seq(Cell) /\ Len(ro) = Len(r) + Len(o)
       /\ \A j \in 1 .. Len(r) + Len(o) : ro[j] = IF j <= Len(r) THEN r[j] ELSE o[j - Len(r)]
  BY <1>7, ConcatProperties
<1>11. CellAt(ro, k, c)
  <2>1. k \in 1 .. Len(r) + Len(o) /\ ~(k <= Len(r)) /\ k - Len(r) = 1
    BY <1>9
  <2> HIDE DEF ro, k
  <2> QED BY <1>10, <2>1 DEF CellAt
<1> HIDE DEF k, c
<1>12. CellAt(((ro \o b) \o g) \o i, k, c)
  <2> HIDE DEF ro
  <2>1. CellAt(ro \o b, k, c)
    BY <1>7, <1>11, PrefixStays, Zenon
  <2>2. CellAt((ro \o b) \o g, k, c)
    BY <1>7, <2>1, PrefixStays, Zenon
  <2> QED BY <1>7, <2>2, PrefixStays, Zenon
<1>13. CellAt(a, k, c)
  BY <1>6, <1>12 DEF Way
<1>14. d = a \o z /\ z \in Seq(Cell)
  BY <1>5, <1>8
<1>15. CellAt(d, k, c)
  BY <1>13, <1>14, PrefixStays, Zenon
<1>16. k \in 1 .. Len(d) /\ d[k] = o[1] /\ Len(d) \in Nat
  BY <1>15, LenProperties DEF CellAt, c
<1> QED BY <1>9, <1>16 DEF k, d, r, o, m

(* While headers come whole, nothing a peer sends is lost, repeated,       *)
(* reordered or sent to another peer.                                      *)
THEOREM CellsConserved == ASSUME ~SplitHeaders PROVE Spec => []Conservation
<1>1. Init => RefinementInv
  BY InitPass, InitConserved DEF RefinementInv
<1>2. RefinementInv /\ [Next]_vars => RefinementInv'
  BY NextPass, NextConserved DEF RefinementInv
<1>3. RefinementInv => Conservation
  BY ImpliesConservation
<1> QED BY <1>1, <1>2, <1>3, PTL DEF Spec

-----------------------------------------------------------------------------
(* The server implements EchoService *)

LEMMA InitEchoes == Init => Service!Init
BY DEF Init, NetworkInit, Service!Init

(* No handler sends or receives in a peer's place. *)
LEMMA HandlerUnseen ==
  ASSUME NEW s \in Socket, HandlerStep(s)
  PROVE  UNCHANGED <<sent, received>>
<1>1. CASE ReadData(s)
  BY <1>1 DEF ReadData, KernelRead
<1>2. CASE WriteData(s)
  BY <1>2 DEF WriteData, KernelWrite
<1>3. CASE ReadCloses(s) \/ ReadStops(s)
  BY <1>3 DEF ReadCloses, ReadStops, network
<1>4. CASE ExtractOne(s) \/ ExtractClears(s) \/ ExtractGarbage(s) \/ ExtractDone(s)
  BY <1>4 DEF ExtractOne, ExtractClears, ExtractGarbage, ExtractDone, network
<1>5. CASE PrintMessage(s) \/ WriteCloses(s) \/ WriteStops(s)
  BY <1>5 DEF PrintMessage, WriteCloses, WriteStops, network
<1> QED BY <1>1, <1>2, <1>3, <1>4, <1>5 DEF HandlerStep

(* What a peer sends is asked, what it receives is an answer. *)
LEMMA PeersEcho ==
  ASSUME ~SplitHeaders, RefinementInv, PeerNext
  PROVE  [Service!Next]_(Service!vars)
<1>1. PICK s \in Socket :
        PeerConnect(s) \/ PeerSend(s) \/ PeerReceive(s) \/ PeerClose(s) \/ PeerReject(s)
  BY DEF PeerNext
<1>2. CASE PeerConnect(s) \/ PeerClose(s) \/ PeerReject(s)
  BY <1>2 DEF PeerConnect, PeerClose, PeerReject, Service!vars
<1>3. CASE PeerSend(s)
  <2>1. Service!Ask(s)
    BY <1>3 DEF PeerSend, Service!Ask
  <2> QED BY <2>1 DEF Service!Next
<1>4. CASE PeerReceive(s)
  <2>1. /\ Len(received[s]) < Len(Due(s, sent[s]))
        /\ Head(outbox[s]) = Due(s, sent[s])[Len(received[s]) + 1]
    BY <1>4, ReceiveAnswers
  <2>2. /\ received' = [received EXCEPT ![s] = Append(received[s], Head(outbox[s]))]
        /\ UNCHANGED sent
    BY <1>4 DEF PeerReceive
  <2>3. Service!Answer(s)
    BY <2>1, <2>2 DEF Service!Answer
  <2> QED BY <2>3 DEF Service!Next
<1> QED BY <1>1, <1>2, <1>3, <1>4

LEMMA NextEchoes ==
  ASSUME ~SplitHeaders, RefinementInv, [Next]_vars
  PROVE  [Service!Next]_(Service!vars)
<1>1. TypeOK
  BY DEF RefinementInv, PassInv, StreamInv, Inv
<1>2. CASE \E s \in Socket : HandlerStep(s)
  BY <1>2, HandlerUnseen DEF Service!vars
<1>3. CASE \E s \in Socket : StartReadable(s) \/ StartWritable(s)
  BY <1>3 DEF StartReadable, StartWritable, CheckNonBlockConnect, network, Service!vars
<1>4. CASE PeerNext
  BY <1>4, PeersEcho
<1>5. CASE ProcessMessage
  BY <1>5 DEF ProcessMessage, network, Service!vars
<1>6. CASE UNCHANGED <<sent, received>>
  BY <1>6 DEF Service!vars
<1> QED BY <1>1, <1>2, <1>3, <1>4, <1>5, <1>6, StepKinds

(* While headers come whole the server is an echo service: whatever the    *)
(* order of its rounds and the sizes of its reads and writes, and whatever *)
(* the peers do, what a peer receives is a prefix of the supported         *)
(* messages it has sent whole.                                             *)
THEOREM ServerEchoes == ASSUME ~SplitHeaders PROVE Spec => EchoSpec
<1>1. Init => RefinementInv /\ Service!Init
  BY InitPass, InitConserved, InitEchoes DEF RefinementInv
<1>2. RefinementInv /\ [Next]_vars => RefinementInv'
  BY NextPass, NextConserved DEF RefinementInv
<1>3. RefinementInv /\ [Next]_vars => [Service!Next]_(Service!vars)
  BY NextEchoes
<1> QED BY <1>1, <1>2, <1>3, PTL DEF Spec, EchoSpec, Service!Spec
=============================================================================
