------------------------------- MODULE Framing -------------------------------
(***************************************************************************)
(* SocketLib/MessageBase, MessageEcho and MessageTest: messages to bytes   *)
(* and back, from the sendBuffer_ of one socket to the recvBuffer_ of      *)
(* another, both of them BlockBuffers.                                     *)
(*                                                                         *)
(* A field is "length|data".  A message is the field of its length, whose  *)
(* data is padded to a fixed size, the field of its type and the field of  *)
(* its content.  Reads and writes stop anywhere, and nothing but the       *)
(* length fields tells where a message ends.                               *)
(***************************************************************************)
EXTENDS Integers, SequencesExt, SeqFilter

CONSTANTS
  Exchanges,      \* sequences of messages to send, one of them is sent
  NumDigits,      \* digits of the length of a message: 10 in the code
  LengthModulus,  \* 2 ^ 32, one more than the greatest unsigned int
  TestSize,       \* bytes print_ of a MessageTest sends: 100 MiB in the code
  BlockSize,
  MaxBytes

(* Bytes, as far as the parser tells them apart. *)
Digit == 0 .. 9
Bar == 10
Other == 11     \* any other byte of a content
Garbage == 12   \* what a new block holds
Byte == Digit \cup {Bar, Other}

TEcho == 1
TTest == 2
Message == [type : Digit, content : Seq(Byte)]

VARIABLES
  toSend,      \* messages not yet printed
  printed,     \* messages that were, in order
  sendBlocks, sendSpace, sendSize,
  wire,        \* bytes written and not read
  recvBlocks, recvSpace, recvSize,
  delivered,   \* messages parsed, in order
  phase,       \* of handleSelectReadable: its reads, or its extract loop
  cleared      \* whether recvBuffer_ was ever cleared (history)

sender == <<toSend, printed, sendBlocks, sendSpace, sendSize>>
recvBuffer == <<recvBlocks, recvSpace, recvSize>>
vars == <<sender, wire, recvBuffer, delivered, phase, cleared>>

-----------------------------------------------------------------------------
(* toBytes *)

Decimal(n) ==
  LET digits[k \in 0 .. n] ==
        IF k < 10 THEN <<k>> ELSE Append(digits[k \div 10], k % 10)
  IN  digits[n]

Pad(n) == [i \in 1 .. NumDigits - Len(Decimal(n)) |-> 0] \o Decimal(n)

(* printT_ *)
Field(data) == Decimal(Len(data)) \o <<Bar>> \o data

HeaderSize == Len(Field(Pad(0)))

ContentCut(m) ==      \* mutant: the data of a MessageTest sent as far as a bar
  IF m.type = TTest /\ Bar \in ToSet(m.content)
  THEN SubSeq(m.content, 1, SelectInSeq(m.content, LAMBDA byte : byte = Bar) - 1)
  ELSE m.content

(* print_ of a MessageTest sends TestSize bytes from data_, whatever there *)
(* is.                                                                     *)
Content(m) ==
  IF m.type = TTest THEN SubSeq(m.content, 1, TestSize) ELSE m.content

Fields(m) == << Field(<<m.type>>), Field(Content(m)) >>
BodySize(m) == Len(Fields(m)[1]) + Len(Fields(m)[2])

(* What toBytes writes of a message, and of several. *)
Bytes(m) == Field(Pad(BodySize(m))) \o (Fields(m)[1] \o Fields(m)[2])
Text(msgs) == FlattenSeq([i \in DOMAIN msgs |-> Bytes(msgs[i])])
SizeOf(msgs) == Len(Text(msgs))

(* What the programs give to toBytes: a message whose length has the       *)
(* digits there are for it and is an unsigned int, and a MessageTest with   *)
(* as much data as print_ sends.                                           *)
Sendable ==
  {m \in Message : /\ Len(Decimal(BodySize(m))) <= NumDigits
                   /\ Len(Bytes(m)) < LengthModulus
                   /\ m.type = TTest => Len(m.content) = TestSize}

ASSUME FramingAssumption ==
  /\ Exchanges \subseteq Seq(Sendable)
  /\ NumDigits \in Nat \ {0} /\ NumDigits < LengthModulus
  /\ LengthModulus \in Nat
  /\ TestSize \in Nat \ {0}
  /\ BlockSize \in Nat /\ BlockSize > HeaderSize
  /\ MaxBytes \in Nat

S == INSTANCE BlockBuffer WITH
       blocks <- sendBlocks, currSpace <- sendSpace, totalDataSize <- sendSize
R == INSTANCE BlockBuffer WITH
       blocks <- recvBlocks, currSpace <- recvSpace, totalDataSize <- recvSize

TypeOK ==
  /\ toSend \in Seq(Message)
  /\ printed \in Seq(Message)
  /\ S!TypeOK
  /\ wire \in Seq(Byte)
  /\ R!TypeOK
  /\ delivered \in Seq(Message)
  /\ phase \in {"read", "extract", "undefined"}
  /\ cleared \in BOOLEAN

Init ==
  /\ toSend \in Exchanges
  /\ printed = <<>>
  /\ S!Init
  /\ wire = <<>>
  /\ R!Init
  /\ delivered = <<>>
  /\ phase = "read"
  /\ cleared = FALSE

(* handleSelectWritable prints a message when sendBuffer_ is empty. *)
PrintMessage ==
  /\ toSend # <<>>
  /\ LET m == Head(toSend)
     IN  S!ToBytes(Field(Pad(BodySize(m))), Fields(m))
  /\ toSend' = Tail(toSend)
  /\ printed' = Append(printed, Head(toSend))
  /\ UNCHANGED <<wire, recvBuffer, delivered, phase, cleared>>

Write ==
  /\ \E k \in 1 .. S!ContinuousDataSize :
       /\ wire' = wire \o SubSeq(S!Contents, 1, k)
       /\ S!Consume(k)
  /\ UNCHANGED <<toSend, printed, recvBuffer, delivered, phase, cleared>>

-----------------------------------------------------------------------------
(* handleSelectReadable *)

Read ==
  /\ phase = "read"
  /\ \E k \in 1 .. Len(wire) :
       /\ R!Receive(SubSeq(wire, 1, k))
       /\ wire' = SubSeq(wire, k + 1, Len(wire))
  /\ UNCHANGED <<sender, delivered, phase, cleared>>

(* How many bytes have been read since the last message began. *)
Arrived == SizeOf(printed) - sendSize - Len(wire)
WithinMessage ==
  Arrived - Max({n \in {SizeOf(SubSeq(printed, 1, i)) : i \in 0 .. Len(printed)} :
                   n <= Arrived})

ReadEnds ==
  /\ phase = "read"
  /\ recvSize > 0
  /\ phase' = "extract"
  /\ UNCHANGED <<sender, wire, recvBuffer, delivered, cleared>>

-----------------------------------------------------------------------------
(* fromBytes *)

(* stoul: the leading digits.  It throws when there are none, and when      *)
(* their number is greater than an unsigned long; what it returns is cut    *)
(* to an unsigned int.                                                     *)
LeadingDigits(text) ==
  SubSeq(text, 1, Max({n \in 0 .. Len(text) : ToSet(SubSeq(text, 1, n)) \subseteq Digit}))

Value(digits) ==
  LET value[i \in 0 .. Len(digits)] ==
        IF i = 0 THEN 0 ELSE 10 * value[i - 1] + digits[i]
  IN  value[Len(digits)]

IsNumber(text) ==
  /\ LeadingDigits(text) # <<>>
  /\ Value(LeadingDigits(text)) < LengthModulus * LengthModulus

Number(text) == Value(LeadingDigits(text)) % LengthModulus

(* getDataField_ and parseT_<char>: the field at an offset.  outcome says  *)
(* whether it is there, and next is the offset behind it.                  *)
DataField(offset) ==
  LET line == R!GetLine(Bar, offset)
      count == Number(line.text)
      start == offset + Len(line.text) + 1
      data == R!GetData(count, start)
  IN  [length |-> count, text |-> data.text, next |-> start + count,
       outcome |-> CASE ~line.valid -> "undefined"
                     [] line.valid /\ ~(line.found /\ IsNumber(line.text)) -> "missing"
                     [] OTHER -> IF ~data.valid THEN "undefined"
                                 ELSE IF data.left > 0 THEN "missing" ELSE "there"]

Length == DataField(0)
HasLength == Length.outcome = "there" /\ IsNumber(Length.text)

LengthFailsAtEnd ==      \* mutant: also when nothing has come behind it
  Length.outcome # "undefined" /\ ~(HasLength /\ Length.next < recvSize)

LengthFails == ~HasLength /\ Length.outcome # "undefined"

(* "2|12abcdefghijkl": the length field with its own length, and the body. *)
MsgLenWithoutBar ==      \* mutant: the '|' of the length field not counted
  (Len(Decimal(Len(Length.text))) + Len(Length.text) + Number(Length.text))
    % LengthModulus

MsgLen ==
  (Len(Decimal(Len(Length.text))) + 1 + Len(Length.text) + Number(Length.text))
    % LengthModulus

HasTooLittle == HasLength      \* mutant: the body is not waited for
HasMoreThanMessage == HasLength /\ recvSize > MsgLen      \* mutant: off by one
HasMessage == HasLength /\ recvSize >= MsgLen

Type == DataField(Length.next)
HasType == Type.outcome = "there" /\ IsNumber(Type.text)

(* stoi: as stoul, but nothing is cut off. *)
TypeNumber == Value(LeadingDigits(Type.text))
IsKnown == HasType /\ TypeNumber \in {TEcho, TTest}

(* parse_ of a MessageEcho, and of a MessageTest, which has some data. *)
Parsed == DataField(Type.next)
HasContent ==
  /\ IsKnown
  /\ Parsed.outcome = "there"
  /\ TypeNumber = TTest => Parsed.length > 0

(* fromBytes looks for the type only in a message that is whole, and for   *)
(* the content only in one of a known type.                                *)
IsUndefined ==
  \/ Length.outcome = "undefined"
  \/ HasMessage /\ Type.outcome = "undefined"
  \/ HasMessage /\ IsKnown /\ Parsed.outcome = "undefined"

Extracting == phase = "extract" /\ UNCHANGED <<sender, wire>>

(* A length field that cannot be read clears the buffer. *)
ExtractClears ==
  /\ Extracting
  /\ recvSize > 0
  /\ LengthFails
  /\ R!ClearAll
  /\ cleared' = TRUE
  /\ UNCHANGED <<delivered, phase>>

(* A message of an unknown type or that cannot be parsed is skipped. *)
ExtractSkips ==
  /\ Extracting
  /\ recvSize > 0
  /\ HasMessage /\ ~HasContent /\ ~IsUndefined
  /\ \E n \in {MsgLen} : R!ResizePop(n)
  /\ UNCHANGED <<delivered, phase, cleared>>

ExtractDelivers ==
  /\ Extracting
  /\ recvSize > 0
  /\ HasMessage /\ HasContent
  /\ \E n \in {MsgLen} : R!ResizePop(n)
  /\ delivered' = Append(delivered, [type |-> TypeNumber, content |-> Parsed.text])
  /\ phase' = IF MsgLen = 0 THEN "read" ELSE "extract"
  /\ UNCHANGED cleared

(* Nothing left, or a partial message. *)
ExtractEnds ==
  /\ Extracting
  /\ recvSize > 0 => HasLength /\ ~HasMessage
  /\ phase' = "read"
  /\ UNCHANGED <<recvBuffer, delivered, cleared>>

(* A read beyond the data of a block: nothing can be said any more. *)
ExtractUndefined ==
  /\ Extracting
  /\ recvSize > 0
  /\ IsUndefined
  /\ phase' = "undefined"
  /\ UNCHANGED <<recvBuffer, delivered, cleared>>

Next ==
  \/ PrintMessage \/ Write \/ Read \/ ReadEnds
  \/ ExtractClears \/ ExtractSkips \/ ExtractDelivers \/ ExtractEnds
  \/ ExtractUndefined

Spec == Init /\ [][Next]_vars

-----------------------------------------------------------------------------
Supported(msgs) == Filter(msgs, {m \in Message : m.type \in {TEcho, TTest}})

(* What is parsed is what was printed, in order, with nothing made up or   *)
(* left out, and recvBuffer_ begins where the next message does: a content *)
(* that holds bars, digits or a whole length field, an empty one, a        *)
(* message of an unknown type, and reads and blocks that end anywhere do   *)
(* not put the two ends out of step, unless the buffer was cleared.        *)
InStep ==
  ~cleared => \E i \in 0 .. Len(printed) :
    /\ Arrived - recvSize = SizeOf(SubSeq(printed, 1, i))
    /\ delivered = Supported(SubSeq(printed, 1, i))

(* A MessageTest that was delivered can be printed in reply: print_ takes  *)
(* TestSize bytes from data_, and parse_ allocated as many as arrived.      *)
(* Out of step anything may be taken for a MessageTest.                    *)
Printable ==
  ~cleared => \A i \in DOMAIN delivered :
    delivered[i].type = TTest => Len(delivered[i].content) >= TestSize

(* The extract loop ends only with a part of a message in recvBuffer_: one *)
(* that is whole is never left for a read that may not come.               *)
NoneLeft ==
  [][ phase = "extract" /\ phase' = "read" /\ ~cleared
        => recvSize = WithinMessage ]_vars

(* fromBytes clears recvBuffer_ only while a part of a length field is all   *)
(* that is in it: nothing is lost of a message whose length has come.      *)
OnlyHeaderCleared ==
  [][ ~cleared /\ cleared' => recvSize < HeaderSize ]_vars

(* A read beyond the data of a block takes data in two of them: what lies   *)
(* in one block is parsed, however much of it has come.                    *)
OneBlockDefined ==
  [][ ~cleared /\ phase # "undefined" /\ phase' = "undefined"
        => R!ContinuousDataSize < recvSize ]_vars

(* "see if buffer hold a whole message (length)" and "partial message.":   *)
(* a message is waited for wherever the bytes that have come end.          *)
PartialIsKept == ~cleared

(* "Dynamic container using blocks of array as buffer": where the blocks   *)
(* end makes no difference to the parser.                                  *)
BlocksUnseen == phase # "undefined"
=============================================================================
