----------------------------- MODULE BlockBuffer -----------------------------
(***************************************************************************)
(* SocketLib/BlockBuffer: the receive or send buffer of a socket, a chain  *)
(* of fixed-size blocks.  The bytes of a block between pData_ and pSpace_  *)
(* are data, those from pSpace_ on are space.  Data is taken at the first  *)
(* block of the chain, currDataBlock_, and added at currSpaceBlock_, after *)
(* which append() may have written blocks that resizePush() has not        *)
(* claimed yet.                                                            *)
(***************************************************************************)
EXTENDS Integers, SequencesExt

CONSTANTS
  Byte,
  Garbage,      \* what a byte of a new block holds
  BlockSize,
  HeaderSize,   \* bytes of the length field toBytes writes first
  MaxBytes      \* bound on the bytes in the buffer

(* In the code a block has 2^20 bytes and the length field 13. *)
ASSUME BlockAssumption ==
  /\ Garbage \notin Byte
  /\ HeaderSize \in Nat \ {0}
  /\ BlockSize \in Nat /\ BlockSize > HeaderSize
  /\ MaxBytes \in Nat

VARIABLES
  blocks,         \* the blocks from currDataBlock_ on along next_
  currSpace,      \* where currSpaceBlock_ is in that chain
  totalDataSize

vars == <<blocks, currSpace, totalDataSize>>

(* pData_ and pSpace_ as offsets from pBegin_; nullptr is BlockSize + 1. *)
Null == BlockSize + 1
Block == [data : 0 .. Null, space : 0 .. BlockSize,
          bytes : [1 .. BlockSize -> Byte \cup {Garbage}]]

NewBlock ==
  [data |-> Null, space |-> 0, bytes |-> [i \in 1 .. BlockSize |-> Garbage]]

TypeOK ==
  /\ blocks \in Seq(Block) /\ blocks # <<>>
  /\ currSpace \in DOMAIN blocks
  /\ totalDataSize \in 0 .. MaxBytes

Init ==
  /\ blocks = <<NewBlock>>
  /\ currSpace = 1
  /\ totalDataSize = 0

DataSize(b) == IF b.data = Null THEN 0 ELSE b.space - b.data
SpaceSize(b) == BlockSize - b.space
IsEmpty(b) == b.data = Null /\ b.space = 0
IsFull(b) == b.space = BlockSize

ContinuousDataSize == DataSize(Head(blocks))
ContinuousSpaceSize == SpaceSize(blocks[currSpace])

(* The bytes of the buffer, oldest first. *)
DataOf(b) == SubSeq(b.bytes, b.data + 1, b.data + DataSize(b))
Contents == FlattenSeq([i \in DOMAIN blocks |-> DataOf(blocks[i])])

-----------------------------------------------------------------------------
(* resizePush *)

BlockPushAll(b, n) ==      \* mutant: the end of the block forgotten
  [b EXCEPT !.data = IF @ = Null THEN 0 ELSE @, !.space = @ + n]

(* Block::resizePush, which claims what there is room for *)
BlockPush(b, n) ==
  [b EXCEPT !.data = IF @ = Null THEN 0 ELSE @,
            !.space = Min({@ + n, BlockSize})]

ClaimBlock(acc, i) ==
  IF acc.left = 0 THEN acc
  ELSE [blocks |-> [acc.blocks EXCEPT ![i] = BlockPush(@, acc.left)],
        left   |-> acc.left - Min({acc.left, SpaceSize(acc.blocks[i])}),
        space  |-> i]

Claim(chain, n) ==
  LET claimed[i \in currSpace - 1 .. Len(chain)] ==
        IF i = currSpace - 1
        THEN [blocks |-> chain, left |-> n, space |-> currSpace]
        ELSE ClaimBlock(claimed[i - 1], i)
  IN  claimed[Len(chain)]

ResizePushOnly(chain, n) ==      \* mutant: no block is added
  LET acc == Claim(chain, n)
  IN  /\ blocks' = acc.blocks
      /\ currSpace' = acc.space
      /\ totalDataSize' = totalDataSize + n

(* A block that became full is followed by a new one. *)
ResizePush(chain, n) ==
  LET acc == Claim(chain, n)
  IN  /\ IF IsFull(acc.blocks[acc.space])
         THEN /\ blocks' = Append(SubSeq(acc.blocks, 1, acc.space), NewBlock)
              /\ currSpace' = acc.space + 1
         ELSE /\ blocks' = acc.blocks
              /\ currSpace' = acc.space
      /\ totalDataSize' = totalDataSize + n

-----------------------------------------------------------------------------
(* append *)

(* Where in the space the byte at an offset goes: the block, and the place *)
(* in it.                                                                  *)
SpaceUpTo(chain, i) ==
  LET space[j \in currSpace - 1 .. i] ==
        IF j = currSpace - 1 THEN 0 ELSE space[j - 1] + SpaceSize(chain[j])
  IN  space[i]

Locate(chain, offset) ==
  LET i == CHOOSE j \in currSpace .. Len(chain) :
             SpaceUpTo(chain, j - 1) <= offset /\ offset < SpaceUpTo(chain, j)
  IN  [block |-> i, at |-> chain[i].space + offset - SpaceUpTo(chain, i - 1)]

(* What reaches the end of a block goes on in a new block, which is hung   *)
(* behind it in place of whatever was there, also when nothing is left to  *)
(* go on with.                                                             *)
Overwrite(b, data, at) ==
  [b EXCEPT !.bytes = [i \in 1 .. BlockSize |->
                         IF i - at \in DOMAIN data THEN data[i - at] ELSE @[i]]]

AppendAt(chain, data, offset) ==
  LET place == Locate(chain, offset)
      full == (place.at + Len(data)) \div BlockSize
      written == [k \in 1 .. full + 1 |->
                    Overwrite(IF k = 1 THEN chain[place.block] ELSE NewBlock,
                              data, place.at - (k - 1) * BlockSize)]
  IN  SubSeq(chain, 1, place.block - 1) \o written
        \o (IF full = 0 THEN SubSeq(chain, place.block + 1, Len(chain)) ELSE <<>>)

-----------------------------------------------------------------------------
(* resizePop *)

(* Block::resizePop: a block whose data is used up starts over. *)
BlockPop(b, n) ==
  IF DataSize(b) > n
  THEN [b EXCEPT !.data = @ + n]
  ELSE [b EXCEPT !.data = Null, !.space = 0]

(* currDataBlock_ moves on, and currSpaceBlock_ with it if it was there. *)
NextBlock(acc) ==
  [acc EXCEPT !.blocks = Tail(@), !.space = IF @ = 1 THEN 1 ELSE @ - 1]

ReleaseBlock(acc) ==
  IF acc.left = 0 THEN acc
  ELSE LET taken == Min({acc.left, DataSize(Head(acc.blocks))})
           popped == [blocks |-> [acc.blocks EXCEPT ![1] = BlockPop(@, acc.left)],
                      left |-> acc.left - taken, space |-> acc.space]
       IN  IF popped.left > 0 THEN NextBlock(popped) ELSE popped

Release(n) ==
  LET released[i \in 0 .. Len(blocks)] ==
        IF i = 0 THEN [blocks |-> blocks, left |-> n, space |-> currSpace]
        ELSE ReleaseBlock(released[i - 1])
  IN  released[Len(blocks)]

ResizePopOnly(n) ==      \* mutant: an emptied first block stays first
  LET acc == Release(n)
  IN  /\ blocks' = acc.blocks
      /\ currSpace' = acc.space
      /\ totalDataSize' = totalDataSize - n

ResizePop(n) ==
  LET acc == Release(n)
      end == IF IsEmpty(Head(acc.blocks)) /\ Len(acc.blocks) > 1
             THEN NextBlock(acc) ELSE acc
  IN  /\ blocks' = end.blocks
      /\ currSpace' = end.space
      /\ totalDataSize' = totalDataSize - n

-----------------------------------------------------------------------------
(* The operations, as the sockets and the messages use them *)

(* read() puts bytes into the space of currSpaceBlock_. *)
Receive(data) ==
  /\ Len(data) \in 1 .. ContinuousSpaceSize
  /\ totalDataSize + Len(data) <= MaxBytes
  /\ ResizePush([blocks EXCEPT ![currSpace] = Overwrite(@, data, @.space)],
                Len(data))

ToBytesOverlapping(header, fields) ==      \* mutant: an offset not moved on
  /\ totalDataSize = 0
  /\ Len(header) = HeaderSize
  /\ HeaderSize + Len(fields[1]) + Len(fields[2]) <= MaxBytes
  /\ LET placed  == AppendAt(blocks, [i \in 1 .. HeaderSize |-> Garbage], 0)
         first   == AppendAt(placed, fields[1], HeaderSize)
         second  == AppendAt(first, fields[2], HeaderSize)
     IN  ResizePush(AppendAt(second, header, 0),
                    HeaderSize + Len(fields[1]) + Len(fields[2]))

(* MessageBase::toBytes, on an empty send buffer: a length field to be       *)
(* replaced, the fields of the message one behind the other, and then the   *)
(* length field again, with the length.                                     *)
ToBytes(header, fields) ==
  /\ totalDataSize = 0
  /\ Len(header) = HeaderSize
  /\ HeaderSize + Len(fields[1]) + Len(fields[2]) <= MaxBytes
  /\ LET placed  == AppendAt(blocks, [i \in 1 .. HeaderSize |-> Garbage], 0)
         first   == AppendAt(placed, fields[1], HeaderSize)
         second  == AppendAt(first, fields[2], HeaderSize + Len(fields[1]))
     IN  ResizePush(AppendAt(second, header, 0),
                    HeaderSize + Len(fields[1]) + Len(fields[2]))

(* What write() sent, or a message that was parsed. *)
Consume(n) == n \in 1 .. totalDataSize /\ ResizePop(n)

ClearDataOnly ==      \* mutant: totalDataSize_ not reset
  /\ totalDataSize > 0
  /\ blocks' = <<NewBlock>>
  /\ currSpace' = 1
  /\ UNCHANGED totalDataSize

ClearAll ==
  /\ totalDataSize > 0
  /\ blocks' = <<NewBlock>>
  /\ currSpace' = 1
  /\ totalDataSize' = 0

Strings(lengths) == UNION {[1 .. n -> Byte] : n \in lengths}

Next ==
  \/ \E data \in Strings(1 .. BlockSize) : Receive(data)
  \/ \E header \in Strings({HeaderSize}),
        field1 \in Strings(1 .. MaxBytes - HeaderSize),
        field2 \in Strings(1 .. MaxBytes - HeaderSize) :
          ToBytes(header, <<field1, field2>>)
  \/ \E n \in 1 .. MaxBytes : Consume(n)
  \/ ClearAll

Spec == Init /\ [][Next]_vars

-----------------------------------------------------------------------------
(* getdata *)

CopyKeepingOffset(acc, b) ==      \* mutant: offset used in every block
  IF acc.left = 0 THEN acc
  ELSE LET n == IF DataSize(b) > acc.left + acc.offset
                THEN acc.left ELSE DataSize(b) - acc.offset
       IN  [text |-> acc.text \o SubSeq(DataOf(b), acc.offset + 1, acc.offset + n),
            left |-> acc.left - n, offset |-> acc.offset,
            valid |-> acc.valid /\ acc.offset <= DataSize(b)]

(* One turn of the loop.  DataSize - offset is unsigned: were it negative,  *)
(* memcpy would run over everything, and nothing is valid from there on.    *)
Copy(acc, b) ==
  IF acc.left = 0 THEN acc
  ELSE LET n == IF DataSize(b) > acc.left + acc.offset
                THEN acc.left ELSE DataSize(b) - acc.offset
       IN  [text |-> acc.text \o SubSeq(DataOf(b), acc.offset + 1, acc.offset + n),
            left |-> acc.left - n, offset |-> 0,
            valid |-> acc.valid /\ acc.offset <= DataSize(b)]

GetData(count, offset) ==
  LET copied[i \in 0 .. Len(blocks)] ==
        IF i = 0
        THEN [text |-> <<>>, left |-> count, offset |-> offset, valid |-> TRUE]
        ELSE Copy(copied[i - 1], blocks[i])
  IN  copied[Len(blocks)]

ScanKeepingOffset(acc, b) ==      \* mutant: offset used in every block
  IF acc.found THEN acc
  ELSE LET rest == SubSeq(DataOf(b), acc.offset + 1, DataSize(b))
           upTo == SelectInSeq(rest, LAMBDA byte : byte = acc.delim)
       IN  [acc EXCEPT !.text = @ \o (IF upTo = 0 THEN rest ELSE SubSeq(rest, 1, upTo - 1)),
                       !.found = upTo > 0]

(* Block::getline runs from the offset to the delimiter or to the end of    *)
(* the data; one that starts at that end or beyond it never meets pSpace_. *)
Scan(acc, b) ==
  IF acc.found THEN acc
  ELSE IF IsEmpty(b) THEN [acc EXCEPT !.offset = 0]
  ELSE LET rest == SubSeq(DataOf(b), acc.offset + 1, DataSize(b))
           upTo == SelectInSeq(rest, LAMBDA byte : byte = acc.delim)
       IN  [acc EXCEPT !.text = @ \o (IF upTo = 0 THEN rest ELSE SubSeq(rest, 1, upTo - 1)),
                       !.found = upTo > 0,
                       !.offset = 0,
                       !.valid = @ /\ acc.offset < DataSize(b)]

GetLine(delim, offset) ==
  LET scanned[i \in 0 .. Len(blocks)] ==
        IF i = 0
        THEN [text |-> <<>>, delim |-> delim, offset |-> offset,
              found |-> FALSE, valid |-> TRUE]
        ELSE Scan(scanned[i - 1], blocks[i])
  IN  scanned[Len(blocks)]

Reads(count, offset) ==
  LET result == GetData(count, offset)
  IN  /\ result.valid
      /\ result.text = SubSeq(Contents, offset + 1, offset + count)

-----------------------------------------------------------------------------
(* read() is never given an empty space: it would return 0, which the      *)
(* caller takes for end of file, and close a live connection.              *)
ReadHasRoom == ContinuousSpaceSize > 0

(* As long as bytes are left the first block has some: otherwise the       *)
(* writable handler stops without sending while hasBytesToSend() stays     *)
(* true, and the select loop turns forever.                                *)
DataReachable == totalDataSize > 0 => ContinuousDataSize > 0

(* The size the handlers decide by is that of the bytes in the blocks.     *)
TotalAgrees == totalDataSize = Len(Contents)

(* A field that begins in the first block is read as it was written,       *)
(* however many blocks it runs through.                                    *)
FieldsReadable ==
  \A offset \in 0 .. ContinuousDataSize :
    \A count \in 1 .. totalDataSize - offset : Reads(count, offset)

(* A line that begins in the first block ends at the first delimiter of    *)
(* the bytes behind it, in whatever block that is, and is found only then. *)
LinesReadable ==
  \A delim \in Byte, offset \in 0 .. (ContinuousDataSize - 1) :
    LET line == GetLine(delim, offset)
        rest == SubSeq(Contents, offset + 1, totalDataSize)
    IN  /\ line.valid
        /\ line.found <=> delim \in ToSet(rest)
        /\ line.found => rest = line.text \o <<delim>>
                                \o SubSeq(rest, Len(line.text) + 2, Len(rest))
        /\ delim \notin ToSet(line.text)

Queue == INSTANCE ByteQueue WITH bytes <- Contents

(* A BlockBuffer is a queue of bytes: growing, recycling and skipping      *)
(* blocks neither loses nor repeats nor reorders a byte, and the length    *)
(* field that toBytes writes last leaves the fields behind it alone.       *)
QueueSpec == Queue!Spec
=============================================================================
