# Formal models of photona

photona is a socket library (`src/src/SocketLib`) with an echo server
(`src/src/Server`) and a client (`src/src/Client`).  This directory holds TLA+
modules that model it, TLC configurations that check them, and proofs that
TLAPS checks.  `PROJECT.json` lists the runs, the mutants that show each
property can fail, the lines each definition stands for, and the theorems.

    tlc -workers 2 -config MessageBuffer.cfg MCMessageBuffer.tla
    tlapm MessageBuffer_proofs.tla

Paths below are relative to `src/src/`.

## 1. Inventory

One thread runs each program: a loop around `select()`.  There are no locks.
What makes the code hard is that peers act between any two system calls, that
`select()`'s answer is used after other handlers ran, that reads and writes
stop in the middle of a message, and that one thread is at both ends of a pipe.

| Component | State | Operations | Called by | Correct when |
|---|---|---|---|---|
| `MessageBuffer` (singleton) | `queueIn_`, `queueOut_`, two maps from socket to *iterators* into them, a pipe | queue / pop a message to send, extract a message (push, write a byte into the pipe, undo on failure), pop the first incoming one | `TCPSocket`, message centers | indices and lists agree, no iterator dangles, one pipe byte per message, first-in first-out per socket |
| `TCPSocket` | `fd_`, `isConnected_`, `recvBuffer_`, `sendBuffer_`, remote address | readable handler, writable handler, `checkNonBlockConnect_`, `connectTo` | the loops | nothing lost, repeated or mixed whatever the cuts; limits respected; closed on end of file and errors |
| `SocketServer` + `FDSelector` | registered sockets, the two sets found ready | round: `select()`, writable handlers, readable handlers, accept, removal | `Server/main` | every live socket is served, every dead one is dropped, no round blocks |
| `ListenerTCPSocket` | listening fd | `bindAndListen`, accept | `SocketServer` | a failing accept does not stop the others |
| `ServerMessageCenter` / `MessageCenter` | read end of the pipe | one byte, one message, echo it | `SocketServer` | called only when a message is there |
| `UDPSocket` + `UDPMessageBuffer` | UDP fd, queues nothing fills | readable handler (reads a datagram) | `SocketServer` | datagrams are read |
| `BlockBuffer` | chain of 1 MiB blocks, data and space positions, total size | `resizePush`, `append`, `resizePop`, `clearAll`, `getdata`, `getline` | sockets, messages | a byte queue, wherever blocks end |
| Framing: `MessageBase`, `MessageEcho`, `MessageTest` | none | `toBytes`, `fromBytes`, field parser | `MessageBuffer`, `TCPSocket` | whole messages only, a partial one waits |
| `SocketClient` + `ClientMessageCenter` + `Client/main` | `pSockets_`, the selector, `finishedSocketIDs_` | connect a batch of sockets, queue a message on each, `run()`: the loop, the first reply on a socket finishes it; then the next batch | user | a live connection is given up for its own reply only; `run()` returns when every socket was answered or has failed |
| `Logger` | file, level | init, log, fatal | all | out of the protocol |
| `Server/main`, `SocketID` | constants | argument parsing | – | – |

How they interact in the server:

    peers <-> kernel <-> TCPSocket.recvBuffer_ -> fromBytes -> MessageBuffer
                                                              (queueIn_, pipe)
                                                                    |
                                                 select() <- pipe   v
    peers <-> kernel <- TCPSocket.sendBuffer_ <- toBytes <- MessageBuffer <- ServerMessageCenter
                                                           (queueOut_)

In the client the same sockets and the same `MessageBuffer` stand between the
server and `ClientMessageCenter`; `main` fills `queueOut_` before each `run()`.

The hard behaviours, each at its line, are the `hazards` of `PROJECT.json`.

## 2. Modules

| Module | Stands for | State ↔ code |
|---|---|---|
| `MessageQueues` | what `MessageBuffer` promises | plain queues |
| `MessageBuffer` | `MessageBuffer.cpp` | `nodes` maps the addresses of list nodes in use to their contents; `queueIn`, `queueOut` are the lists as sequences of addresses; the two indices map sockets to sequences of addresses; `pipe` counts bytes |
| `ByteQueue` | what `BlockBuffer` promises | the bytes |
| `BlockBuffer` | `BlockBuffer.cpp`, `MessageBase::toBytes` over it | `blocks` is the chain from `currDataBlock_`, each with `pData_` and `pSpace_` as offsets; `currSpace` is the position of `currSpaceBlock_`; `GetData` and `GetLine` also say when the code reads beyond a block |
| `Framing` | `toBytes`, `fromBytes`, the field parser, both message types | two instances of `BlockBuffer`, the `sendBuffer_` of one socket (`S`) and the `recvBuffer_` of another (`R`); `wire` between them; `phase` is where the readable handler is |
| `EchoService` | what the server promises its peers, and the client relies on | for each connection, how much was asked and what was answered |
| `Network` | kernel and peers (external) | one connection per socket; cells in flight each way |
| `TCPSocket` | both handlers, `fromBytes` by its outcomes | `call` is the handler in progress, its loop and its count, so that peers act between its system calls |
| `SocketServer` | `SocketServer::run`, `FDSelector`, `ListenerTCPSocket`, `ServerMessageCenter`, the UDP port | `pc` is the phase of the round, `readyTo…Sockets` what `select()` found and was not handled yet |
| `SocketClient` | `Client/main`, `connectTo`, `SocketClient::run`, `FDSelector`, `ClientMessageCenter` | as in the server; `batch` and `connecting` are where `main` is |
| `SeqFilter` | the part of a sequence that lies in a set, as a recursive function that can be proved about | none |
| `MC…` | instances for TLC | |
| `SequenceLemmas` | lemmas about parts of sequences, filters and texts, on which the proofs rest | none |
| `MessageBuffer_proofs`, `BlockBuffer_proofs`, `Framing_proofs`, `TCPSocket_proofs`, `SocketServer_proofs`, `SocketServer_refinement`, `SocketClient_proofs` | proofs (section 5) | |

How they are put together:

- `SocketServer` and `SocketClient` extend `TCPSocket`, which extends `Network`.
- `TCPSocket` uses `MessageQueues` where the code uses `MessageBuffer`; `MessageBuffer`
  is shown to implement it, by TLC and by TLAPS (section 5).  The bytes of the pipe
  are therefore the number of incoming messages (theorem `PipeCounts`).
- The `recvBuffer` and `sendBuffer` of `TCPSocket` are queues of cells, which is what
  `BlockBuffer` is checked and proved to be (`IsQueue`, `OperationsAreExact`); what
  `fromBytes` does with them cell by cell is what `Framing` checks, and `Framing_proofs`
  proves, byte by byte, over `BlockBuffer` itself.
- The client and the server meet in `EchoService`: `SocketServer` is checked and proved to
  implement it (`EchoSpec`, `ServerEchoes`), and the other end of each of the client's
  connections is an `EchoService` (`ServerAnswers`) that may also refuse, close or reset.

### Abstractions

- A message is a few *cells* (`head`, `body`; with `SplitHeaders` also `len`, a
  length field that is cut).  `BlockSize`, `MaxBytesPerReadWrite` and
  `MaxNumberBytesInBuffer` count cells in `TCPSocket`.
- The content of what peers send is well formed and does not itself contain a
  framed message.  An unknown type (`Unsupported`) is skipped as the code does.
- Out of step, the parser may drop any prefix, or wait (`ExtractGarbage`,
  `ExtractDone`): which of these depends on bytes the model does not have.
- In `TCPSocket` the fields of a message begin in the first block of the receive
  buffer.  `Framing` has the blocks; once a field begins elsewhere the code's reads are
  undefined, and `Framing` stops there (`ExtractUndefined`, the run `framing_blocks`).
- `Framing` takes messages of one sender in one direction, without end of file or
  errors: these leave what has been received as it is.  A byte is a digit, a bar or
  something else.  A number is its leading digits: `stoul` throws when there are none or
  when they exceed an `unsigned long`, and its result is cut to an `unsigned int`
  (`IsNumber`, `Number`).  For TLC a length has two digits and wraps at 21, where it has
  ten and wraps at 2^32, and the data of a `MessageTest` is 4 bytes for 100 MiB; the
  proofs take any values.
- What is given to `toBytes` is `Sendable`: its length fits the digits there are for it
  and an `unsigned int`, and a `MessageTest` has the data that `print_` sends.  The
  sender of the code builds no other.
- `toBytes` and `print_` do not run out of memory, and print messages that a program
  built or parsed.
- A message of the client gets one reply.  What happens to a connection the client has
  closed is not followed.
- `select()` does not fail (EINTR, EBADF); descriptors have no numbers, so
  `FD_SETSIZE` is absent.  `FD_ISSET(-1, …)` is undefined behaviour and modelled as
  either answer (`Select`, over `Closed`).
- A connection is used once: a socket's descriptor is not reused by another.
  Handlers read nothing that depends on the number.
- `UDPMessageBuffer` is the state it can be in: nothing ever fills its queues.

## 3. Runs

The instances of `MessageBuffer` and `SocketServer` take two sockets: the shared queues,
the shared pipe and the order of handlers in a round need a second one, and the code
treats all sockets alike.

| Run | Shows | Bounds and why they are enough |
|---|---|---|
| `message_buffer` | types, pipe count, node ownership, both indices, no empty send list, implements `MessageQueues` | 2 sockets, 2 messages, 4 nodes alive at once, pipe of 3: two messages per socket in either list, addresses reused, pipe full before the nodes run out; the theorems have no bounds |
| `block_buffer` | byte queue, room for `read()`, data for `write()`, fields and lines readable | blocks of 3, a length field of 2, at most 8 bytes of two kinds: a message over three blocks, every position of a block boundary and of a delimiter in a field; the theorems have no bounds |
| `framing` | `InStep`: what is parsed is what was printed, in order, and the buffer begins where the next message does; `NoneLeft`: no whole message is left to wait for a read; `Printable`: a `MessageTest` that was parsed can be printed; `OnlyHeaderCleared`: what is cleared is less than a length field; `OneBlockDefined`: a read is undefined only in data that takes two blocks | exchanges of two to four messages, chosen for contents that look like something else: a whole length field, bars, digits, nothing, an unknown type, a message of the greatest length; blocks of 9, shorter than most messages, so that each straddles two or three; every cut by a write or a read |
| `server_safety` | `Conservation`, `BufferBound`, `CenterFindsMessage`, `OpenIsServed`, `NeverBlocksOnPipe`, implements `EchoService` | 4 messages from one peer (the second of an unknown type) and one from the other, a limit of one message, passes of two cells in reads of one, a pipe of 2 bytes (`MCPipeCapacity`, what both sockets may buffer) for 4 supported messages: reading is held back, kernel room runs out, reads and writes end in the middle of a message |
| `server_answers` | `Answered` | 2 + 1 messages, passes of one message, limits of one |
| `server_closes` | `ClosesAfterPeer`: also with cut length fields and a stream out of step, while accept fails, and while a datagram keeps `select()` from blocking | one peer with 2 messages of 3 cells and one that only connects, 1 descriptor, 1 datagram |
| `client` | `OwnReplyFinishes`, `UnansweredFailed`, `Ends` | the batches of `main` scaled down, one socket and then two with the same `SocketClient`, one message each; two cells a pass, limits that hold reading back; a server that answers, refuses, closes or resets at any point |

The properties of `Framing` are said of a buffer that was never cleared, because
`framing_split` shows when it is cleared for no fault of the sender; what comes after
that is read out of step, and anything may be taken for a message.  `OnlyHeaderCleared`
and `OneBlockDefined` say that the two disagreements of the parser below are no wider
than they seem: a message whose length has come is never cleared, and data that lies in
one block is always parsed.

`NeverBlocksOnPipe` holds when the pipe has a byte for every message the sockets
may buffer at once; `BufferBound` says how many these are, at most
`MaxNumberMessagesInBuffer - 1` and those of one pass of reads for each socket
(theorems `PipeNeverFull` and `BoundedBuffers`, for any number of peers).  The
constants of the code do not meet the condition (a pass is 10 MiB, a Linux pipe
65536 bytes); `server_pipe_full` shows what follows.

`CHECK_DEADLOCK FALSE` is given where the system may stop: the message buffer of
`MessageBuffer.cfg` with its pipe full and its nodes used, and the server when
all peers are done (`select()` blocks) or the process was killed; likewise the client
when it has exited, and `Framing` when all is delivered or a read was undefined.

### Disagreements (runs that TLC refutes)

| Run | Source | What TLC finds |
|---|---|---|
| `server_read_end` | `SocketLib/TCPSocket.cpp:100` | data and end of file in one pass: the socket is closed but not removed |
| `server_udp` | `SocketLib/UDPSocket.cpp:37` | the test is reversed: no datagram is ever read |
| `server_pipe_full` | `SocketLib/MessageBuffer.cpp:107` | the thread blocks on the pipe it should empty |
| `framing_split` | `SocketLib/MessageBase.cpp:31` | a length field that is cut where a pass of reads ends is thrown away |
| `framing_blocks` | `SocketLib/BlockBuffer.cpp:110` | a field that begins beyond the first block is not read |

### Observations without a run of their own

- `SocketLib/TCPSocket.cpp:143`: a write error returns the bytes sent before it, at
  least 0, so "because write error" in either loop is never reached (`WriteCloses`).  A
  later read of the closed socket removes it, if `FD_ISSET(-1, …)` reports it.
- In the client such a socket, or one closed at end of file with data in the same
  pass, can be the only one left: the loop then waits for ever.  `Ends` names
  that state (`Held`) as the only way not to end.
- A reply can be left in `queueIn_` when its connection fails in the round in which
  another socket's reply ends the loop; the center may take it in the next `run()`.

## 4. Fairness

`FairSpec` assumes `WF_vars(ServerNext)`: the single thread keeps running.  That is
one condition for the whole loop, not one for each handler; that a handler gets
its turn follows from the sets `run()` walks through, not from an assumption.
`WF(PeerReceive(s))` says a peer that stays goes on reading; without it the
server cannot finish a reply.  Nothing is assumed of peers connecting, sending or
closing, nor of datagrams.  `Answered` and `ClosesAfterPeer` both admit
`pc = "stopped"`: SIGPIPE kills the process when it writes to a connection that a
first write found closed (`TCPSocket.cpp:126`).

The client's `FairSpec` is of the same kind: `WF_vars(ClientNext)` for its thread, and
weak fairness of the service on each connection the client still has open: it
accepts, reads and answers as long as it neither closes nor resets, which it may do at any
time (`ServerFails`).  `Framing` and the buffers state no fairness; that nothing waits
in vain is an action property there (`NoneLeft`).

## 5. Proofs

Each invariant theorem has the three steps `Init => I`, `I /\ [Next]_vars => I'` and
`I => property`, with one lemma for each action.  TLC checked the strengthened
invariants on the instances of section 3 before they were proved.  A theorem rests on
the named assumptions of the modules it is about (positive sizes, disjoint sets of
sockets and services, messages that can be sent), and on no bound.  `tlapm` needs some
minutes for `BlockBuffer_proofs` and `Framing_proofs` and less for each of the others.

### MessageBuffer

`MessageBuffer_proofs` proves, for any sockets, messages, node addresses and pipe
capacity:

- `Invariance`: `Spec => []Inv`, with `Inv` the conjunction of `TypeOK`,
  `PipeCountsQueue`, `NodesOwned`, `IndicesAgree` and `NoEmptySendList`;
- `TypeCorrect`, `PipeCounts`, `NodesOwnedOnce`, `IndicesCorrect`, `SendListsFilled`, its
  parts.

None of the interesting parts is inductive alone.  That the indices agree after a
pop needs a node to be in one queue and once (`NodesOwned`): freeing an address
that also stood elsewhere would leave a dangling iterator, and an address handed
out again by the allocator must be in no list.  That `popMessageToSend` removes
the node it looked up needs the index to name nodes of the queue; and that the
first incoming node's socket is a key of the index needs `IndexComplete`.

The same module proves `Refinement`, `Spec => QueuesSpec`: each step of
`MessageBuffer` is a step of `MessageQueues` under the mapping that reads the
message at each address, or leaves both queues as they are (the undone extract).
The mapped step for `popMessageToSend` rests on the order in the index.

### BlockBuffer

`BlockBuffer_proofs` proves, for any block size greater than the length field, any
length field and any alphabet:

- `Invariance`: blocks are written exactly where they are claimed (`Clean`), all but
  the last are full and the last is not (`GoodChain`); `currSpaceBlock_` is the last and
  `totalDataSize_` the number of bytes.  `TypeCorrect`, `ReadsHaveRoom`,
  `DataIsReachable` and `TotalIsExact` follow from it;
- `FieldsCopied` and `LinesFound`: what `getdata` and `getline` return, through any
  number of blocks, and that they take no more of a block than it has;
- `OperationsAreExact`: what each operation makes of the bytes.  `ToBytes` is the hard one.
  It reserves the length field, writes fields ahead of the claimed space with `append`,
  claims them all at once and then returns to the length field;
- `IsQueue`: `Spec => QueueSpec`.

`ReadHasRoom` or `DataReachable` are not inductive: the first needs that no block
but the last has room, the second that a block is given back once it is read, and
`totalDataSize_` would not tell of a block skipped half full.  Between `append` and
the claim that follows it, the chain is not good; `Drafted(c, text)` says what it is
then (text behind the data of the last claimed block, not yet counted), and each of
the loops has an invariant of its own: `Claims`, `Releases`, `Copied`, `Scanned`.
Those loops are recursive functions in `BlockBuffer`, so that a proof can follow them.

### Framing

`Framing_proofs` proves, for any messages that can be sent, any number of digits of a
length field, any modulus of an `unsigned int`, any size of a `MessageTest` and any
block size greater than the length field:

- `TypeCorrect`: `TypeOK`, in step or not;
- `StaysInStep`: `InStep`, that the parser undoes the printer;
- `AlwaysPrintable`: `Printable`;
- `LeavesNone`, `ClearsOnlyHeader` and `DefinedInOneBlock`: the action properties
  `NoneLeft`, `OnlyHeaderCleared` and `OneBlockDefined`.

`InStep` counts bytes, and counts do not make an invariant: that as many bytes are left
as there are in the next messages does not say that they are these messages.  The
inductive `IInv` says it of the bytes themselves.  In step (`Flow`), what was
printed is `done \o todo`; what was delivered is the supported part of `done`; and
the contents of `recvBuffer_`, those of `wire` and those of `sendBuffer_` are, *one
behind the other*, `Text(todo)`, what `toBytes` writes of the messages in `todo`.  Printing
appends to `todo`, writing and reading move a boundary between two neighbours, and
extracting takes the first message from `todo` to `done`.  Beside it stand the types
and the invariants of both buffers.  TLC checked `Flow` on the instance of the run
`framing` beforehand.

That extracting takes exactly the first message is the long part:

- *numbers*: `Value(Pad(n)) = n` for every `n` there are digits enough for (`PadOf`), that
  nothing is cut off it below the modulus (`NumberOf`), and that none of its bytes is a
  bar, from what the recursive functions `Decimal` and `Value` satisfy;
- *a field*: when the bytes from an offset on begin with `Field(data)`, or with a part of
  it, `DataField` returns `data` in the one case and does not find it in the other,
  unless it reads beyond a block (`FieldRead`).  This rests on `FieldCopied`, `LineScanned`, `FieldBeyond` and their
  like in `BlockBuffer_proofs`, which say what `getdata` and `getline` do at any offset,
  the undefined reads included;
- *a message*: the length, the type and the content of `Bytes(m)` are read one after
  the other (`LengthRead`, `TypeRead`, `ContentRead`, `MessageRead`), and `MsgLen` is
  `Len(Bytes(m))`, which needs that the length is below the modulus.

`BlockBuffer_proofs` is instantiated twice, for `sendBuffer_` (`SP`) and `recvBuffer_`
(`RP`); what its theorems say of one step is what the actions of `Framing` do to either.

### The handlers and the server

`TCPSocket_proofs` holds what the server and the client have in common: one lemma for
each step of each handler and of the peers, for each of these notions.

- `Stream`: the `recvBuffer_` of a socket and what it has not read are what its peer sent,
  in order and without a gap, from the cell after those `Taken` on.
- `Extracted`: a queued message came on its socket, all of it, and is supported.
- `Whole`: what was taken is a number of whole messages.
- `PassBound`: within a pass, messages and cells together have grown by what it read
  (`PassLimit`); between passes less than a message is left (`RestLimit`).

`SocketServer_proofs` proves, for any set of sockets, any number of messages and any
limits:

- `TypeCorrect`, with the bounds on a pass of reads or writes and on kernel room;
- `LiveSocketsServed`: `OpenIsServed`;
- `CenterNeverBlocks`: `CenterFindsMessage`;
- `OnlyWholeMessagesQueued`: `Extracted`;
- `BoundedBuffers`: `BufferBound`, while length fields come whole;
- `PipeNeverFull`: `NeverBlocksOnPipe`, under the same condition, for finitely many
  sockets and a pipe of `Cardinality(Socket) * MostBuffered` bytes or more.

`CenterFindsMessage` speaks of the read phase, but what it needs is decided by
`select()` a phase earlier: `CenterWaits` says it for the write phase too.  It is
kept because only the center takes a message out, and it takes its turn with it.
`BufferBound` is not inductive: the loop over reads tests the limit once, before it
starts, and the loop over `fromBytes` does not test it.  What a pass adds is
therefore told by what it has read so far, and that by how much of a message an
earlier pass may have left.

`SocketServer_refinement` proves, while length fields come whole:

- `CellsConserved`: `Conservation`;
- `ServerEchoes`: `Spec => EchoSpec`.

`Conservation` adds up what is on the way; it becomes inductive as `Conserved`: what
the peer has received, what the kernel holds, `sendBuffer_`, the queue to send and the
incoming messages of the socket are, *one behind the other*, the supported part of
what was taken.  Each handler's step moves the boundary between two neighbours, and the
`Way…` lemmas say so.  That the boundary moves by the right message needs `Whole`:
the message `fromBytes` finds at the front of `recvBuffer_` is the next one of the stream.

The condition that length fields come whole (`~SplitHeaders`) is not there for the proof.
With cut length fields the code throws bytes away (run `framing_split`), so that
`Conservation` is false, and out of step its parser may wait for ever for a message that
does not exist while `recvBuffer_` grows, so that nothing bounds it.  `Extracted`
holds all the same, and the client's theorems need no such condition.

### The client

`SocketClient_proofs` proves, for any batches, limits and behaviours of the servers, cut
length fields included:

- `TypeCorrect`;
- `ReturnsAnswered`: `UnansweredFailed`, an action property, from the inductive `Inv`.  It
  needs `OwnedOpen` (a socket of ours that is not open has failed) and `Served` (the
  loop leaves out no open socket), and that sets are finite (`FiniteLoop`), since the
  loop ends by counting what is left;
- `OwnReplyOnly`: `OwnReplyFinishes`, by `Stream` and `Extracted`.

### Induction

The library's induction theorems take an operator as a parameter, which the provers do not
instantiate.  `SequenceLemmas` therefore states induction over *sets*: a set with zero
and all successors holds every natural number (`NatInductive`), and the like for sequences
(`SeqInductive`).  The lemmas about `Filter`, `FlattenSeq`, the loops of
`BlockBuffer` and the digits of `Framing` rest on these two.

### Checked by TLC only

- Liveness under fairness, which TLAPS does not do: `Answered`, `ClosesAfterPeer`,
  `Ends`.
- The refuted properties of section 3, which have no proof to have.

Every invariant, action property and refinement that a passing run checks is also a
theorem.

## 6. Not modelled, and why

- `Logger`: formatting, the size of the log file and the switch to standard output.  No
  handler reads anything of it, and its fatal level is used before the loops only.
- `Server/main`, `SocketID`: argument parsing and constants.
- The set-up of listening and UDP sockets and of the pipe (`bindAndListen`, `bind_`, the
  address conversions): it runs once before the loop, and ends the process when it
  fails.  The model begins where it has succeeded.
- The default `MessageCenter`, which reads the pipe and discards: both programs replace it.
- Errors of `select()` itself, `FD_SETSIZE` and the numbers of descriptors.
- The UDP port beyond its readable handler: nothing fills `UDPMessageBuffer`, and the
  sending code is commented out.
- `MessageTest`'s truncated data (`isTestTruncatedData_`): the call in `Client/main` is
  commented out.
- Streams that no `toBytes` printed, such as lengths near 2^32 with less data behind
  them.
- The release of `SocketServer`'s sockets and of the messages of closed ones: the code
  never releases them, and neither do the models.

## 7. What is left

The components that keep protocol state are modelled, and all of their safety properties
are proved.  What could be added:

1. A run, and an abstract specification, of what the parser does with a stream that no
   `toBytes` printed.
2. That the cells of `TCPSocket` are an abstraction of the bytes of `Framing`: today the
   two are joined by the statements of section 2, not by a refinement.
