---------------------------- MODULE MessageBuffer ----------------------------
(***************************************************************************)
(* The process-wide MessageBuffer singleton (SocketLib/MessageBuffer).     *)
(*                                                                         *)
(* Incoming and outgoing messages live in two std::lists, queueIn_ and     *)
(* queueOut_.  Each list has an index, a std::map from SocketID to the     *)
(* std::list of ITERATORS of that socket's nodes.  A pipe carries one byte *)
(* for every message of queueIn_, so that select() wakes the message       *)
(* center.                                                                 *)
(*                                                                         *)
(* An iterator of a std::list is the address of a node.  It stays valid    *)
(* until that node is erased, and the allocator may then hand the address  *)
(* out again: nodes maps the addresses in use to what the node holds, and  *)
(* an iterator outside DOMAIN nodes dangles.                               *)
(***************************************************************************)
EXTENDS Naturals, SequencesExt

CONSTANTS
  SocketID,      \* ids of the sockets
  Message,       \* messages, abstract
  Iterator,      \* node addresses; a bound on the nodes alive at once
  PipeCapacity   \* bytes the kernel holds in the pipe before write() blocks

ASSUME PipeAssumption == PipeCapacity \in Nat \ {0}

VARIABLES
  nodes,             \* address -> the pair<SocketID, shared_ptr> of the node
  queueIn,           \* queueIn_, as the sequence of its nodes' addresses
  queueOut,          \* queueOut_
  inMsgBySocketID,   \* inMsgBySocketID_, a partial function of SocketID
  outMsgBySocketID,  \* outMsgBySocketID_
  pipe               \* bytes waiting between the two ends of the pipe

vars == <<nodes, queueIn, queueOut, inMsgBySocketID, outMsgBySocketID, pipe>>

Node == [sock : SocketID, msg : Message]

(* A std::map from SocketID to lists of iterators. *)
IsIndex(index) ==
  /\ index \in [DOMAIN index -> Seq(Iterator)]
  /\ DOMAIN index \subseteq SocketID

TypeOK ==
  /\ nodes \in [DOMAIN nodes -> Node]
  /\ DOMAIN nodes \subseteq Iterator
  /\ queueIn \in Seq(Iterator)
  /\ queueOut \in Seq(Iterator)
  /\ IsIndex(inMsgBySocketID)
  /\ IsIndex(outMsgBySocketID)
  /\ pipe \in 0 .. PipeCapacity

-----------------------------------------------------------------------------
(* std::map and std::list operations *)

(* map[x] = v *)
Put(map, x, v) == [y \in DOMAIN map \cup {x} |-> IF y = x THEN v ELSE map[y]]

(* index[s], which std::map::operator[] creates empty when s is no key *)
ListAt(index, s) == IF s \in DOMAIN index THEN index[s] ELSE <<>>

(* index[s].push_back(it) *)
PushBack(index, s, it) == Put(index, s, Append(ListAt(index, s), it))

(* index[s] after a push_back that a pop_back undid: the key stays *)
Touch(index, s) == Put(index, s, ListAt(index, s))

(* index.erase(s) *)
EraseKey(index, s) == Restrict(index, DOMAIN index \ {s})

StoreAlways(index, s, list) == Put(index, s, list)      \* mutant

(* index[s] = list, the key erased when the list is empty *)
StoreOrErase(index, s, list) ==
  IF list = <<>> THEN EraseKey(index, s) ELSE Put(index, s, list)

(* new / delete of a list node *)
Allocate(it, s, m) == nodes' = Put(nodes, it, [sock |-> s, msg |-> m])
Free(it) == nodes' = Restrict(nodes, DOMAIN nodes \ {it})

-----------------------------------------------------------------------------
Init ==
  /\ nodes = <<>>
  /\ queueIn = <<>>
  /\ queueOut = <<>>
  /\ inMsgBySocketID = <<>>
  /\ outMsgBySocketID = <<>>
  /\ pipe = 0

NumBuffered(s) == Len(ListAt(inMsgBySocketID, s))     \* getNumBufferedMessages

HasMessageToSend(s) == s \in DOMAIN outMsgBySocketID  \* hasMessageToSend

(* queueMessageToSend *)
QueueMessageToSend(m, s) ==
  \E it \in Iterator \ DOMAIN nodes :
    /\ Allocate(it, s, m)
    /\ queueOut' = Append(queueOut, it)
    /\ outMsgBySocketID' = PushBack(outMsgBySocketID, s, it)
    /\ UNCHANGED <<queueIn, inMsgBySocketID, pipe>>

(* The message popMessageToSend(s) returns when it finds one. *)
FirstToSend(s) == nodes[Head(outMsgBySocketID[s])].msg

(* Mutants: the newest message first; the message left in queueOut_. *)
PopLastMessageToSend(s) ==
  /\ HasMessageToSend(s)
  /\ LET it == Last(outMsgBySocketID[s])
     IN  /\ Free(it)
         /\ queueOut' = RemoveFirst(queueOut, it)
         /\ outMsgBySocketID' =
              StoreOrErase(outMsgBySocketID, s, Front(outMsgBySocketID[s]))
  /\ UNCHANGED <<queueIn, inMsgBySocketID, pipe>>

PopMessageToSendKeepingIt(s) ==
  /\ HasMessageToSend(s)
  /\ Free(Head(outMsgBySocketID[s]))
  /\ outMsgBySocketID' =
       StoreOrErase(outMsgBySocketID, s, Tail(outMsgBySocketID[s]))
  /\ UNCHANGED <<queueIn, queueOut, inMsgBySocketID, pipe>>

(* popMessageToSend, when it finds a message *)
PopMessageToSend(s) ==
  /\ HasMessageToSend(s)
  /\ outMsgBySocketID[s] # <<>>
  /\ LET it == Head(outMsgBySocketID[s])
     IN  /\ Free(it)
         /\ queueOut' = RemoveFirst(queueOut, it)
         /\ outMsgBySocketID' =
              StoreOrErase(outMsgBySocketID, s, Tail(outMsgBySocketID[s]))
  /\ UNCHANGED <<queueIn, inMsgBySocketID, pipe>>

(* Mutant: the writer does not wait for room in the pipe. *)
ExtractMessageUnblocked(s, m) ==
  /\ \E it \in Iterator \ DOMAIN nodes :
       /\ Allocate(it, s, m)
       /\ queueIn' = Append(queueIn, it)
       /\ inMsgBySocketID' = PushBack(inMsgBySocketID, s, it)
  /\ pipe' = pipe + 1
  /\ UNCHANGED <<queueOut, outMsgBySocketID>>

(* extractMessageFromSocket, fromBytes having produced m and the byte being *)
(* written.  The pipe is a blocking one: a full pipe blocks the thread.     *)
ExtractMessage(s, m) ==
  /\ pipe < PipeCapacity
  /\ \E it \in Iterator \ DOMAIN nodes :
       /\ Allocate(it, s, m)
       /\ queueIn' = Append(queueIn, it)
       /\ inMsgBySocketID' = PushBack(inMsgBySocketID, s, it)
  /\ pipe' = pipe + 1
  /\ UNCHANGED <<queueOut, outMsgBySocketID>>

(* Mutant: the message stays queued although nobody is notified of it. *)
ExtractUnnotifiedKept(s, m) ==
  /\ \E it \in Iterator \ DOMAIN nodes :
       /\ Allocate(it, s, m)
       /\ queueIn' = Append(queueIn, it)
       /\ inMsgBySocketID' = PushBack(inMsgBySocketID, s, it)
  /\ UNCHANGED <<queueOut, outMsgBySocketID, pipe>>

(* extractMessageFromSocket when write() fails: both push_backs are undone. *)
ExtractUnnotified(s, m) ==
  /\ inMsgBySocketID' = Touch(inMsgBySocketID, s)
  /\ UNCHANGED <<nodes, queueIn, queueOut, outMsgBySocketID, pipe>>

(* The pair popFirstMessageInQueue returns. *)
FirstInQueue == nodes[Head(queueIn)]

(* Mutant: the index keeps the iterator of the popped node. *)
PopFirstLeavingIndex ==
  /\ pipe > 0
  /\ Free(Head(queueIn))
  /\ queueIn' = Tail(queueIn)
  /\ pipe' = pipe - 1
  /\ UNCHANGED <<queueOut, inMsgBySocketID, outMsgBySocketID>>

(* popFirstMessageInQueue, which every message center calls after it read a *)
(* byte off the pipe.  An empty queueIn has no begin() to dereference.      *)
PopFirstMessageInQueue ==
  /\ pipe > 0
  /\ queueIn # <<>>
  /\ LET it == Head(queueIn)
         s  == nodes[it].sock
     IN  /\ Free(it)
         /\ inMsgBySocketID' =
              IF s \in DOMAIN inMsgBySocketID
              THEN StoreOrErase(inMsgBySocketID, s,
                                RemoveFirst(inMsgBySocketID[s], it))
              ELSE inMsgBySocketID
  /\ queueIn' = Tail(queueIn)
  /\ pipe' = pipe - 1
  /\ UNCHANGED <<queueOut, outMsgBySocketID>>

Next ==
  \/ PopFirstMessageInQueue
  \/ \E s \in SocketID :
       \/ PopMessageToSend(s)
       \/ \E m \in Message :
            \/ QueueMessageToSend(m, s)
            \/ ExtractMessage(s, m)
            \/ ExtractUnnotified(s, m)

Spec == Init /\ [][Next]_vars

-----------------------------------------------------------------------------
(* The message center is only woken for a message that is there, and every *)
(* message has a wake-up of its own: the bytes in the pipe count queueIn_. *)
PipeCountsQueue == pipe = Len(queueIn)

(* IndexAgrees: the index of a queue names the socket's nodes of that      *)
(* queue, all of them, in the queue's order, so neither a dangling         *)
(* iterator nor a forgotten message nor one of another socket can be       *)
(* reached through it.                                                     *)
IndexSound(ns, index, queue) ==
  \A s \in DOMAIN index : \A i \in DOMAIN index[s] :
    /\ index[s][i] \in ToSet(queue)
    /\ ns[index[s][i]].sock = s

IndexComplete(ns, index, queue) ==
  \A k \in DOMAIN queue :
    LET s == ns[queue[k]].sock
    IN  s \in DOMAIN index /\ queue[k] \in ToSet(index[s])

IndexOrdered(index, queue) ==
  \A s \in DOMAIN index : \A i, j \in DOMAIN index[s] :
    i < j => \E k, l \in DOMAIN queue :
               /\ k < l
               /\ queue[k] = index[s][i]
               /\ queue[l] = index[s][j]

IndexAgrees(ns, index, queue) ==
  /\ IndexSound(ns, index, queue)
  /\ IndexComplete(ns, index, queue)
  /\ IndexOrdered(index, queue)

(* Both indices agree with their queues after any interleaving of          *)
(* extracting, processing, queueing and sending: MessageBuffer.cpp erases  *)
(* a message from its list and from the index in separate statements.      *)
IndicesAgree ==
  /\ IndexAgrees(nodes, inMsgBySocketID, queueIn)
  /\ IndexAgrees(nodes, outMsgBySocketID, queueOut)

(* A node is in one of the queues, once, exactly while it is allocated. *)
NodesOwned ==
  /\ IsInjective(queueIn)
  /\ IsInjective(queueOut)
  /\ ToSet(queueIn) \cap ToSet(queueOut) = {}
  /\ DOMAIN nodes = ToSet(queueIn) \cup ToSet(queueOut)

(* hasMessageToSend only looks for the key: were the list under it empty,  *)
(* popMessageToSend would return null and its caller dereference it.       *)
NoEmptySendList == \A s \in DOMAIN outMsgBySocketID : outMsgBySocketID[s] # <<>>

(* The messages of queueIn_ in order, and those a socket has to send. *)
Incoming == [i \in DOMAIN queueIn |-> nodes[queueIn[i]]]

Outgoing ==
  [s \in SocketID |-> LET list == ListAt(outMsgBySocketID, s)
                      IN  [i \in DOMAIN list |-> nodes[list[i]].msg]]

Queues == INSTANCE MessageQueues WITH incoming <- Incoming, outgoing <- Outgoing

(* MessageBuffer implements the queues of MessageQueues: no interleaving of *)
(* the sockets' messages in the shared lists reorders, loses or duplicates  *)
(* a message, or hands a socket a message of another.                       *)
QueuesSpec == Queues!Spec
=============================================================================
