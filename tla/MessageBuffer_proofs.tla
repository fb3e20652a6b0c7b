------------------------ MODULE MessageBuffer_proofs ------------------------
(* Proofs about MessageBuffer for any sockets, messages, addresses and pipe, *)
(* and that it implements MessageQueues.                                    *)
EXTENDS MessageBuffer, SequenceTheorems, TLAPS

(* r is q without its element at position k. *)
Without(S, r, q, k) ==
  /\ r \in Seq(S)
  /\ Len(r) = Len(q) - 1
  /\ \A i \in 1 .. Len(r) : r[i] = IF i < k THEN q[i] ELSE q[i + 1]

(* pop_front removes position 1. *)
LEMMA TailWithout ==
  ASSUME NEW S, NEW q \in Seq(S), q # <<>>
  PROVE  Without(S, Tail(q), q, 1)
BY HeadTailProperties DEF Without

(* RemoveAt removes the position it is given. *)
LEMMA RemoveAtWithout ==
  ASSUME NEW S, NEW q \in Seq(S), NEW k \in 1 .. Len(q)
  PROVE  Without(S, RemoveAt(q, k), q, k)
<1> DEFINE a == SubSeq(q, 1, k - 1)
           b == SubSeq(q, k + 1, Len(q))
<1>1. Len(q) \in Nat /\ k \in Nat /\ \A i \in 1 .. Len(q) : q[i] \in S
  BY LenProperties, ElementOfSeq
<1>2. /\ a \in Seq(S)
      /\ Len(a) = k - 1
      /\ \A i \in 1 .. k - 1 : a[i] = q[i]
  <2>1. \A i \in 1 .. k - 1 : q[i] \in S
    BY <1>1
  <2> QED
    BY <1>1, <2>1, SubSeqProperties
<1>3. /\ b \in Seq(S)
      /\ Len(b) = Len(q) - k
      /\ \A i \in 1 .. Len(q) - k : b[i] = q[k + i]
  <2>1. \A i \in k + 1 .. Len(q) : q[i] \in S
    BY <1>1
  <2>2. /\ b \in Seq(S)
        /\ Len(b) = IF k + 1 <= Len(q) THEN Len(q) - (k + 1) + 1 ELSE 0
        /\ \A i \in 1 .. Len(q) - (k + 1) + 1 : b[i] = q[(k + 1) + i - 1]
    BY <1>1, <2>1, SubSeqProperties, Z3
  <2> QED
    BY <1>1, <2>2
<1>4. RemoveAt(q, k) = a \o b
  BY DEF RemoveAt
<1> HIDE DEF a, b
<1>5. /\ a \o b \in Seq(S)
      /\ Len(a \o b) = Len(a) + Len(b)
      /\ \A i \in 1 .. Len(a) + Len(b) :
           (a \o b)[i] = IF i <= Len(a) THEN a[i] ELSE b[i - Len(a)]
  BY <1>2, <1>3, ConcatProperties
<1>6. Len(a) + Len(b) = Len(q) - 1
  BY <1>1, <1>2, <1>3
<1>7. ASSUME NEW i \in 1 .. Len(q) - 1
      PROVE  (a \o b)[i] = IF i < k THEN q[i] ELSE q[i + 1]
  <2>1. CASE i < k
    BY <1>1, <1>2, <1>5, <1>6, <2>1
  <2>2. CASE i >= k
    <3>1. (a \o b)[i] = b[i - (k - 1)]
      BY <1>1, <1>2, <1>5, <1>6, <2>2
    <3>2. PICK j \in 1 .. Len(q) - k : j = i - (k - 1)
      BY <1>1, <2>2
    <3>3. k + j = i + 1 /\ ~(i < k)
      BY <1>1, <2>2, <3>2
    <3>4. b[j] = q[k + j]
      BY <1>3
    <3> QED
      BY <3>1, <3>2, <3>3, <3>4
  <2>3. i < k \/ i >= k
    BY <1>1
  <2> QED
    BY <2>1, <2>2, <2>3
<1> QED
  BY <1>4, <1>5, <1>6, <1>7 DEF Without

(* Erasing by value removes the one position that holds the value. *)
LEMMA RemoveFirstWithout ==
  ASSUME NEW S, NEW q \in Seq(S), IsInjective(q), NEW k \in 1 .. Len(q)
  PROVE  Without(S, RemoveFirst(q, q[k]), q, k)
<1>1. Len(q) \in Nat /\ DOMAIN q = 1 .. Len(q)
  BY LenProperties
<1>2. {i \in 1 .. Len(q) : q[i] = q[k]} = {k}
  BY <1>1 DEF IsInjective
<1>3. Min({k}) = k
  BY <1>1 DEF Min
<1>4. RemoveFirst(q, q[k]) = RemoveAt(q, k)
  BY <1>2, <1>3 DEF RemoveFirst, SelectInSeq
<1> QED
  BY <1>4, RemoveAtWithout

(* Removal takes one element out of the set and keeps the rest distinct. *)
LEMMA WithoutToSet ==
  ASSUME NEW S, NEW q \in Seq(S), IsInjective(q), NEW k \in 1 .. Len(q),
         NEW r, Without(S, r, q, k)
  PROVE  /\ ToSet(r) = ToSet(q) \ {q[k]}
         /\ IsInjective(r)
<1>1. /\ Len(q) \in Nat /\ DOMAIN q = 1 .. Len(q)
      /\ Len(r) \in Nat /\ DOMAIN r = 1 .. Len(r)
      /\ Len(r) = Len(q) - 1
  BY LenProperties DEF Without
<1>2. \A i \in DOMAIN r : r[i] \in ToSet(q) \ {q[k]}
  BY <1>1, SMTT(30) DEF Without, ToSet, IsInjective
<1>3. \A i \in DOMAIN q : i # k => q[i] \in ToSet(r)
  <2> SUFFICES ASSUME NEW i \in DOMAIN q, i # k
               PROVE  q[i] \in ToSet(r)
    OBVIOUS
  <2>1. CASE i < k
    <3>1. i \in DOMAIN r /\ r[i] = q[i]
      BY <1>1, <2>1 DEF Without
    <3> QED BY <3>1 DEF ToSet
  <2>2. CASE i > k
    <3>1. (i - 1) \in DOMAIN r /\ r[i - 1] = q[i]
      BY <1>1, <2>2 DEF Without
    <3> QED BY <3>1 DEF ToSet
  <2> QED BY <1>1, <2>1, <2>2
<1>4. IsInjective(r)
  <2> DEFINE old(i) == IF i < k THEN i ELSE i + 1
  <2> SUFFICES ASSUME NEW i \in DOMAIN r, NEW j \in DOMAIN r, r[i] = r[j]
               PROVE  i = j
    BY DEF IsInjective
  <2>1. /\ i \in Nat /\ j \in Nat /\ k \in Nat
        /\ old(i) \in DOMAIN q /\ old(j) \in DOMAIN q
    BY <1>1
  <2>2. r[i] = q[old(i)] /\ r[j] = q[old(j)]
    BY <1>1 DEF Without
  <2> HIDE DEF old
  <2>3. old(i) = old(j)
    BY <2>1, <2>2 DEF IsInjective
  <2> QED BY <2>1, <2>3 DEF old
<1> QED BY <1>2, <1>3, <1>4 DEF ToSet

(* push_back puts one element into the set. *)
LEMMA AppendToSet ==
  ASSUME NEW S, NEW q \in Seq(S), NEW e \in S
  PROVE  /\ Append(q, e) \in Seq(S)
         /\ ToSet(Append(q, e)) = ToSet(q) \cup {e}
         /\ IsInjective(q) /\ e \notin ToSet(q) => IsInjective(Append(q, e))
<1>1. /\ Append(q, e) \in Seq(S)
      /\ Len(q) \in Nat
      /\ Len(Append(q, e)) = Len(q) + 1
      /\ \A i \in 1 .. Len(q) : Append(q, e)[i] = q[i]
      /\ Append(q, e)[Len(q) + 1] = e
      /\ DOMAIN q = 1 .. Len(q)
      /\ DOMAIN Append(q, e) = 1 .. Len(q) + 1
  BY AppendProperties, LenProperties
<1>2. DOMAIN Append(q, e) = DOMAIN q \cup {Len(q) + 1}
  BY <1>1
<1>3. ToSet(Append(q, e)) = ToSet(q) \cup {e}
  BY <1>1, <1>2 DEF ToSet
<1>4. ASSUME IsInjective(q), e \notin ToSet(q)
      PROVE  IsInjective(Append(q, e))
  BY <1>1, <1>2, <1>4 DEF ToSet, IsInjective
<1> QED BY <1>1, <1>3, <1>4

-----------------------------------------------------------------------------
(* What the std::map operations do to an index. *)

(* index[s].push_back(it) *)
LEMMA PushBackProperties ==
  ASSUME NEW index, IsIndex(index), NEW s \in SocketID, NEW it \in Iterator
  PROVE  LET index2 == PushBack(index, s, it)
         IN  /\ IsIndex(index2)
             /\ DOMAIN index2 = DOMAIN index \cup {s}
             /\ index2[s] = Append(ListAt(index, s), it)
             /\ \A t \in DOMAIN index \ {s} : index2[t] = index[t]
<1>1. ListAt(index, s) \in Seq(Iterator)
  BY EmptySeq DEF ListAt, IsIndex
<1>2. Append(ListAt(index, s), it) \in Seq(Iterator)
  BY <1>1, AppendProperties
<1> QED BY <1>1, <1>2 DEF PushBack, IsIndex, Put

(* index[s], then a push_back and a pop_back *)
LEMMA TouchProperties ==
  ASSUME NEW index, IsIndex(index), NEW s \in SocketID
  PROVE  LET index2 == Touch(index, s)
         IN  /\ IsIndex(index2)
             /\ DOMAIN index2 = DOMAIN index \cup {s}
             /\ \A t \in DOMAIN index2 : index2[t] = ListAt(index, t)
<1>1. ListAt(index, s) \in Seq(Iterator)
  BY EmptySeq DEF ListAt, IsIndex
<1> QED BY <1>1 DEF Touch, ListAt, IsIndex, Put

(* index[s] = list, or the key erased *)
LEMMA StoreOrEraseProperties ==
  ASSUME NEW index, IsIndex(index), NEW s \in DOMAIN index,
         NEW list \in Seq(Iterator)
  PROVE  LET index2 == StoreOrErase(index, s, list)
         IN  /\ IsIndex(index2)
             /\ DOMAIN index2 \subseteq DOMAIN index
             /\ s \in DOMAIN index2 => index2[s] = list /\ list # <<>>
             /\ list # <<>> => s \in DOMAIN index2
             /\ \A t \in DOMAIN index \ {s} :
                  t \in DOMAIN index2 /\ index2[t] = index[t]
<1>1. CASE list = <<>>
  BY <1>1 DEF StoreOrErase, EraseKey, Restrict, IsIndex
<1>2. CASE list # <<>>
  BY <1>2 DEF StoreOrErase, IsIndex, Put
<1> QED BY <1>1, <1>2

(* new: the nodes gain one address. *)
LEMMA AllocateProperties ==
  ASSUME NEW it \in Iterator \ DOMAIN nodes, NEW s \in SocketID,
         NEW m \in Message, TypeOK, Allocate(it, s, m)
  PROVE  /\ nodes' \in [DOMAIN nodes' -> Node]
         /\ DOMAIN nodes' = DOMAIN nodes \cup {it}
         /\ DOMAIN nodes' \subseteq Iterator
         /\ nodes'[it] = [sock |-> s, msg |-> m]
         /\ \A a \in DOMAIN nodes : nodes'[a] = nodes[a]
BY DEF TypeOK, Allocate, Node, Put

(* delete: the nodes lose one address. *)
LEMMA FreeProperties ==
  ASSUME NEW it \in DOMAIN nodes, TypeOK, Free(it)
  PROVE  /\ nodes' \in [DOMAIN nodes' -> Node]
         /\ DOMAIN nodes' = DOMAIN nodes \ {it}
         /\ DOMAIN nodes' \subseteq Iterator
         /\ \A a \in DOMAIN nodes \ {it} : nodes'[a] = nodes[a]
BY DEF TypeOK, Free, Node, Restrict

-----------------------------------------------------------------------------
(* Index and queue change together. *)

(* A list of the index repeats no iterator when the queue does not. *)
LEMMA OrderedInjective ==
  ASSUME NEW index, IsIndex(index), NEW queue \in Seq(Iterator),
         IsInjective(queue), IndexOrdered(index, queue), NEW s \in DOMAIN index
  PROVE  IsInjective(index[s])
<1>1. index[s] \in Seq(Iterator)
  BY DEF IsIndex
<1>2. Len(index[s]) \in Nat /\ DOMAIN index[s] = 1 .. Len(index[s])
  BY <1>1, LenProperties
<1>3. Len(queue) \in Nat /\ DOMAIN queue = 1 .. Len(queue)
  BY LenProperties
<1>4. ASSUME NEW i \in DOMAIN index[s], NEW j \in DOMAIN index[s], i < j
      PROVE  index[s][i] # index[s][j]
  <2>1. PICK k, l \in DOMAIN queue :
           k < l /\ queue[k] = index[s][i] /\ queue[l] = index[s][j]
    BY <1>4 DEF IndexOrdered
  <2> QED BY <1>3, <2>1 DEF IsInjective
<1> QED BY <1>2, <1>4 DEF IsInjective

(* Nodes outside the queue do not matter to its index. *)
LEMMA AgreesFrame ==
  ASSUME NEW ns, NEW ns2, NEW index, NEW queue,
         IndexAgrees(ns, index, queue),
         \A a \in ToSet(queue) : ns2[a] = ns[a]
  PROVE  IndexAgrees(ns2, index, queue)
BY DEF IndexAgrees, IndexSound, IndexComplete, ToSet

(* A key with an empty list does not matter to the index. *)
LEMMA AgreesTouch ==
  ASSUME NEW ns, NEW index, IsIndex(index), NEW queue, NEW s \in SocketID,
         IndexAgrees(ns, index, queue)
  PROVE  IndexAgrees(ns, Touch(index, s), queue)
<1> DEFINE index2 == Touch(index, s)
<1>1. /\ DOMAIN index2 = DOMAIN index \cup {s}
      /\ \A t \in DOMAIN index2 : index2[t] = ListAt(index, t)
  BY TouchProperties
<1>2. \A t \in DOMAIN index2 :
        \/ t \in DOMAIN index /\ index2[t] = index[t]
        \/ index2[t] = <<>> /\ DOMAIN index2[t] = {}
  BY <1>1 DEF ListAt
<1> HIDE DEF index2
<1>3. IndexSound(ns, index2, queue)
  BY <1>2 DEF IndexAgrees, IndexSound
<1>4. IndexComplete(ns, index2, queue)
  BY <1>1 DEF IndexAgrees, IndexComplete, ListAt
<1>5. IndexOrdered(index2, queue)
  BY <1>2 DEF IndexAgrees, IndexOrdered
<1> QED BY <1>3, <1>4, <1>5 DEF IndexAgrees, index2

(* A node pushed on the queue and on its socket's list. *)
LEMMA AgreesPush ==
  ASSUME NEW ns, NEW index, IsIndex(index), NEW queue \in Seq(Iterator),
         NEW s \in SocketID, NEW it \in Iterator \ ToSet(queue),
         ns[it].sock = s, IndexAgrees(ns, index, queue)
  PROVE  IndexAgrees(ns, PushBack(index, s, it), Append(queue, it))
<1> DEFINE index2 == PushBack(index, s, it)
           queue2 == Append(queue, it)
           list == ListAt(index, s)
<1>1. /\ IsIndex(index2)
      /\ DOMAIN index2 = DOMAIN index \cup {s}
      /\ index2[s] = Append(list, it)
      /\ \A t \in DOMAIN index \ {s} : index2[t] = index[t]
  BY PushBackProperties
<1>2. list \in Seq(Iterator)
  BY EmptySeq DEF ListAt, IsIndex
<1>3. /\ Len(queue) \in Nat
      /\ DOMAIN queue = 1 .. Len(queue)
      /\ DOMAIN queue2 = 1 .. Len(queue) + 1
      /\ \A i \in DOMAIN queue : queue2[i] = queue[i]
      /\ queue2[Len(queue) + 1] = it
      /\ ToSet(queue2) = ToSet(queue) \cup {it}
  BY AppendProperties, AppendToSet, LenProperties
<1>4. /\ Len(list) \in Nat
      /\ DOMAIN list = 1 .. Len(list)
      /\ DOMAIN index2[s] = 1 .. Len(list) + 1
      /\ \A i \in DOMAIN list : index2[s][i] = list[i]
      /\ index2[s][Len(list) + 1] = it
      /\ ToSet(index2[s]) = ToSet(list) \cup {it}
  BY <1>1, <1>2, AppendProperties, AppendToSet, LenProperties
<1>5. \A i \in DOMAIN list : s \in DOMAIN index /\ list = index[s]
  BY DEF ListAt
<1> HIDE DEF index2, queue2, list
<1>6. IndexSound(ns, index2, queue2)
  <2> SUFFICES ASSUME NEW t \in DOMAIN index2, NEW i \in DOMAIN index2[t]
               PROVE  index2[t][i] \in ToSet(queue2) /\ ns[index2[t][i]].sock = t
    BY DEF IndexSound
  <2>1. CASE t # s
    BY <1>1, <1>3, <2>1 DEF IndexAgrees, IndexSound
  <2>2. CASE t = s /\ i \in DOMAIN list
    BY <1>3, <1>4, <1>5, <2>2 DEF IndexAgrees, IndexSound
  <2>3. CASE t = s /\ i = Len(list) + 1
    BY <1>3, <1>4, <2>3
  <2> QED BY <1>4, <2>1, <2>2, <2>3
<1>7. IndexComplete(ns, index2, queue2)
  <2> SUFFICES ASSUME NEW k \in DOMAIN queue2
               PROVE  LET t == ns[queue2[k]].sock
                      IN  t \in DOMAIN index2 /\ queue2[k] \in ToSet(index2[t])
    BY DEF IndexComplete
  <2>1. CASE k \in DOMAIN queue
    <3> DEFINE t == ns[queue[k]].sock
    <3>1. queue2[k] = queue[k] /\ t \in DOMAIN index /\ queue[k] \in ToSet(index[t])
      BY <1>3, <2>1 DEF IndexAgrees, IndexComplete
    <3>2. CASE t = s
      BY <1>1, <1>4, <3>1, <3>2 DEF ListAt, list
    <3>3. CASE t # s
      BY <1>1, <3>1, <3>3
    <3> QED BY <3>2, <3>3
  <2>2. CASE k = Len(queue) + 1
    BY <1>1, <1>3, <1>4, <2>2
  <2> QED BY <1>3, <2>1, <2>2
<1>8. IndexOrdered(index2, queue2)
  <2> SUFFICES ASSUME NEW t \in DOMAIN index2, NEW i \in DOMAIN index2[t],
                      NEW j \in DOMAIN index2[t], i < j
               PROVE  \E k, l \in DOMAIN queue2 :
                        /\ k < l
                        /\ queue2[k] = index2[t][i]
                        /\ queue2[l] = index2[t][j]
    BY DEF IndexOrdered
  <2>1. DOMAIN queue \subseteq DOMAIN queue2
    BY <1>3
  <2>2. CASE t # s
    <3>1. PICK k, l \in DOMAIN queue :
            k < l /\ queue[k] = index[t][i] /\ queue[l] = index[t][j]
      BY <1>1, <2>2 DEF IndexAgrees, IndexOrdered
    <3> QED BY <1>1, <1>3, <2>1, <2>2, <3>1
  <2>3. CASE t = s /\ j \in DOMAIN list
    <3>1. i \in DOMAIN list /\ s \in DOMAIN index /\ list = index[s]
      BY <1>4, <1>5, <2>3
    <3>2. PICK k, l \in DOMAIN queue :
            k < l /\ queue[k] = list[i] /\ queue[l] = list[j]
      BY <2>3, <3>1 DEF IndexAgrees, IndexOrdered
    <3> QED BY <1>3, <1>4, <2>1, <2>3, <3>1, <3>2
  <2>4. CASE t = s /\ j = Len(list) + 1
    <3>1. i \in DOMAIN list /\ s \in DOMAIN index /\ list = index[s]
      BY <1>4, <1>5, <2>4
    <3>2. list[i] \in ToSet(queue)
      BY <3>1 DEF IndexAgrees, IndexSound
    <3>3. PICK k \in DOMAIN queue : queue[k] = list[i]
      BY <3>2 DEF ToSet
    <3>4. /\ k \in DOMAIN queue2 /\ Len(queue) + 1 \in DOMAIN queue2
          /\ k < Len(queue) + 1
          /\ queue2[k] = index2[t][i]
          /\ queue2[Len(queue) + 1] = index2[t][j]
      BY <1>3, <1>4, <2>4, <3>1, <3>3
    <3> QED BY <3>4
  <2> QED BY <1>4, <2>2, <2>3, <2>4
<1> QED BY <1>6, <1>7, <1>8 DEF IndexAgrees, index2, queue2

(* Removal keeps the order of what it leaves. *)
LEMMA WithoutOrder ==
  ASSUME NEW S, NEW q \in Seq(S), NEW k \in 1 .. Len(q),
         NEW r, Without(S, r, q, k),
         NEW a \in 1 .. Len(q), NEW b \in 1 .. Len(q), a < b, a # k, b # k
  PROVE  \E c, d \in DOMAIN r : c < d /\ r[c] = q[a] /\ r[d] = q[b]
<1>1. /\ Len(q) \in Nat
      /\ DOMAIN r = 1 .. Len(r)
      /\ Len(r) = Len(q) - 1
  BY LenProperties DEF Without
<1>2. ASSUME NEW p \in 1 .. Len(q), p < k
      PROVE  p \in DOMAIN r /\ r[p] = q[p]
  BY <1>1, <1>2 DEF Without
<1>3. ASSUME NEW p \in 1 .. Len(q), p > k
      PROVE  p - 1 \in DOMAIN r /\ r[p - 1] = q[p]
  <2>1. p - 1 \in 1 .. Len(r) /\ ~(p - 1 < k)
    BY <1>1, <1>3
  <2>2. r[p - 1] = q[(p - 1) + 1]
    BY <2>1 DEF Without
  <2>3. (p - 1) + 1 = p
    BY <1>1
  <2> QED BY <1>1, <2>1, <2>2, <2>3
<1>4. CASE b < k
  BY <1>1, <1>2, <1>4
<1>5. CASE a > k
  <2>1. b > k /\ a - 1 < b - 1
    BY <1>1, <1>5
  <2> QED BY <1>3, <1>5, <2>1
<1>6. CASE a < k /\ b > k
  <2>1. a < b - 1
    BY <1>1, <1>6
  <2> QED BY <1>2, <1>3, <1>6, <2>1
<1> QED BY <1>1, <1>4, <1>5, <1>6

(* A node taken off the queue and off its socket's list. *)
LEMMA AgreesErase ==
  ASSUME NEW ns, NEW index, IsIndex(index), NEW queue \in Seq(Iterator),
         IsInjective(queue), IndexAgrees(ns, index, queue),
         NEW k \in 1 .. Len(queue), NEW queue2,
         Without(Iterator, queue2, queue, k),
         NEW s \in DOMAIN index, NEW j \in 1 .. Len(index[s]), NEW list,
         Without(Iterator, list, index[s], j),
         index[s][j] = queue[k]
  PROVE  IndexAgrees(ns, StoreOrErase(index, s, list), queue2)
<1> DEFINE index2 == StoreOrErase(index, s, list)
<1>1. list \in Seq(Iterator) /\ queue2 \in Seq(Iterator) /\ index[s] \in Seq(Iterator)
  BY DEF Without, IsIndex
<1>2. /\ DOMAIN index2 \subseteq DOMAIN index
      /\ s \in DOMAIN index2 => index2[s] = list
      /\ list # <<>> => s \in DOMAIN index2
      /\ \A t \in DOMAIN index \ {s} : t \in DOMAIN index2 /\ index2[t] = index[t]
  BY <1>1, StoreOrEraseProperties
<1>3. ToSet(queue2) = ToSet(queue) \ {queue[k]}
  BY WithoutToSet
<1>4. IsInjective(index[s])
  BY OrderedInjective DEF IndexAgrees
<1>5. ToSet(list) = ToSet(index[s]) \ {queue[k]}
  BY <1>1, <1>4, WithoutToSet
<1>6. /\ Len(index[s]) \in Nat /\ DOMAIN index[s] = 1 .. Len(index[s])
      /\ DOMAIN queue = 1 .. Len(queue)
  BY <1>1, LenProperties
<1>7. ns[queue[k]].sock = s
  BY <1>6 DEF IndexAgrees, IndexSound
<1> HIDE DEF index2
<1>8. \A t \in DOMAIN index2 :
        /\ t \in DOMAIN index
        /\ ToSet(index2[t]) = ToSet(index[t]) \ {queue[k]}
  <2> SUFFICES ASSUME NEW t \in DOMAIN index2
               PROVE  ToSet(index2[t]) = ToSet(index[t]) \ {queue[k]}
    BY <1>2
  <2>1. CASE t = s
    BY <1>2, <1>5, <2>1
  <2>2. CASE t # s
    <3>1. t \in DOMAIN index /\ index2[t] = index[t]
      BY <1>2, <2>2
    <3>2. \A i \in DOMAIN index[t] : index[t][i] # queue[k]
      BY <1>7, <2>2, <3>1 DEF IndexAgrees, IndexSound
    <3> QED BY <3>1, <3>2 DEF ToSet
  <2> QED BY <2>1, <2>2
<1>9. IndexSound(ns, index2, queue2)
  <2> SUFFICES ASSUME NEW t \in DOMAIN index2, NEW i \in DOMAIN index2[t]
               PROVE  index2[t][i] \in ToSet(queue2) /\ ns[index2[t][i]].sock = t
    BY DEF IndexSound
  <2>1. t \in DOMAIN index /\ index2[t][i] \in ToSet(index[t]) \ {queue[k]}
    BY <1>8 DEF ToSet
  <2>2. PICK n \in DOMAIN index[t] : index2[t][i] = index[t][n]
    BY <2>1 DEF ToSet
  <2> QED BY <1>3, <2>1, <2>2 DEF IndexAgrees, IndexSound
<1>10. IndexComplete(ns, index2, queue2)
  <2> SUFFICES ASSUME NEW i \in DOMAIN queue2
               PROVE  LET t == ns[queue2[i]].sock
                      IN  t \in DOMAIN index2 /\ queue2[i] \in ToSet(index2[t])
    BY DEF IndexComplete
  <2> DEFINE t == ns[queue2[i]].sock
  <2>1. queue2[i] \in ToSet(queue) \ {queue[k]}
    BY <1>3 DEF ToSet
  <2>2. t \in DOMAIN index /\ queue2[i] \in ToSet(index[t])
    BY <2>1 DEF ToSet, IndexAgrees, IndexComplete
  <2>3. t \in DOMAIN index2
    <3>1. CASE t = s
      <4>1. ToSet(list) # {}
        BY <1>5, <2>1, <2>2, <3>1
      <4>2. list # <<>>
        BY <4>1 DEF ToSet
      <4> QED BY <1>2, <3>1, <4>2
    <3>2. CASE t # s
      BY <1>2, <2>2, <3>2
    <3> QED BY <3>1, <3>2
  <2> QED BY <1>8, <2>1, <2>2, <2>3
<1>11. IndexOrdered(index2, queue2)
  <2> SUFFICES ASSUME NEW t \in DOMAIN index2, NEW x \in DOMAIN index2[t],
                      NEW y \in DOMAIN index2[t], x < y
               PROVE  \E c, d \in DOMAIN queue2 :
                        /\ c < d
                        /\ queue2[c] = index2[t][x]
                        /\ queue2[d] = index2[t][y]
    BY DEF IndexOrdered
  <2>1. t \in DOMAIN index
    BY <1>8
  <2>2. PICK m, n \in DOMAIN index[t] :
          m < n /\ index[t][m] = index2[t][x] /\ index[t][n] = index2[t][y]
    <3>1. CASE t = s
      <4>1. /\ index2[s] = list /\ Len(list) = Len(index[s]) - 1
            /\ DOMAIN list = 1 .. Len(list)
            /\ \A i \in 1 .. Len(list) :
                 list[i] = IF i < j THEN index[s][i] ELSE index[s][i + 1]
        BY <1>1, <1>2, <3>1, LenProperties DEF Without
      <4>2. x \in 1 .. Len(list) /\ y \in 1 .. Len(list)
        BY <3>1, <4>1
      <4>3. CASE x < j /\ y < j
        BY <1>6, <3>1, <4>1, <4>2, <4>3
      <4>4. CASE x < j /\ ~(y < j)
        <5>1. x < y + 1 /\ x \in DOMAIN index[s] /\ y + 1 \in DOMAIN index[s]
          BY <1>6, <4>1, <4>2
        <5> QED BY <3>1, <4>1, <4>2, <4>4, <5>1
      <4>5. CASE ~(x < j) /\ ~(y < j)
        <5>1. x + 1 < y + 1 /\ x + 1 \in DOMAIN index[s] /\ y + 1 \in DOMAIN index[s]
          BY <1>6, <4>1, <4>2
        <5> QED BY <3>1, <4>1, <4>2, <4>5, <5>1
      <4> QED BY <1>6, <4>2, <4>3, <4>4, <4>5
    <3>2. CASE t # s
      BY <1>2, <2>1, <3>2
    <3> QED BY <3>1, <3>2
  <2>3. PICK a, b \in DOMAIN queue :
          a < b /\ queue[a] = index2[t][x] /\ queue[b] = index2[t][y]
    BY <2>1, <2>2 DEF IndexAgrees, IndexOrdered
  <2>4. index2[t][x] # queue[k] /\ index2[t][y] # queue[k]
    BY <1>8 DEF ToSet
  <2>5. a # k /\ b # k
    BY <2>3, <2>4
  <2> QED BY <1>6, <2>3, <2>5, WithoutOrder
<1> QED BY <1>9, <1>10, <1>11 DEF IndexAgrees, index2

-----------------------------------------------------------------------------
(* The inductive invariant is the conjunction of the invariants: none of   *)
(* them is inductive alone.  Removing a node from an index needs the       *)
(* node's owner, and the owner of a node is the index that names it.       *)
Inv ==
  /\ TypeOK
  /\ PipeCountsQueue
  /\ NodesOwned
  /\ IndicesAgree
  /\ NoEmptySendList

(* An empty MessageBuffer satisfies the invariant. *)
LEMMA InitInv == Init => Inv
<1> SUFFICES ASSUME Init PROVE Inv
  OBVIOUS
<1>1. DOMAIN <<>> = {} /\ Len(<<>>) = 0 /\ ToSet(<<>>) = {}
  BY DEF ToSet
<1>2. TypeOK
  BY <1>1, PipeAssumption, EmptySeq DEF Init, TypeOK, IsIndex
<1>3. PipeCountsQueue /\ NoEmptySendList /\ IndicesAgree
  BY <1>1 DEF Init, PipeCountsQueue, NoEmptySendList, IndicesAgree,
              IndexAgrees, IndexSound, IndexComplete, IndexOrdered
<1>4. NodesOwned
  BY <1>1 DEF Init, NodesOwned, IsInjective
<1> QED BY <1>2, <1>3, <1>4 DEF Inv

(* Queueing a message to send preserves the invariant. *)
LEMMA QueueMessageToSendInv ==
  ASSUME Inv, NEW s \in SocketID, NEW m \in Message, QueueMessageToSend(m, s)
  PROVE  Inv'
<1> USE DEF Inv
<1>1. PICK it \in Iterator \ DOMAIN nodes :
        /\ Allocate(it, s, m)
        /\ queueOut' = Append(queueOut, it)
        /\ outMsgBySocketID' = PushBack(outMsgBySocketID, s, it)
        /\ UNCHANGED <<queueIn, inMsgBySocketID, pipe>>
  BY DEF QueueMessageToSend
<1>2. /\ nodes' \in [DOMAIN nodes' -> Node]
      /\ DOMAIN nodes' = DOMAIN nodes \cup {it}
      /\ DOMAIN nodes' \subseteq Iterator
      /\ nodes'[it].sock = s
      /\ \A a \in DOMAIN nodes : nodes'[a] = nodes[a]
  <2>1. TypeOK /\ Allocate(it, s, m)
    BY <1>1
  <2>2. /\ nodes' \in [DOMAIN nodes' -> Node]
        /\ DOMAIN nodes' = DOMAIN nodes \cup {it}
        /\ DOMAIN nodes' \subseteq Iterator
        /\ nodes'[it] = [sock |-> s, msg |-> m]
        /\ \A a \in DOMAIN nodes : nodes'[a] = nodes[a]
    BY <2>1, AllocateProperties
  <2> QED BY <2>2
<1>3. IsIndex(outMsgBySocketID) /\ queueOut \in Seq(Iterator)
  BY DEF TypeOK
<1>4. it \notin ToSet(queueIn) /\ it \notin ToSet(queueOut)
  BY <1>1 DEF NodesOwned
<1>5. /\ queueOut' \in Seq(Iterator)
      /\ ToSet(queueOut') = ToSet(queueOut) \cup {it}
      /\ IsInjective(queueOut')
  BY <1>1, <1>3, <1>4, AppendToSet DEF NodesOwned
<1>6. /\ IsIndex(outMsgBySocketID')
      /\ DOMAIN outMsgBySocketID' = DOMAIN outMsgBySocketID \cup {s}
      /\ outMsgBySocketID'[s] = Append(ListAt(outMsgBySocketID, s), it)
      /\ \A t \in DOMAIN outMsgBySocketID \ {s} :
           outMsgBySocketID'[t] = outMsgBySocketID[t]
  <2> DEFINE index2 == PushBack(outMsgBySocketID, s, it)
  <2>1. /\ IsIndex(index2)
        /\ DOMAIN index2 = DOMAIN outMsgBySocketID \cup {s}
        /\ index2[s] = Append(ListAt(outMsgBySocketID, s), it)
        /\ \A t \in DOMAIN outMsgBySocketID \ {s} :
             index2[t] = outMsgBySocketID[t]
    BY <1>3, PushBackProperties
  <2>2. outMsgBySocketID' = index2
    BY <1>1
  <2> HIDE DEF index2
  <2> QED BY <2>1, <2>2
<1>7. TypeOK'
  BY <1>1, <1>2, <1>5, <1>6 DEF TypeOK
<1>8. PipeCountsQueue'
  BY <1>1 DEF PipeCountsQueue
<1>9. NodesOwned'
  BY <1>1, <1>2, <1>4, <1>5 DEF NodesOwned
<1>10. IndicesAgree'
  <2>1. IndexAgrees(nodes', inMsgBySocketID, queueIn)
    BY <1>2, AgreesFrame DEF IndicesAgree, NodesOwned
  <2>2. IndexAgrees(nodes', outMsgBySocketID, queueOut)
    BY <1>2, AgreesFrame DEF IndicesAgree, NodesOwned
  <2>3. IndexAgrees(nodes', outMsgBySocketID', queueOut')
    BY <1>1, <1>2, <1>3, <1>4, <2>2, AgreesPush
  <2> QED BY <1>1, <2>1, <2>3 DEF IndicesAgree
<1>11. NoEmptySendList'
  <2>1. ListAt(outMsgBySocketID, s) \in Seq(Iterator)
    BY <1>3, EmptySeq DEF ListAt, IsIndex
  <2>2. outMsgBySocketID'[s] # <<>>
    BY <1>6, <2>1, AppendProperties
  <2> QED BY <1>6, <2>2 DEF NoEmptySendList
<1> QED BY <1>7, <1>8, <1>9, <1>10, <1>11

(* So does extracting a message and announcing it through the pipe. *)
LEMMA ExtractMessageInv ==
  ASSUME Inv, NEW s \in SocketID, NEW m \in Message, ExtractMessage(s, m)
  PROVE  Inv'
<1> USE DEF Inv
<1>1. PICK it \in Iterator \ DOMAIN nodes :
        /\ Allocate(it, s, m)
        /\ queueIn' = Append(queueIn, it)
        /\ inMsgBySocketID' = PushBack(inMsgBySocketID, s, it)
  BY DEF ExtractMessage
<1>2. /\ nodes' \in [DOMAIN nodes' -> Node]
      /\ DOMAIN nodes' = DOMAIN nodes \cup {it}
      /\ DOMAIN nodes' \subseteq Iterator
      /\ nodes'[it].sock = s
      /\ \A a \in DOMAIN nodes : nodes'[a] = nodes[a]
  <2>1. TypeOK /\ Allocate(it, s, m)
    BY <1>1
  <2>2. /\ nodes' \in [DOMAIN nodes' -> Node]
        /\ DOMAIN nodes' = DOMAIN nodes \cup {it}
        /\ DOMAIN nodes' \subseteq Iterator
        /\ nodes'[it] = [sock |-> s, msg |-> m]
        /\ \A a \in DOMAIN nodes : nodes'[a] = nodes[a]
    BY <2>1, AllocateProperties
  <2> QED BY <2>2
<1>3. IsIndex(inMsgBySocketID) /\ queueIn \in Seq(Iterator)
  BY DEF TypeOK
<1>4. it \notin ToSet(queueIn) /\ it \notin ToSet(queueOut)
  BY <1>1 DEF NodesOwned
<1>5. /\ queueIn' \in Seq(Iterator)
      /\ Len(queueIn') = Len(queueIn) + 1
      /\ ToSet(queueIn') = ToSet(queueIn) \cup {it}
      /\ IsInjective(queueIn')
  BY <1>1, <1>3, <1>4, AppendToSet, AppendProperties DEF NodesOwned
<1>6. IsIndex(inMsgBySocketID')
  BY <1>1, <1>3, PushBackProperties
<1>7. /\ UNCHANGED <<queueOut, outMsgBySocketID>>
      /\ pipe < PipeCapacity /\ pipe' = pipe + 1
  BY DEF ExtractMessage
<1>8. TypeOK'
  <2>1. pipe' \in 0 .. PipeCapacity
    BY <1>7, PipeAssumption DEF TypeOK
  <2> QED BY <1>2, <1>5, <1>6, <1>7, <2>1 DEF TypeOK
<1>9. PipeCountsQueue'
  BY <1>5, <1>7 DEF PipeCountsQueue
<1>10. NodesOwned'
  BY <1>2, <1>4, <1>5, <1>7 DEF NodesOwned
<1>11. IndicesAgree'
  <2>1. IndexAgrees(nodes', outMsgBySocketID, queueOut)
    BY <1>2, AgreesFrame DEF IndicesAgree, NodesOwned
  <2>2. IndexAgrees(nodes', inMsgBySocketID, queueIn)
    BY <1>2, AgreesFrame DEF IndicesAgree, NodesOwned
  <2>3. IndexAgrees(nodes', inMsgBySocketID', queueIn')
    BY <1>1, <1>2, <1>3, <1>4, <2>2, AgreesPush
  <2> QED BY <1>7, <2>1, <2>3 DEF IndicesAgree
<1>12. NoEmptySendList'
  BY <1>7 DEF NoEmptySendList
<1> QED BY <1>8, <1>9, <1>10, <1>11, <1>12

(* So does undoing both push_backs when the pipe cannot be written. *)
LEMMA ExtractUnnotifiedInv ==
  ASSUME Inv, NEW s \in SocketID, NEW m \in Message, ExtractUnnotified(s, m)
  PROVE  Inv'
<1> USE DEF Inv
<1>1. /\ inMsgBySocketID' = Touch(inMsgBySocketID, s)
      /\ UNCHANGED <<nodes, queueIn, queueOut, outMsgBySocketID, pipe>>
  BY DEF ExtractUnnotified
<1>2. IsIndex(inMsgBySocketID) /\ IsIndex(inMsgBySocketID')
  BY <1>1, TouchProperties DEF TypeOK
<1>3. TypeOK'
  BY <1>1, <1>2 DEF TypeOK
<1>4. IndicesAgree'
  BY <1>1, <1>2, AgreesTouch DEF IndicesAgree
<1>5. PipeCountsQueue' /\ NodesOwned' /\ NoEmptySendList'
  BY <1>1 DEF PipeCountsQueue, NodesOwned, NoEmptySendList
<1> QED BY <1>3, <1>4, <1>5

(* So does taking the first message a socket has to send. *)
LEMMA PopMessageToSendInv ==
  ASSUME Inv, NEW s \in SocketID, PopMessageToSend(s)
  PROVE  Inv'
<1> DEFINE list == outMsgBySocketID[s]
           it == Head(list)
<1>1. TypeOK /\ PipeCountsQueue /\ NodesOwned /\ IndicesAgree /\ NoEmptySendList
  BY DEF Inv
<1>2. /\ s \in DOMAIN outMsgBySocketID
      /\ list # <<>>
      /\ Free(it)
      /\ queueOut' = RemoveFirst(queueOut, it)
      /\ outMsgBySocketID' = StoreOrErase(outMsgBySocketID, s, Tail(list))
      /\ UNCHANGED <<queueIn, inMsgBySocketID, pipe>>
  BY DEF PopMessageToSend, HasMessageToSend
<1>3. /\ IsIndex(outMsgBySocketID)
      /\ queueOut \in Seq(Iterator)
      /\ list \in Seq(Iterator)
  BY <1>1, <1>2 DEF TypeOK, IsIndex
<1>4. /\ Len(list) \in Nat /\ DOMAIN list = 1 .. Len(list) /\ 1 \in DOMAIN list
      /\ DOMAIN queueOut = 1 .. Len(queueOut)
      /\ it = list[1]
  BY <1>2, <1>3, EmptySeq, LenProperties
<1>5. IndexAgrees(nodes, outMsgBySocketID, queueOut)
  BY <1>1 DEF IndicesAgree
<1>6. list[1] \in ToSet(queueOut)
  BY <1>2, <1>4, <1>5 DEF IndexAgrees, IndexSound
<1>7. PICK k \in 1 .. Len(queueOut) : queueOut[k] = list[1]
  BY <1>4, <1>6 DEF ToSet
<1>8. IsInjective(queueOut)
  BY <1>1 DEF NodesOwned
<1>9. Without(Iterator, queueOut', queueOut, k)
  BY <1>2, <1>3, <1>4, <1>7, <1>8, RemoveFirstWithout
<1>10. Without(Iterator, Tail(list), list, 1)
  BY <1>2, <1>3, TailWithout
<1>11. ToSet(queueOut') = ToSet(queueOut) \ {it} /\ IsInjective(queueOut')
  BY <1>3, <1>4, <1>7, <1>8, <1>9, WithoutToSet
<1>12. it \in DOMAIN nodes /\ it \notin ToSet(queueIn)
  BY <1>1, <1>4, <1>6 DEF NodesOwned
<1>13. /\ nodes' \in [DOMAIN nodes' -> Node]
       /\ DOMAIN nodes' = DOMAIN nodes \ {it}
       /\ DOMAIN nodes' \subseteq Iterator
       /\ \A a \in DOMAIN nodes \ {it} : nodes'[a] = nodes[a]
  BY <1>1, <1>2, <1>12, FreeProperties
<1>14. /\ IsIndex(outMsgBySocketID')
       /\ s \in DOMAIN outMsgBySocketID' => outMsgBySocketID'[s] # <<>>
       /\ \A t \in DOMAIN outMsgBySocketID' \ {s} :
            t \in DOMAIN outMsgBySocketID /\ outMsgBySocketID'[t] = outMsgBySocketID[t]
  <2>1. PICK rest \in Seq(Iterator) : rest = Tail(list)
    BY <1>10 DEF Without
  <2>2. IsIndex(outMsgBySocketID) /\ s \in DOMAIN outMsgBySocketID
    BY <1>2, <1>3
  <2> DEFINE index2 == StoreOrErase(outMsgBySocketID, s, rest)
  <2>3. /\ IsIndex(index2)
        /\ DOMAIN index2 \subseteq DOMAIN outMsgBySocketID
        /\ s \in DOMAIN index2 => index2[s] = rest /\ rest # <<>>
        /\ \A t \in DOMAIN outMsgBySocketID \ {s} :
             t \in DOMAIN index2 /\ index2[t] = outMsgBySocketID[t]
    BY <2>2, StoreOrEraseProperties
  <2>4. outMsgBySocketID' = index2
    BY <1>2, <2>1
  <2> HIDE DEF index2
  <2> QED BY <2>3, <2>4
<1> HIDE DEF list, it
<1>15. TypeOK'
  BY <1>1, <1>2, <1>9, <1>13, <1>14 DEF TypeOK, Without
<1>16. PipeCountsQueue'
  BY <1>1, <1>2 DEF PipeCountsQueue
<1>17. NodesOwned'
  BY <1>1, <1>2, <1>11, <1>12, <1>13 DEF NodesOwned
<1>18. IndicesAgree'
  <2>1. IndexAgrees(nodes', inMsgBySocketID, queueIn)
    <3>1. \A a \in ToSet(queueIn) : nodes'[a] = nodes[a]
      BY <1>1, <1>12, <1>13 DEF NodesOwned
    <3> QED BY <1>1, <3>1, AgreesFrame DEF IndicesAgree
  <2>2. IndexAgrees(nodes, outMsgBySocketID', queueOut')
    BY <1>2, <1>3, <1>4, <1>5, <1>7, <1>8, <1>9, <1>10, AgreesErase DEF list
  <2>3. \A a \in ToSet(queueOut') : nodes'[a] = nodes[a]
    BY <1>1, <1>11, <1>13 DEF NodesOwned
  <2>4. IndexAgrees(nodes', outMsgBySocketID', queueOut')
    BY <2>2, <2>3, AgreesFrame
  <2> QED BY <1>2, <2>1, <2>4 DEF IndicesAgree
<1>19. NoEmptySendList'
  BY <1>1, <1>14 DEF NoEmptySendList
<1> QED BY <1>15, <1>16, <1>17, <1>18, <1>19 DEF Inv

(* So does taking the oldest incoming message off queue and index. *)
LEMMA PopFirstMessageInQueueInv ==
  ASSUME Inv, PopFirstMessageInQueue
  PROVE  Inv'
<1> DEFINE it == Head(queueIn)
           s == nodes[it].sock
           list == inMsgBySocketID[s]
<1>1. TypeOK /\ PipeCountsQueue /\ NodesOwned /\ IndicesAgree /\ NoEmptySendList
  BY DEF Inv
<1>2. /\ pipe > 0 /\ queueIn # <<>>
      /\ Free(it)
      /\ inMsgBySocketID' =
           IF s \in DOMAIN inMsgBySocketID
           THEN StoreOrErase(inMsgBySocketID, s, RemoveFirst(list, it))
           ELSE inMsgBySocketID
      /\ queueIn' = Tail(queueIn)
      /\ pipe' = pipe - 1
      /\ UNCHANGED <<queueOut, outMsgBySocketID>>
  BY DEF PopFirstMessageInQueue
<1>3. IsIndex(inMsgBySocketID) /\ queueIn \in Seq(Iterator)
  BY <1>1 DEF TypeOK
<1>4. /\ DOMAIN queueIn = 1 .. Len(queueIn)
      /\ Len(queueIn) \in Nat /\ 1 \in 1 .. Len(queueIn)
      /\ it = queueIn[1]
  BY <1>2, <1>3, EmptySeq, LenProperties
<1>5. IndexAgrees(nodes, inMsgBySocketID, queueIn) /\ IsInjective(queueIn)
  BY <1>1 DEF IndicesAgree, NodesOwned
<1>6. s \in DOMAIN inMsgBySocketID /\ it \in ToSet(list)
  BY <1>4, <1>5 DEF IndexAgrees, IndexComplete
<1>7. list \in Seq(Iterator) /\ DOMAIN list = 1 .. Len(list) /\ IsInjective(list)
  <2>1. list \in Seq(Iterator)
    BY <1>3, <1>6 DEF IsIndex
  <2>2. IsInjective(list)
    BY <1>3, <1>5, <1>6, OrderedInjective DEF IndexAgrees
  <2> QED BY <2>1, <2>2, LenProperties
<1>8. PICK j \in 1 .. Len(list) : list[j] = it
  BY <1>6, <1>7 DEF ToSet
<1>9. Without(Iterator, RemoveFirst(list, it), list, j)
  BY <1>7, <1>8, RemoveFirstWithout
<1>10. Without(Iterator, queueIn', queueIn, 1)
  BY <1>2, <1>3, TailWithout
<1>11. ToSet(queueIn') = ToSet(queueIn) \ {it} /\ IsInjective(queueIn')
  BY <1>3, <1>4, <1>5, <1>10, WithoutToSet
<1>12. it \in DOMAIN nodes /\ it \notin ToSet(queueOut)
  BY <1>1, <1>4 DEF NodesOwned, ToSet
<1>13. /\ nodes' \in [DOMAIN nodes' -> Node]
       /\ DOMAIN nodes' = DOMAIN nodes \ {it}
       /\ DOMAIN nodes' \subseteq Iterator
       /\ \A a \in DOMAIN nodes \ {it} : nodes'[a] = nodes[a]
  BY <1>1, <1>2, <1>12, FreeProperties
<1>14. inMsgBySocketID' = StoreOrErase(inMsgBySocketID, s, RemoveFirst(list, it))
  BY <1>2, <1>6
<1>15. IsIndex(inMsgBySocketID')
  <2>1. RemoveFirst(list, it) \in Seq(Iterator)
    BY <1>9 DEF Without
  <2>2. IsIndex(StoreOrErase(inMsgBySocketID, s, RemoveFirst(list, it)))
    BY <1>3, <1>6, <2>1, StoreOrEraseProperties
  <2> QED BY <1>14, <2>2
<1> HIDE DEF list, it, s
<1>16. TypeOK'
  <2>1. pipe' \in 0 .. PipeCapacity
    BY <1>1, <1>2, PipeAssumption DEF TypeOK
  <2> QED BY <1>1, <1>2, <1>10, <1>13, <1>15, <2>1 DEF TypeOK, Without
<1>17. PipeCountsQueue'
  BY <1>1, <1>2, <1>10 DEF PipeCountsQueue, Without
<1>18. NodesOwned'
  BY <1>1, <1>2, <1>11, <1>12, <1>13 DEF NodesOwned
<1>19. IndicesAgree'
  <2>1. IndexAgrees(nodes', outMsgBySocketID, queueOut)
    <3>1. \A a \in ToSet(queueOut) : nodes'[a] = nodes[a]
      BY <1>1, <1>12, <1>13 DEF NodesOwned
    <3> QED BY <1>1, <3>1, AgreesFrame DEF IndicesAgree
  <2>2. IndexAgrees(nodes, inMsgBySocketID', queueIn')
    BY <1>3, <1>4, <1>5, <1>6, <1>8, <1>9, <1>10, <1>14, AgreesErase DEF list
  <2>3. \A a \in ToSet(queueIn') : nodes'[a] = nodes[a]
    BY <1>1, <1>11, <1>13 DEF NodesOwned
  <2>4. IndexAgrees(nodes', inMsgBySocketID', queueIn')
    BY <2>2, <2>3, AgreesFrame
  <2> QED BY <1>2, <2>1, <2>4 DEF IndicesAgree
<1>20. NoEmptySendList'
  BY <1>1, <1>2 DEF NoEmptySendList
<1> QED BY <1>16, <1>17, <1>18, <1>19, <1>20 DEF Inv

(* Every operation keeps the invariant. *)
LEMMA NextInv == Inv /\ [Next]_vars => Inv'
<1> SUFFICES ASSUME Inv, [Next]_vars PROVE Inv'
  OBVIOUS
<1>1. CASE UNCHANGED vars
  BY <1>1 DEF vars, Inv, TypeOK, IsIndex, PipeCountsQueue, NodesOwned,
              IndicesAgree, IndexAgrees, IndexSound, IndexComplete,
              IndexOrdered, NoEmptySendList
<1>2. CASE PopFirstMessageInQueue
  BY <1>2, PopFirstMessageInQueueInv
<1>3. ASSUME NEW s \in SocketID, PopMessageToSend(s) PROVE Inv'
  BY <1>3, PopMessageToSendInv
<1>4. ASSUME NEW s \in SocketID, NEW m \in Message, QueueMessageToSend(m, s)
      PROVE  Inv'
  BY <1>4, QueueMessageToSendInv
<1>5. ASSUME NEW s \in SocketID, NEW m \in Message, ExtractMessage(s, m)
      PROVE  Inv'
  BY <1>5, ExtractMessageInv
<1>6. ASSUME NEW s \in SocketID, NEW m \in Message, ExtractUnnotified(s, m)
      PROVE  Inv'
  BY <1>6, ExtractUnnotifiedInv
<1> QED BY <1>1, <1>2, <1>3, <1>4, <1>5, <1>6 DEF Next

(* Whatever the order of extracting, processing, queueing and sending, the *)
(* pipe counts queueIn_, both indices agree with their queues, every node  *)
(* is owned once and no key of outMsgBySocketID_ has an empty list.        *)
THEOREM Invariance == Spec => []Inv
<1> QED BY InitInv, NextInv, PTL DEF Spec

(* The state keeps its types for every number of sockets and nodes. *)
THEOREM TypeCorrect == Spec => []TypeOK
<1>1. Inv => TypeOK
  BY DEF Inv
<1> QED BY <1>1, Invariance, PTL

(* The message center is never woken for a message that is not there, and  *)
(* no message waits without a wake-up of its own.                          *)
THEOREM PipeCounts == Spec => []PipeCountsQueue
<1>1. Inv => PipeCountsQueue
  BY DEF Inv
<1> QED BY <1>1, Invariance, PTL

(* A list node in use is in one of the two queues, and once: an address the *)
(* allocator hands out again is nowhere else.                               *)
THEOREM NodesOwnedOnce == Spec => []NodesOwned
<1>1. Inv => NodesOwned
  BY DEF Inv
<1> QED BY <1>1, Invariance, PTL

(* No iterator stored in an index dangles, is forgotten or is another's. *)
THEOREM IndicesCorrect == Spec => []IndicesAgree
<1>1. Inv => IndicesAgree
  BY DEF Inv
<1> QED BY <1>1, Invariance, PTL

(* hasMessageToSend promises a message that popMessageToSend delivers. *)
THEOREM SendListsFilled == Spec => []NoEmptySendList
<1>1. Inv => NoEmptySendList
  BY DEF Inv
<1> QED BY <1>1, Invariance, PTL

-----------------------------------------------------------------------------
(* The refinement *)

(* The mapped queues have the types the abstract specification expects. *)
Mapped ==
  /\ Incoming \in Seq(Node)
  /\ Len(Incoming) = Len(queueIn)
  /\ \A s \in SocketID :
       /\ Outgoing[s] \in Seq(Message)
       /\ Len(Outgoing[s]) = Len(ListAt(outMsgBySocketID, s))

(* The mapped queues have the types of the abstract ones. *)
LEMMA MappedTypes == Inv => Mapped
<1> SUFFICES ASSUME Inv PROVE Mapped
  OBVIOUS
<1>1. TypeOK /\ NodesOwned /\ IndicesAgree
  BY DEF Inv
<1>2. Len(queueIn) \in Nat /\ DOMAIN queueIn = 1 .. Len(queueIn)
  BY <1>1, LenProperties DEF TypeOK
<1>3. \A i \in 1 .. Len(queueIn) : nodes[queueIn[i]] \in Node
  <2> SUFFICES ASSUME NEW i \in DOMAIN queueIn PROVE nodes[queueIn[i]] \in Node
    BY <1>2
  <2>1. queueIn[i] \in DOMAIN nodes
    BY <1>1 DEF NodesOwned, ToSet
  <2> QED BY <1>1, <2>1 DEF TypeOK
<1>4. Incoming \in [1 .. Len(queueIn) -> Node]
  BY <1>2, <1>3 DEF Incoming
<1>5. Incoming \in Seq(Node) /\ Len(Incoming) = Len(queueIn)
  BY <1>2, <1>4
<1>6. ASSUME NEW s \in SocketID
      PROVE  /\ Outgoing[s] \in Seq(Message)
             /\ Len(Outgoing[s]) = Len(ListAt(outMsgBySocketID, s))
  <2> DEFINE list == ListAt(outMsgBySocketID, s)
  <2>1. list \in Seq(Iterator)
    BY <1>1, EmptySeq DEF ListAt, TypeOK, IsIndex
  <2>2. Len(list) \in Nat /\ DOMAIN list = 1 .. Len(list)
    BY <2>1, LenProperties
  <2>3. \A i \in 1 .. Len(list) : nodes[list[i]].msg \in Message
    <3> SUFFICES ASSUME NEW i \in 1 .. Len(list) PROVE nodes[list[i]].msg \in Message
      OBVIOUS
    <3>1. s \in DOMAIN outMsgBySocketID /\ list = outMsgBySocketID[s]
      BY <2>2 DEF ListAt
    <3>2. list[i] \in ToSet(queueOut)
      BY <1>1, <2>2, <3>1 DEF IndicesAgree, IndexAgrees, IndexSound
    <3>3. nodes[list[i]] \in Node
      BY <1>1, <3>2 DEF NodesOwned, TypeOK
    <3> QED BY <3>3 DEF Node
  <2> DEFINE out == [i \in DOMAIN list |-> nodes[list[i]].msg]
  <2>4. Outgoing[s] = out
    BY DEF Outgoing
  <2>5. out \in [1 .. Len(list) -> Message]
    BY <2>2, <2>3
  <2> HIDE DEF out, list
  <2>6. out \in Seq(Message) /\ Len(out) = Len(list)
    BY <2>2, <2>5
  <2> QED BY <2>4, <2>6 DEF list
<1> QED BY <1>5, <1>6 DEF Mapped

(* And so they have after a step. *)
LEMMA MappedTypesNext == Inv' => Mapped'
<1> QED BY MappedTypes, PTL

(* Nodes outside queueIn_ do not matter to the incoming messages. *)
LEMMA IncomingFrame ==
  ASSUME Inv, queueIn' = queueIn,
         \A a \in ToSet(queueIn) : nodes'[a] = nodes[a]
  PROVE  Incoming' = Incoming
BY DEF Incoming, ToSet

(* Nodes outside queueOut_ do not matter to the messages to send. *)
LEMMA OutgoingFrame ==
  ASSUME Inv, outMsgBySocketID' = outMsgBySocketID,
         \A a \in ToSet(queueOut) : nodes'[a] = nodes[a]
  PROVE  Outgoing' = Outgoing
<1>1. ASSUME NEW s \in SocketID,
             NEW i \in DOMAIN ListAt(outMsgBySocketID, s)
      PROVE  nodes'[ListAt(outMsgBySocketID, s)[i]]
               = nodes[ListAt(outMsgBySocketID, s)[i]]
  BY <1>1 DEF Inv, IndicesAgree, IndexAgrees, IndexSound, ListAt
<1>2. \A s \in SocketID :
        ListAt(outMsgBySocketID', s) = ListAt(outMsgBySocketID, s)
  BY DEF ListAt
<1> QED BY <1>1, <1>2 DEF Outgoing

(* An empty MessageBuffer maps to empty queues. *)
LEMMA InitRefines == Init => Queues!Init
<1> SUFFICES ASSUME Init PROVE Queues!Init
  OBVIOUS
<1>1. Inv
  BY InitInv
<1>2. Incoming = <<>>
  <2>1. Len(Incoming) = 0 /\ Incoming \in Seq(Node)
    BY <1>1, MappedTypes DEF Init, Mapped
  <2> QED BY <2>1, EmptySeq
<1>3. Outgoing = [s \in SocketID |-> <<>>]
  <2>1. ASSUME NEW s \in SocketID PROVE Outgoing[s] = <<>>
    <3>1. Outgoing[s] \in Seq(Message)
      BY <1>1, MappedTypes DEF Mapped
    <3>2. ListAt(outMsgBySocketID, s) = <<>>
      BY DEF Init, ListAt
    <3>3. Outgoing[s] = [i \in DOMAIN <<>> |-> nodes[<<>>[i]].msg]
      BY <3>2 DEF Outgoing
    <3>4. DOMAIN Outgoing[s] = {}
      BY <3>3
    <3>5. Len(Outgoing[s]) \in Nat /\ DOMAIN Outgoing[s] = 1 .. Len(Outgoing[s])
      BY <3>1, LenProperties
    <3>6. Len(Outgoing[s]) = 0
      BY <3>4, <3>5
    <3> QED BY <3>1, <3>6, EmptySeq
  <2> QED BY <2>1 DEF Outgoing
<1> QED BY <1>2, <1>3 DEF Queues!Init

(* A message extracted from a socket arrives at the end of the queue. *)
LEMMA ExtractRefines ==
  ASSUME Inv, Inv', NEW s \in SocketID, NEW m \in Message, ExtractMessage(s, m)
  PROVE  Queues!Arrive(s, m)
<1> DEFINE e == [sock |-> s, msg |-> m]
<1>1. PICK it \in Iterator \ DOMAIN nodes :
        Allocate(it, s, m) /\ queueIn' = Append(queueIn, it)
  BY DEF ExtractMessage
<1>2. TypeOK /\ NodesOwned
  BY DEF Inv
<1>3. nodes'[it] = e /\ \A a \in DOMAIN nodes : nodes'[a] = nodes[a]
  BY <1>1, <1>2, AllocateProperties
<1>4. Outgoing' = Outgoing
  BY <1>2, <1>3, OutgoingFrame DEF NodesOwned, ExtractMessage
<1>5. /\ Incoming \in Seq(Node) /\ Len(Incoming) = Len(queueIn)
      /\ Incoming' \in Seq(Node) /\ Len(Incoming') = Len(queueIn')
  BY MappedTypes, MappedTypesNext DEF Mapped
<1>6. /\ Len(queueIn) \in Nat
      /\ DOMAIN queueIn = 1 .. Len(queueIn)
      /\ Len(queueIn') = Len(queueIn) + 1
      /\ DOMAIN queueIn' = 1 .. Len(queueIn')
      /\ \A i \in 1 .. Len(queueIn) : queueIn'[i] = queueIn[i]
      /\ queueIn'[Len(queueIn) + 1] = it
  <2>1. queueIn \in Seq(Iterator) /\ queueIn' \in Seq(Iterator)
    BY DEF Inv, TypeOK
  <2> QED BY <1>1, <2>1, AppendProperties, LenProperties
<1>7. e \in Node
  BY DEF Node
<1>8. \A i \in 1 .. Len(queueIn) : Incoming'[i] = Incoming[i]
  <2> SUFFICES ASSUME NEW i \in 1 .. Len(queueIn) PROVE Incoming'[i] = Incoming[i]
    OBVIOUS
  <2>1. queueIn[i] \in DOMAIN nodes
    BY <1>2, <1>6 DEF NodesOwned, ToSet
  <2>2. Incoming[i] = nodes[queueIn[i]]
    BY <1>6 DEF Incoming
  <2>3. Incoming'[i] = nodes'[queueIn'[i]]
    BY <1>6 DEF Incoming
  <2> QED BY <1>3, <1>6, <2>1, <2>2, <2>3
<1>9. Incoming'[Len(queueIn) + 1] = e
  BY <1>3, <1>6 DEF Incoming
<1> HIDE DEF e
<1>10. /\ Append(Incoming, e) \in Seq(Node)
       /\ Len(Append(Incoming, e)) = Len(queueIn) + 1
       /\ \A i \in 1 .. Len(queueIn) : Append(Incoming, e)[i] = Incoming[i]
       /\ Append(Incoming, e)[Len(queueIn) + 1] = e
  BY <1>5, <1>7, AppendProperties
<1>11. \A i \in 1 .. Len(queueIn) + 1 : Incoming'[i] = Append(Incoming, e)[i]
  BY <1>6, <1>8, <1>9, <1>10
<1>12. Incoming' = Append(Incoming, e)
  BY <1>5, <1>6, <1>10, <1>11, SeqEqual
<1> QED BY <1>4, <1>12 DEF Queues!Arrive, e

(* The message center takes the oldest message. *)
LEMMA PopFirstRefines ==
  ASSUME Inv, Inv', PopFirstMessageInQueue
  PROVE  Queues!Process
<1>1. TypeOK /\ NodesOwned
  BY DEF Inv
<1>2. queueIn \in Seq(Iterator) /\ queueIn # <<>> /\ Free(Head(queueIn))
      /\ queueIn' = Tail(queueIn)
  BY <1>1 DEF PopFirstMessageInQueue, TypeOK
<1>3. /\ Len(queueIn) \in Nat /\ DOMAIN queueIn = 1 .. Len(queueIn)
      /\ Len(queueIn) # 0
      /\ queueIn' \in Seq(Iterator) /\ Len(queueIn') = Len(queueIn) - 1
      /\ DOMAIN queueIn' = 1 .. Len(queueIn')
      /\ \A i \in 1 .. Len(queueIn') : queueIn'[i] = queueIn[i + 1]
      /\ Head(queueIn) = queueIn[1]
  BY <1>2, EmptySeq, HeadTailProperties, LenProperties
<1>4. \A a \in DOMAIN nodes \ {queueIn[1]} : nodes'[a] = nodes[a]
  BY <1>2, <1>3 DEF Free, Restrict
<1>5. Outgoing' = Outgoing
  <2>1. queueIn[1] \in ToSet(queueIn)
    BY <1>3 DEF ToSet
  <2>2. \A a \in ToSet(queueOut) : a \in DOMAIN nodes \ {queueIn[1]}
    BY <1>1, <2>1 DEF NodesOwned
  <2> QED BY <1>4, <2>2, OutgoingFrame DEF PopFirstMessageInQueue
<1>6. /\ Incoming \in Seq(Node) /\ Len(Incoming) = Len(queueIn)
      /\ Incoming' \in Seq(Node) /\ Len(Incoming') = Len(queueIn')
  BY MappedTypes, MappedTypesNext DEF Mapped
<1>7. Incoming # <<>>
  BY <1>3, <1>6, EmptySeq
<1>8. /\ Tail(Incoming) \in Seq(Node)
      /\ Len(Tail(Incoming)) = Len(queueIn')
      /\ \A i \in 1 .. Len(queueIn') : Tail(Incoming)[i] = Incoming[i + 1]
  BY <1>3, <1>6, <1>7, HeadTailProperties
<1>9. \A i \in 1 .. Len(queueIn') : Incoming'[i] = Incoming[i + 1]
  <2> SUFFICES ASSUME NEW i \in 1 .. Len(queueIn')
               PROVE  Incoming'[i] = Incoming[i + 1]
    OBVIOUS
  <2>1. i \in Nat /\ i + 1 \in DOMAIN queueIn /\ 1 \in DOMAIN queueIn /\ i + 1 # 1
    BY <1>3
  <2>2. queueIn[i + 1] \in DOMAIN nodes \ {queueIn[1]}
    BY <1>1, <2>1 DEF NodesOwned, ToSet, IsInjective
  <2>3. Incoming[i + 1] = nodes[queueIn[i + 1]]
    BY <2>1 DEF Incoming
  <2>4. Incoming'[i] = nodes'[queueIn'[i]]
    BY <1>3 DEF Incoming
  <2> QED BY <1>3, <1>4, <2>2, <2>3, <2>4
<1>10. \A i \in 1 .. Len(queueIn') : Incoming'[i] = Tail(Incoming)[i]
  BY <1>8, <1>9
<1>11. Incoming' = Tail(Incoming)
  BY <1>6, <1>8, <1>10, SeqEqual
<1> QED BY <1>5, <1>7, <1>11 DEF Queues!Process

(* Messages to send change for one socket only: the others' lists and the  *)
(* nodes on them stay.                                                     *)
LEMMA OutgoingOthers ==
  ASSUME Inv, NEW s \in SocketID, NEW t \in SocketID, t # s,
         ListAt(outMsgBySocketID', t) = ListAt(outMsgBySocketID, t),
         \A a \in DOMAIN nodes : nodes[a].sock # s => nodes'[a] = nodes[a]
  PROVE  Outgoing'[t] = Outgoing[t]
<1> DEFINE list == ListAt(outMsgBySocketID, t)
<1>1. ASSUME NEW i \in DOMAIN list PROVE nodes'[list[i]] = nodes[list[i]]
  <2>1. t \in DOMAIN outMsgBySocketID /\ list = outMsgBySocketID[t]
    BY DEF ListAt
  <2>2. list[i] \in ToSet(queueOut) /\ nodes[list[i]].sock = t
    BY <2>1 DEF Inv, IndicesAgree, IndexAgrees, IndexSound
  <2> QED BY <2>2 DEF Inv, NodesOwned
<1>2. Outgoing[t] = [i \in DOMAIN list |-> nodes[list[i]].msg]
  BY DEF Outgoing
<1>3. Outgoing'[t] = [i \in DOMAIN list |-> nodes'[list[i]].msg]
  BY DEF Outgoing
<1> HIDE DEF list
<1> QED BY <1>1, <1>2, <1>3

(* A message queued for s ends up last among those s has to send. *)
LEMMA QueueRefines ==
  ASSUME Inv, Inv', NEW s \in SocketID, NEW m \in Message,
         QueueMessageToSend(m, s)
  PROVE  Queues!Enqueue(s, m)
<1> DEFINE list == ListAt(outMsgBySocketID, s)
           list2 == ListAt(outMsgBySocketID', s)
<1>1. PICK it \in Iterator \ DOMAIN nodes :
        /\ Allocate(it, s, m)
        /\ outMsgBySocketID' = PushBack(outMsgBySocketID, s, it)
        /\ queueIn' = queueIn
  BY DEF QueueMessageToSend
<1>2. TypeOK /\ NodesOwned /\ IndicesAgree
  BY DEF Inv
<1>3. nodes'[it].msg = m /\ \A a \in DOMAIN nodes : nodes'[a] = nodes[a]
  <2>1. nodes'[it] = [sock |-> s, msg |-> m]
        /\ \A a \in DOMAIN nodes : nodes'[a] = nodes[a]
    BY <1>1, <1>2, AllocateProperties
  <2> QED BY <2>1
<1>4. Incoming' = Incoming
  BY <1>1, <1>2, <1>3, IncomingFrame DEF NodesOwned
<1>5. IsIndex(outMsgBySocketID)
  BY <1>2 DEF TypeOK
<1>6. /\ s \in DOMAIN outMsgBySocketID'
      /\ outMsgBySocketID'[s] = Append(list, it)
      /\ \A t \in SocketID \ {s} :
           ListAt(outMsgBySocketID', t) = ListAt(outMsgBySocketID, t)
  <2> DEFINE index2 == PushBack(outMsgBySocketID, s, it)
  <2>1. /\ IsIndex(index2)
        /\ DOMAIN index2 = DOMAIN outMsgBySocketID \cup {s}
        /\ index2[s] = Append(ListAt(outMsgBySocketID, s), it)
        /\ \A t \in DOMAIN outMsgBySocketID \ {s} :
             index2[t] = outMsgBySocketID[t]
    BY <1>5, PushBackProperties
  <2>2. outMsgBySocketID' = index2
    BY <1>1
  <2> HIDE DEF index2
  <2>3. \A t \in SocketID \ {s} :
          ListAt(index2, t) = ListAt(outMsgBySocketID, t)
    BY <2>1 DEF ListAt
  <2> QED BY <2>1, <2>2, <2>3
<1>7. list2 = Append(list, it)
  BY <1>6 DEF ListAt
<1>8. list \in Seq(Iterator)
  BY <1>5, EmptySeq DEF ListAt, IsIndex
<1>9. /\ Len(list) \in Nat /\ DOMAIN list = 1 .. Len(list)
      /\ Len(list2) = Len(list) + 1 /\ DOMAIN list2 = 1 .. Len(list) + 1
      /\ \A i \in 1 .. Len(list) : list2[i] = list[i]
      /\ list2[Len(list) + 1] = it
  BY <1>7, <1>8, AppendProperties, LenProperties
<1>10. /\ Outgoing[s] \in Seq(Message) /\ Len(Outgoing[s]) = Len(list)
       /\ Outgoing'[s] \in Seq(Message) /\ Len(Outgoing'[s]) = Len(list2)
  BY MappedTypes, MappedTypesNext DEF Mapped
<1>11. \A i \in 1 .. Len(list) : Outgoing'[s][i] = Outgoing[s][i]
  <2> SUFFICES ASSUME NEW i \in 1 .. Len(list)
               PROVE  Outgoing'[s][i] = Outgoing[s][i]
    OBVIOUS
  <2>1. s \in DOMAIN outMsgBySocketID /\ list = outMsgBySocketID[s]
    BY <1>9 DEF ListAt
  <2>2. list[i] \in ToSet(queueOut)
    BY <1>2, <1>9, <2>1 DEF IndicesAgree, IndexAgrees, IndexSound
  <2>3. list[i] \in DOMAIN nodes
    BY <1>2, <2>2 DEF NodesOwned
  <2>4. Outgoing[s][i] = nodes[list[i]].msg
    BY <1>9 DEF Outgoing
  <2>5. Outgoing'[s][i] = nodes'[list2[i]].msg
    BY <1>9 DEF Outgoing
  <2> QED BY <1>3, <1>9, <2>3, <2>4, <2>5
<1>12. Outgoing'[s][Len(list) + 1] = m
  BY <1>3, <1>9 DEF Outgoing
<1>13. Outgoing'[s] = Append(Outgoing[s], m)
  <2> HIDE DEF list, list2
  <2>1. /\ Append(Outgoing[s], m) \in Seq(Message)
        /\ Len(Append(Outgoing[s], m)) = Len(list) + 1
        /\ \A i \in 1 .. Len(list) : Append(Outgoing[s], m)[i] = Outgoing[s][i]
        /\ Append(Outgoing[s], m)[Len(list) + 1] = m
    BY <1>10, AppendProperties
  <2>2. \A i \in 1 .. Len(list) + 1 : Outgoing'[s][i] = Append(Outgoing[s], m)[i]
    BY <1>9, <1>11, <1>12, <2>1
  <2> QED BY <1>9, <1>10, <2>1, <2>2, SeqEqual
<1>14. \A t \in SocketID \ {s} : Outgoing'[t] = Outgoing[t]
  BY <1>3, <1>6, OutgoingOthers
<1>15. Outgoing' = [Outgoing EXCEPT ![s] = Append(@, m)]
  <2>1. Outgoing' = [t \in SocketID |-> Outgoing'[t]]
        /\ Outgoing = [t \in SocketID |-> Outgoing[t]]
    BY DEF Outgoing
  <2> QED BY <1>13, <1>14, <2>1
<1> QED BY <1>4, <1>15 DEF Queues!Enqueue

(* Socket s takes the oldest of the messages it has to send. *)
LEMMA PopToSendRefines ==
  ASSUME Inv, Inv', NEW s \in SocketID, PopMessageToSend(s)
  PROVE  Queues!Dequeue(s)
<1> DEFINE list == outMsgBySocketID[s]
           it == Head(list)
           list2 == ListAt(outMsgBySocketID', s)
<1>1. TypeOK /\ NodesOwned /\ IndicesAgree
  BY DEF Inv
<1>2. /\ s \in DOMAIN outMsgBySocketID /\ list # <<>>
      /\ list = ListAt(outMsgBySocketID, s)
      /\ Free(it) /\ queueIn' = queueIn
      /\ outMsgBySocketID' = StoreOrErase(outMsgBySocketID, s, Tail(list))
  BY DEF PopMessageToSend, HasMessageToSend, ListAt
<1>3. IsIndex(outMsgBySocketID) /\ list \in Seq(Iterator)
  BY <1>1, <1>2 DEF TypeOK, IsIndex
<1>4. list2 = Tail(list)
      /\ \A t \in SocketID \ {s} :
           ListAt(outMsgBySocketID', t) = ListAt(outMsgBySocketID, t)
  <2>1. PICK rest \in Seq(Iterator) : rest = Tail(list)
    BY <1>2, <1>3, HeadTailProperties
  <2>2. IsIndex(outMsgBySocketID) /\ s \in DOMAIN outMsgBySocketID
    BY <1>2, <1>3
  <2> DEFINE index2 == StoreOrErase(outMsgBySocketID, s, rest)
  <2>3. /\ DOMAIN index2 \subseteq DOMAIN outMsgBySocketID
        /\ s \in DOMAIN index2 => index2[s] = rest /\ rest # <<>>
        /\ rest # <<>> => s \in DOMAIN index2
        /\ \A t \in DOMAIN outMsgBySocketID \ {s} :
             t \in DOMAIN index2 /\ index2[t] = outMsgBySocketID[t]
    BY <2>2, StoreOrEraseProperties
  <2>4. outMsgBySocketID' = index2
    BY <1>2, <2>1
  <2> HIDE DEF index2
  <2>5. ListAt(index2, s) = rest
        /\ \A t \in SocketID \ {s} :
             ListAt(index2, t) = ListAt(outMsgBySocketID, t)
    BY <2>3 DEF ListAt
  <2> QED BY <2>1, <2>4, <2>5
<1>5. /\ Len(list) \in Nat /\ Len(list) # 0 /\ DOMAIN list = 1 .. Len(list)
      /\ it = list[1]
      /\ Len(list2) = Len(list) - 1 /\ DOMAIN list2 = 1 .. Len(list) - 1
      /\ \A i \in 1 .. Len(list) - 1 : list2[i] = list[i + 1]
  <2>1. Tail(list) \in Seq(Iterator)
        /\ Len(Tail(list)) = Len(list) - 1
        /\ \A i \in 1 .. Len(Tail(list)) : Tail(list)[i] = list[i + 1]
    BY <1>2, <1>3, HeadTailProperties
  <2>2. Len(list) \in Nat /\ Len(list) # 0 /\ DOMAIN list = 1 .. Len(list)
        /\ it = list[1]
    BY <1>2, <1>3, EmptySeq, LenProperties
  <2>3. DOMAIN Tail(list) = 1 .. Len(list) - 1
    BY <2>1, LenProperties
  <2> QED BY <1>4, <2>1, <2>2, <2>3
<1>6. \A i \in DOMAIN list :
        list[i] \in ToSet(queueOut) /\ nodes[list[i]].sock = s
  BY <1>1, <1>2 DEF IndicesAgree, IndexAgrees, IndexSound
<1>7. \A a \in DOMAIN nodes \ {list[1]} : nodes'[a] = nodes[a]
  BY <1>2, <1>5 DEF Free, Restrict
<1>8. IsInjective(list)
  BY <1>1, <1>2, <1>3, OrderedInjective
     DEF TypeOK, NodesOwned, IndicesAgree, IndexAgrees
<1>9. 1 \in DOMAIN list
  BY <1>5
<1>10. Incoming' = Incoming
  <2>1. \A a \in ToSet(queueIn) : a \in DOMAIN nodes \ {list[1]}
    BY <1>1, <1>6, <1>9 DEF NodesOwned
  <2> QED BY <1>2, <1>7, <2>1, IncomingFrame
<1>11. /\ Outgoing[s] \in Seq(Message) /\ Len(Outgoing[s]) = Len(list)
       /\ Outgoing'[s] \in Seq(Message) /\ Len(Outgoing'[s]) = Len(list2)
  BY <1>2, MappedTypes, MappedTypesNext DEF Mapped
<1>12. Outgoing[s] # <<>>
  BY <1>5, <1>11, EmptySeq
<1>13. \A i \in 1 .. Len(list) - 1 : Outgoing'[s][i] = Outgoing[s][i + 1]
  <2> SUFFICES ASSUME NEW i \in 1 .. Len(list) - 1
               PROVE  Outgoing'[s][i] = Outgoing[s][i + 1]
    OBVIOUS
  <2>1. i + 1 \in DOMAIN list /\ i + 1 # 1
    BY <1>5
  <2>2. list[i + 1] \in DOMAIN nodes \ {list[1]}
    BY <1>1, <1>6, <1>8, <1>9, <2>1 DEF NodesOwned, IsInjective
  <2>3. Outgoing[s] = [j \in DOMAIN list |-> nodes[list[j]].msg]
    BY <1>2 DEF Outgoing
  <2>4. Outgoing'[s] = [j \in DOMAIN list2 |-> nodes'[list2[j]].msg]
    BY DEF Outgoing
  <2> QED BY <1>5, <1>7, <2>1, <2>2, <2>3, <2>4
<1>14. Outgoing'[s] = Tail(Outgoing[s])
  <2> HIDE DEF list, list2
  <2>1. /\ Tail(Outgoing[s]) \in Seq(Message)
        /\ Len(Tail(Outgoing[s])) = Len(list) - 1
        /\ \A i \in 1 .. Len(list) - 1 : Tail(Outgoing[s])[i] = Outgoing[s][i + 1]
    BY <1>11, <1>12, HeadTailProperties
  <2>2. \A i \in 1 .. Len(list) - 1 : Outgoing'[s][i] = Tail(Outgoing[s])[i]
    BY <1>13, <2>1
  <2> QED BY <1>5, <1>11, <2>1, <2>2, SeqEqual
<1>15. \A t \in SocketID \ {s} : Outgoing'[t] = Outgoing[t]
  <2>1. \A a \in DOMAIN nodes : nodes[a].sock # s => nodes'[a] = nodes[a]
    BY <1>6, <1>7, <1>9
  <2> QED BY <1>4, <2>1, OutgoingOthers
<1>16. Outgoing' = [Outgoing EXCEPT ![s] = Tail(@)]
  <2>1. Outgoing' = [t \in SocketID |-> Outgoing'[t]]
        /\ Outgoing = [t \in SocketID |-> Outgoing[t]]
    BY DEF Outgoing
  <2> QED BY <1>14, <1>15, <2>1
<1> QED BY <1>10, <1>12, <1>16 DEF Queues!Dequeue

(* Every step of MessageBuffer is a step of MessageQueues or a stutter. *)
LEMMA StepRefines == Inv /\ Inv' /\ [Next]_vars => [Queues!Next]_Queues!vars
<1> SUFFICES ASSUME Inv, Inv', [Next]_vars PROVE [Queues!Next]_Queues!vars
  OBVIOUS
<1>1. CASE UNCHANGED vars
  <2>1. Incoming' = Incoming
    BY <1>1 DEF vars, Incoming
  <2>2. Outgoing' = Outgoing
    BY <1>1 DEF vars, Outgoing, ListAt
  <2> QED BY <2>1, <2>2 DEF Queues!vars
<1>2. CASE PopFirstMessageInQueue
  BY <1>2, PopFirstRefines DEF Queues!Next
<1>3. ASSUME NEW s \in SocketID, PopMessageToSend(s)
      PROVE  Queues!Next
  BY <1>3, PopToSendRefines DEF Queues!Next
<1>4. ASSUME NEW s \in SocketID, NEW m \in Message, QueueMessageToSend(m, s)
      PROVE  Queues!Next
  BY <1>4, QueueRefines DEF Queues!Next
<1>5. ASSUME NEW s \in SocketID, NEW m \in Message, ExtractMessage(s, m)
      PROVE  Queues!Next
  BY <1>5, ExtractRefines DEF Queues!Next
<1>6. ASSUME NEW s \in SocketID, NEW m \in Message, ExtractUnnotified(s, m)
      PROVE  UNCHANGED Queues!vars
  <2>1. UNCHANGED <<nodes, queueIn, outMsgBySocketID>>
    BY <1>6 DEF ExtractUnnotified
  <2>2. Incoming' = Incoming
    BY <2>1 DEF Incoming
  <2>3. Outgoing' = Outgoing
    BY <2>1 DEF Outgoing, ListAt
  <2> QED BY <2>2, <2>3 DEF Queues!vars
<1> QED BY <1>1, <1>2, <1>3, <1>4, <1>5, <1>6 DEF Next

(* For any sockets, messages and sizes, the two shared lists and their     *)
(* indices behave as one FIFO queue in and one FIFO queue per socket out.  *)
THEOREM Refinement == Spec => QueuesSpec
<1>1. Init => Queues!Init
  BY InitRefines
<1>2. Inv /\ Inv' /\ [Next]_vars => [Queues!Next]_Queues!vars
  BY StepRefines
<1> QED BY <1>1, <1>2, Invariance, PTL DEF Spec, QueuesSpec, Queues!Spec
=============================================================================
