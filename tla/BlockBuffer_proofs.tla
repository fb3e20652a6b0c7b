-------------------------- MODULE BlockBuffer_proofs --------------------------
(* The bytes of a BlockBuffer: what its blocks hold between two calls, and  *)
(* that every operation treats them as a queue.                            *)
EXTENDS BlockBuffer, SequenceLemmas

-----------------------------------------------------------------------------
(* The bytes of a chain of blocks *)

(* pData_ is set as long as pSpace_ is not at the beginning, there is data *)
(* then, and it was put there.                                             *)
Clean(b) ==
  /\ b.data = Null <=> b.space = 0
  /\ b.data # Null => /\ b.data < b.space
                      /\ \A k \in b.data + 1 .. b.space : b.bytes[k] \in Byte

CleanBlock == {b \in Block : Clean(b)}

ContentsOf(chain) == FlattenSeq([i \in DOMAIN chain |-> DataOf(chain[i])])

LEMMA BlockFacts ==
  ASSUME NEW b \in Block
  PROVE  /\ b.data \in 0 .. Null /\ b.space \in 0 .. BlockSize
         /\ b.bytes \in [1 .. BlockSize -> Byte \cup {Garbage}]
         /\ BlockSize \in Nat \ {0} /\ Null = BlockSize + 1
BY BlockAssumption DEF Block, Null

(* What a block has of data. *)
LEMMA DataOfClean ==
  ASSUME NEW b \in CleanBlock
  PROVE  /\ DataOf(b) \in Seq(Byte)
         /\ Len(DataOf(b)) = DataSize(b)
         /\ DataSize(b) \in 0 .. b.space
         /\ b.data = Null => DataSize(b) = 0
         /\ b.data # Null => DataSize(b) = b.space - b.data /\ DataSize(b) > 0
         /\ \A k \in 1 .. DataSize(b) : DataOf(b)[k] = b.bytes[b.data + k]
<1>1. /\ b \in Block /\ Clean(b)
      /\ b.data \in Nat /\ b.space \in Nat /\ Null \in Nat /\ b.space < Null
  BY BlockFacts DEF CleanBlock
<1>2. /\ DataSize(b) \in 0 .. b.space
      /\ b.data = Null => DataSize(b) = 0
      /\ b.data # Null => DataSize(b) = b.space - b.data /\ DataSize(b) > 0
  BY <1>1 DEF DataSize, Clean
<1> DEFINE m == b.data + 1
           n == b.data + DataSize(b)
<1>3. m \in Int /\ n \in Int
  BY <1>1, <1>2
<1>4. \A k \in m .. n : b.bytes[k] \in Byte
  <2>1. CASE b.data = Null
    BY <1>1, <1>2, <2>1
  <2>2. CASE b.data # Null
    <3>1. n = b.space
      BY <1>1, <1>2, <2>2
    <3> HIDE DEF n
    <3> QED BY <1>1, <2>2, <3>1 DEF Clean
  <2> QED BY <2>1, <2>2
<1>5. /\ DataOf(b) = SubSeq(b.bytes, m, n)
      /\ n - m + 1 = DataSize(b) /\ (m <= n <=> DataSize(b) > 0)
      /\ \A k \in 1 .. DataSize(b) : m + k - 1 = b.data + k
  BY <1>1, <1>2 DEF DataOf
<1> HIDE DEF m, n
<1>6. /\ SubSeq(b.bytes, m, n) \in Seq(Byte)
      /\ Len(SubSeq(b.bytes, m, n)) = IF m <= n THEN n - m + 1 ELSE 0
      /\ \A k \in 1 .. n - m + 1 : SubSeq(b.bytes, m, n)[k] = b.bytes[m + k - 1]
  BY <1>3, <1>4, SubSeqProperties
<1> QED BY <1>2, <1>5, <1>6

(* A block nothing was written to. *)
LEMMA NewBlockClean ==
  /\ NewBlock \in CleanBlock
  /\ DataOf(NewBlock) = <<>>
  /\ NewBlock.space = 0 /\ NewBlock.data = Null
<1>1. NewBlock \in Block /\ NewBlock.space = 0 /\ NewBlock.data = Null
  BY BlockAssumption DEF NewBlock, Block, Null
<1>2. NewBlock \in CleanBlock
  BY <1>1 DEF CleanBlock, Clean
<1>3. DataOf(NewBlock) \in Seq(Byte) /\ Len(DataOf(NewBlock)) = 0
  BY <1>1, <1>2, DataOfClean
<1> QED BY <1>1, <1>2, <1>3, EmptySeq

(* The data of the blocks of a chain. *)
LEMMA DataOfChain ==
  ASSUME NEW c \in Seq(CleanBlock)
  PROVE  /\ [i \in DOMAIN c |-> DataOf(c[i])] \in Seq(Seq(Byte))
         /\ Len([i \in DOMAIN c |-> DataOf(c[i])]) = Len(c)
<1>1. Len(c) \in Nat /\ DOMAIN c = 1 .. Len(c)
  BY LenProperties
<1>2. \A i \in 1 .. Len(c) : DataOf(c[i]) \in Seq(Byte)
  BY ElementOfSeq, DataOfClean
<1> DEFINE q == [i \in 1 .. Len(c) |-> DataOf(c[i])]
<1>3. q \in Seq(Seq(Byte)) /\ DOMAIN q = 1 .. Len(c)
  BY <1>1, <1>2, IsASeq
<1>4. Len(q) = Len(c)
  <2> HIDE DEF q
  <2> QED BY <1>1, <1>3, LenProperties
<1> QED BY <1>1, <1>3, <1>4

LEMMA ContentsEmpty == ContentsOf(<<>>) = <<>>
<1> DEFINE q == [i \in DOMAIN <<>> |-> DataOf(<<>>[i])]
<1>1. <<>> \in Seq(CleanBlock) /\ Len(<<>>) = 0
  BY EmptySeq
<1>2. q \in Seq(Seq(Byte)) /\ Len(q) = 0
  BY <1>1, DataOfChain
<1> HIDE DEF q
<1>3. q = <<>>
  BY <1>2, EmptySeq
<1> QED BY <1>3, FlattenEmpty DEF ContentsOf, q

LEMMA ContentsAppend ==
  ASSUME NEW c \in Seq(CleanBlock), NEW b \in CleanBlock
  PROVE  ContentsOf(Append(c, b)) = ContentsOf(c) \o DataOf(b)
<1> DEFINE Map(d) == [i \in DOMAIN d |-> DataOf(d[i])]
           r == Append(c, b)
<1>1. /\ r \in Seq(CleanBlock) /\ Len(r) = Len(c) + 1 /\ Len(c) \in Nat
      /\ DOMAIN r = 1 .. Len(r) /\ DOMAIN c = 1 .. Len(c)
      /\ \A i \in 1 .. Len(c) : r[i] = c[i]
      /\ r[Len(c) + 1] = b
  <2>1. r \in Seq(CleanBlock)
    BY AppendProperties
  <2>2. DOMAIN r = 1 .. Len(r) /\ DOMAIN c = 1 .. Len(c) /\ Len(c) \in Nat
    BY <2>1, LenProperties
  <2> QED BY <2>1, <2>2, AppendProperties
<1>2. DataOf(b) \in Seq(Byte)
  BY DataOfClean
<1> HIDE DEF r
<1>3. Map(c) \in Seq(Seq(Byte)) /\ Len(Map(c)) = Len(c)
  BY DataOfChain
<1>4. Map(r) \in Seq(Seq(Byte)) /\ Len(Map(r)) = Len(c) + 1
  BY <1>1, DataOfChain
<1>5. \A i \in 1 .. Len(c) + 1 :
        Map(r)[i] = IF i <= Len(c) THEN Map(c)[i] ELSE DataOf(b)
  BY <1>1
<1> HIDE DEF Map
<1>6. Map(r) = Append(Map(c), DataOf(b))
  <2> DEFINE s == Append(Map(c), DataOf(b))
  <2>1. /\ s \in Seq(Seq(Byte)) /\ Len(s) = Len(c) + 1
        /\ \A i \in 1 .. Len(c) : s[i] = Map(c)[i]
        /\ s[Len(c) + 1] = DataOf(b)
    BY <1>2, <1>3, AppendProperties
  <2> HIDE DEF s
  <2>2. \A i \in 1 .. Len(Map(r)) : Map(r)[i] = s[i]
    <3> SUFFICES ASSUME NEW i \in 1 .. Len(c) + 1 PROVE Map(r)[i] = s[i]
      BY <1>4
    <3>1. CASE i <= Len(c)
      BY <1>1, <1>5, <2>1, <3>1
    <3>2. CASE i = Len(c) + 1
      BY <1>1, <1>5, <2>1, <3>2
    <3> QED BY <1>1, <3>1, <3>2
  <2>3. Map(r) = s
    BY <1>4, <2>1, <2>2, SeqEqual
  <2> QED BY <2>3 DEF s
<1>7. FlattenSeq(Map(r)) = FlattenSeq(Map(c)) \o DataOf(b)
  BY <1>2, <1>3, <1>6, FlattenAppend
<1> QED BY <1>7 DEF ContentsOf, Map, r

LEMMA ContentsType ==
  ASSUME NEW c \in Seq(CleanBlock)
  PROVE  ContentsOf(c) \in Seq(Byte)
<1> DEFINE T == {d \in Seq(CleanBlock) : ContentsOf(d) \in Seq(Byte)}
<1>1. <<>> \in T
  BY ContentsEmpty, EmptySeq
<1>2. ASSUME NEW d \in Seq(CleanBlock), NEW b \in CleanBlock, d \in T
      PROVE  Append(d, b) \in T
  BY <1>2, ContentsAppend, DataOfClean, AppendProperties, ConcatProperties
<1>3. Seq(CleanBlock) \subseteq T
  BY <1>1, <1>2, SeqInductive
<1> QED BY <1>3

(* The data of the first block comes first. *)
LEMMA ContentsConcat ==
  ASSUME NEW c \in Seq(CleanBlock), NEW d \in Seq(CleanBlock)
  PROVE  ContentsOf(c \o d) = ContentsOf(c) \o ContentsOf(d)
<1> DEFINE T == {e \in Seq(CleanBlock) : ContentsOf(c \o e) = ContentsOf(c) \o ContentsOf(e)}
<1>0. ContentsOf(c) \in Seq(Byte)
  BY ContentsType
<1>1. <<>> \in T
  BY <1>0, ContentsEmpty, ConcatEmptySeq, EmptySeq
<1>2. ASSUME NEW e \in Seq(CleanBlock), NEW b \in CleanBlock, e \in T
      PROVE  Append(e, b) \in T
  <2>1. /\ Append(e, b) \in Seq(CleanBlock) /\ Append(e, b) = e \o <<b>>
        /\ <<b>> \in Seq(CleanBlock) /\ c \o e \in Seq(CleanBlock)
    BY AppendProperties, AppendIsConcat, ConcatProperties
  <2>2. c \o Append(e, b) = Append(c \o e, b)
    BY <2>1, AppendIsConcat, ConcatAssociative
  <2>3. ContentsOf(c \o Append(e, b)) = ContentsOf(c \o e) \o DataOf(b)
    BY <2>1, <2>2, ContentsAppend
  <2>4. ContentsOf(Append(e, b)) = ContentsOf(e) \o DataOf(b)
    BY ContentsAppend
  <2>5. ContentsOf(e) \in Seq(Byte) /\ DataOf(b) \in Seq(Byte)
    BY ContentsType, DataOfClean
  <2>6. \A x, y, z \in Seq(Byte) : (x \o y) \o z = x \o (y \o z)
    BY ConcatAssociative
  <2>7. (ContentsOf(c) \o ContentsOf(e)) \o DataOf(b) = ContentsOf(c) \o (ContentsOf(e) \o DataOf(b))
    BY <1>0, <2>5, <2>6, Zenon
  <2> QED BY <1>2, <2>1, <2>3, <2>4, <2>7
<1>3. Seq(CleanBlock) \subseteq T
  BY <1>1, <1>2, SeqInductive
<1> QED BY <1>3

LEMMA ContentsOne ==
  ASSUME NEW b \in CleanBlock
  PROVE  ContentsOf(<<b>>) = DataOf(b)
<1>1. <<b>> = Append(<<>>, b) /\ <<>> \in Seq(CleanBlock)
  BY EmptySeq
<1>2. ContentsOf(<<b>>) = ContentsOf(<<>>) \o DataOf(b)
  BY <1>1, ContentsAppend
<1> QED BY <1>2, ContentsEmpty, DataOfClean, ConcatEmptySeq

LEMMA ContentsHead ==
  ASSUME NEW c \in Seq(CleanBlock), c # <<>>
  PROVE  ContentsOf(c) = DataOf(Head(c)) \o ContentsOf(Tail(c))
<1>1. Head(c) \in CleanBlock /\ Tail(c) \in Seq(CleanBlock) /\ <<Head(c)>> \in Seq(CleanBlock)
  BY HeadTailProperties
<1>2. c = <<Head(c)>> \o Tail(c)
  BY <1>1, HeadTailProperties, ConcatProperties, LenProperties, SeqEqual
<1> DEFINE h == Head(c)
           t == Tail(c)
<1> HIDE DEF h, t
<1>3. ContentsOf(<<h>> \o t) = ContentsOf(<<h>>) \o ContentsOf(t)
  <2>1. \A u, v \in Seq(CleanBlock) : ContentsOf(u \o v) = ContentsOf(u) \o ContentsOf(v)
    BY ContentsConcat
  <2> QED BY <1>1, <2>1 DEF h, t
<1>4. ContentsOf(<<h>>) = DataOf(h)
  BY <1>1, ContentsOne DEF h
<1> QED BY <1>2, <1>3, <1>4 DEF h, t

-----------------------------------------------------------------------------
(* The invariant *)

(* All blocks but the last are full, and the last is not. *)
GoodChain(c) ==
  /\ c \in Seq(CleanBlock) /\ c # <<>>
  /\ \A i \in 1 .. Len(c) : c[i].space = BlockSize <=> i < Len(c)

Inv ==
  /\ TypeOK
  /\ GoodChain(blocks)
  /\ currSpace = Len(blocks)
  /\ totalDataSize = Len(Contents)

LEMMA MinOfTwo ==
  ASSUME NEW a \in Int, NEW b \in Int
  PROVE  Min({a, b}) = IF a <= b THEN a ELSE b
<1>1. \E x \in {a, b} : \A y \in {a, b} : x <= y
  OBVIOUS
<1> QED BY <1>1 DEF Min

(* A chain with this shape is made of full blocks and one behind them. *)
LEMMA GoodForm ==
  ASSUME NEW c, GoodChain(c)
  PROVE  \E f \in Seq(CleanBlock), l \in CleanBlock :
           /\ c = Append(f, l)
           /\ \A i \in 1 .. Len(f) : f[i].space = BlockSize
           /\ l.space # BlockSize
<1>1. PICK f \in Seq(CleanBlock), l \in CleanBlock : c = Append(f, l)
  BY SequenceEmptyOrAppend DEF GoodChain
<1>2. /\ Len(f) \in Nat /\ Len(c) = Len(f) + 1
      /\ \A i \in 1 .. Len(f) : c[i] = f[i]
      /\ c[Len(f) + 1] = l
  BY <1>1, AppendProperties, LenProperties
<1>3. \A i \in 1 .. Len(f) : f[i].space = BlockSize
  BY <1>2 DEF GoodChain
<1>4. l.space # BlockSize
  BY <1>2 DEF GoodChain
<1> QED BY <1>1, <1>3, <1>4

LEMMA GoodAppend ==
  ASSUME NEW f \in Seq(CleanBlock), NEW l \in CleanBlock,
         \A i \in 1 .. Len(f) : f[i].space = BlockSize,
         l.space # BlockSize
  PROVE  GoodChain(Append(f, l)) /\ Len(Append(f, l)) = Len(f) + 1
<1> DEFINE c == Append(f, l)
<1>1. /\ c \in Seq(CleanBlock) /\ c # <<>>
      /\ Len(f) \in Nat /\ Len(c) = Len(f) + 1
      /\ \A i \in 1 .. Len(f) : c[i] = f[i]
      /\ c[Len(f) + 1] = l
  BY AppendProperties, LenProperties
<1> HIDE DEF c
<1>2. ASSUME NEW i \in 1 .. Len(c)
      PROVE  c[i].space = BlockSize <=> i < Len(c)
  <2>1. CASE i <= Len(f)
    BY <1>1, <2>1
  <2>2. CASE i = Len(f) + 1
    BY <1>1, <2>2
  <2> QED BY <1>1, <2>1, <2>2
<1>3. GoodChain(c)
  BY <1>1, <1>2 DEF GoodChain
<1> QED BY <1>1, <1>3 DEF c

(* If a chain of this shape has data, its first block has some. *)
LEMMA HeadData ==
  ASSUME NEW c, GoodChain(c), Len(ContentsOf(c)) > 0
  PROVE  DataSize(Head(c)) > 0
<1>1. PICK f \in Seq(CleanBlock), l \in CleanBlock :
        /\ c = Append(f, l)
        /\ \A i \in 1 .. Len(f) : f[i].space = BlockSize
        /\ l.space # BlockSize
  BY GoodForm
<1>2. Head(c) = IF f = <<>> THEN l ELSE Head(f)
  BY <1>1, HeadTailAppend
<1>3. CASE f = <<>>
  <2>1. c = <<l>>
    BY <1>1, <1>3
  <2>2. ContentsOf(c) = DataOf(l)
    BY <2>1, ContentsOne
  <2>3. Len(DataOf(l)) = DataSize(l)
    BY DataOfClean
  <2> QED BY <1>2, <1>3, <2>2, <2>3
<1>4. CASE f # <<>>
  <2>1. Len(f) \in Nat \ {0} /\ Head(f) = f[1]
    BY <1>4, EmptySeq
  <2>2. f[1] \in CleanBlock /\ f[1].space = BlockSize
    BY <1>1, <2>1, ElementOfSeq
  <2>3. f[1].data # Null
    BY <2>2, BlockAssumption DEF CleanBlock, Clean
  <2> QED BY <1>2, <1>4, <2>1, <2>2, <2>3, DataOfClean
<1> QED BY <1>3, <1>4

(* The three properties of a chain of this shape. *)
LEMMA GoodReadable ==
  ASSUME Inv
  PROVE  ReadHasRoom /\ DataReachable /\ TotalAgrees
<1>1. PICK f \in Seq(CleanBlock), l \in CleanBlock :
        /\ blocks = Append(f, l)
        /\ \A i \in 1 .. Len(f) : f[i].space = BlockSize
        /\ l.space # BlockSize
  BY GoodForm DEF Inv
<1>2. blocks[currSpace] = l
  BY <1>1, AppendProperties DEF Inv
<1>3. ReadHasRoom
  <2>1. l.space \in 0 .. BlockSize /\ BlockSize \in Nat
    BY BlockFacts DEF CleanBlock
  <2> QED BY <1>1, <1>2, <2>1 DEF ReadHasRoom, ContinuousSpaceSize, SpaceSize
<1>4. DataReachable
  BY HeadData DEF DataReachable, ContinuousDataSize, Inv, Contents, ContentsOf
<1>5. TotalAgrees
  BY DEF Inv, TotalAgrees
<1> QED BY <1>3, <1>4, <1>5

-----------------------------------------------------------------------------
(* Bytes that are received *)

(* What is written behind the data of a block and claimed becomes data. *)
LEMMA BlockReceive ==
  ASSUME NEW b \in CleanBlock, NEW data \in Seq(Byte), NEW n, n = Len(data),
         n \in 1 .. SpaceSize(b)
  PROVE  /\ Overwrite(b, data, b.space) \in Block
         /\ Overwrite(b, data, b.space).space = b.space
         /\ BlockPush(Overwrite(b, data, b.space), n) \in CleanBlock
         /\ BlockPush(Overwrite(b, data, b.space), n).space = b.space + n
         /\ DataOf(BlockPush(Overwrite(b, data, b.space), n)) = DataOf(b) \o data
<1> DEFINE w == Overwrite(b, data, b.space)
           p == BlockPush(w, n)
<1>1. /\ b \in Block /\ Clean(b)
      /\ b.data \in 0 .. Null /\ b.space \in 0 .. BlockSize
      /\ b.bytes \in [1 .. BlockSize -> Byte \cup {Garbage}]
      /\ BlockSize \in Nat \ {0} /\ Null = BlockSize + 1
  BY BlockFacts DEF CleanBlock
<1>2. /\ n \in Nat \ {0} /\ b.space + n <= BlockSize
      /\ DOMAIN data = 1 .. n /\ \A k \in 1 .. n : data[k] \in Byte
  BY <1>1, LenProperties, ElementOfSeq DEF SpaceSize
<1> DEFINE bytes == [i \in 1 .. BlockSize |->
                       IF i - b.space \in DOMAIN data THEN data[i - b.space] ELSE b.bytes[i]]
<1>3. bytes \in [1 .. BlockSize -> Byte \cup {Garbage}]
  BY <1>1, <1>2
<1>4. w = [b EXCEPT !.bytes = bytes]
  BY DEF Overwrite
<1>5. w \in Block /\ w.data = b.data /\ w.space = b.space /\ w.bytes = bytes
  <2> HIDE DEF bytes, w
  <2> QED BY <1>1, <1>3, <1>4 DEF Block
<1> DEFINE start == IF b.data = Null THEN 0 ELSE b.data
<1>6. p = [w EXCEPT !.data = start, !.space = b.space + n]
  <2>1. Min({b.space + n, BlockSize}) = b.space + n
    BY <1>1, <1>2, MinOfTwo
  <2> HIDE DEF bytes, w
  <2> QED BY <1>5, <2>1 DEF BlockPush
<1>7. start \in 0 .. b.space /\ b.space + n \in 1 .. BlockSize /\ start # Null
  BY <1>1, <1>2 DEF Clean
<1>8. p \in Block /\ p.data = start /\ p.space = b.space + n /\ p.bytes = bytes
  <2> HIDE DEF bytes, p, start, w
  <2>1. start \in 0 .. Null /\ b.space + n \in 0 .. BlockSize
    BY <1>1, <1>2, <1>7
  <2> QED BY <1>3, <1>5, <1>6, <2>1 DEF Block
<1>9. \A k \in start + 1 .. b.space + n :
        bytes[k] = IF k <= b.space THEN b.bytes[k] ELSE data[k - b.space]
  <2> SUFFICES ASSUME NEW k \in start + 1 .. b.space + n
               PROVE  bytes[k] = IF k <= b.space THEN b.bytes[k] ELSE data[k - b.space]
    OBVIOUS
  <2> HIDE DEF start
  <2>1. k \in 1 .. BlockSize /\ (k - b.space \in 1 .. n <=> k > b.space)
    BY <1>1, <1>2, <1>7
  <2> QED BY <1>1, <1>2, <2>1
<1>10. Clean(p)
  <2> SUFFICES ASSUME NEW k \in start + 1 .. b.space + n PROVE bytes[k] \in Byte
    BY <1>1, <1>2, <1>7, <1>8 DEF Clean
  <2>1. CASE k <= b.space
    <3>1. b.data # Null
      BY <1>1, <2>1 DEF Clean
    <3> QED BY <1>1, <1>9, <2>1, <3>1 DEF Clean
  <2>2. CASE k > b.space
    <3>1. k - b.space \in 1 .. n
      BY <1>1, <1>2, <1>7, <2>2
    <3> QED BY <1>1, <1>2, <1>9, <2>2, <3>1
  <2> QED BY <1>1, <1>7, <2>1, <2>2
<1>11. p \in CleanBlock
  BY <1>8, <1>10 DEF CleanBlock
<1>12. DataSize(b) = b.space - start
  BY <1>1, DataOfClean DEF Clean
<1> HIDE DEF bytes, w, p, start
<1>13. DataSize(p) = DataSize(b) + n
  BY <1>1, <1>2, <1>7, <1>8, <1>12 DEF DataSize
<1>14. DataOf(p) = DataOf(b) \o data
  <2> DEFINE x == DataOf(p)
             y == DataOf(b)
             z == y \o data
  <2>1. /\ x \in Seq(Byte) /\ Len(x) = DataSize(p)
        /\ \A k \in 1 .. DataSize(p) : x[k] = p.bytes[p.data + k]
    BY <1>11, DataOfClean
  <2>2. /\ y \in Seq(Byte) /\ Len(y) = DataSize(b)
        /\ DataSize(b) \in Nat
        /\ \A k \in 1 .. DataSize(b) : y[k] = b.bytes[b.data + k]
        /\ DataSize(b) > 0 => b.data # Null
    BY <1>1, DataOfClean
  <2> HIDE DEF x, y
  <2>3. /\ z \in Seq(Byte) /\ Len(z) = Len(y) + Len(data)
        /\ \A k \in 1 .. Len(y) + Len(data) :
             z[k] = IF k <= Len(y) THEN y[k] ELSE data[k - Len(y)]
    BY <2>2, ConcatProperties
  <2> HIDE DEF z
  <2>4. ASSUME NEW k \in 1 .. Len(x)
        PROVE  x[k] = z[k]
    <3>1. /\ start + k \in start + 1 .. b.space + n
          /\ k \in 1 .. Len(y) + Len(data)
          /\ x[k] = bytes[start + k]
          /\ start \in Int
      BY <1>1, <1>2, <1>7, <1>8, <1>12, <1>13, <2>1, <2>2
    <3>2. CASE k <= DataSize(b)
      <4>1. start + k <= b.space /\ start = b.data /\ k \in 1 .. DataSize(b)
        BY <1>1, <1>7, <1>12, <2>2, <3>2 DEF start
      <4>2. x[k] = b.bytes[b.data + k]
        BY <1>9, <3>1, <4>1
      <4>3. z[k] = y[k]
        BY <2>2, <2>3, <3>1, <3>2
      <4> QED BY <2>2, <4>1, <4>2, <4>3
    <3>3. CASE k > DataSize(b)
      <4>1. start + k > b.space /\ (start + k) - b.space = k - DataSize(b)
        BY <1>1, <1>7, <1>12, <2>2, <3>3
      <4>2. x[k] = data[k - DataSize(b)]
        BY <1>1, <1>9, <3>1, <4>1
      <4>3. z[k] = data[k - DataSize(b)]
        BY <2>2, <2>3, <3>1, <3>3
      <4> QED BY <4>2, <4>3
    <3> QED BY <2>2, <3>2, <3>3
  <2>5. x = z
    BY <1>13, <2>1, <2>2, <2>3, <2>4, SeqEqual
  <2> QED BY <2>5 DEF x, y, z
<1> QED BY <1>5, <1>8, <1>11, <1>14 DEF w, p

(* The last element is replaced. *)
LEMMA AppendExcept ==
  ASSUME NEW E, NEW f \in Seq(E), NEW x \in E, NEW y \in E, NEW n, n = Len(f) + 1
  PROVE  [Append(f, x) EXCEPT ![n] = y] = Append(f, y)
<1> DEFINE c == Append(f, x)
           d == Append(f, y)
           e == [c EXCEPT ![n] = y]
<1>1. /\ c \in Seq(E) /\ d \in Seq(E) /\ Len(f) \in Nat
      /\ Len(c) = n /\ Len(d) = n /\ d[n] = y
      /\ \A i \in 1 .. Len(f) : c[i] = f[i] /\ d[i] = f[i]
  BY AppendProperties, LenProperties
<1> HIDE DEF c, d
<1>2. /\ e \in Seq(E) /\ Len(e) = n
      /\ \A i \in 1 .. n : e[i] = IF i = n THEN y ELSE c[i]
  <2>1. n \in 1 .. Len(c)
    BY <1>1
  <2> QED BY <1>1, <2>1, ExceptSeq
<1> HIDE DEF e
<1>3. \A i \in 1 .. Len(e) : e[i] = d[i]
  BY <1>1, <1>2
<1>4. e = d
  BY <1>1, <1>2, <1>3, SeqEqual
<1> QED BY <1>4 DEF c, d, e

(* The first blocks of a chain. *)
LEMMA AppendFront ==
  ASSUME NEW E, NEW f \in Seq(E), NEW x \in E
  PROVE  SubSeq(Append(f, x), 1, Len(f)) = f
<1> DEFINE c == Append(f, x)
           s == SubSeq(c, 1, Len(f))
<1>1. c \in Seq(E) /\ Len(f) \in Nat /\ \A i \in 1 .. Len(f) : c[i] = f[i] /\ f[i] \in E
  BY AppendProperties, LenProperties, ElementOfSeq
<1> HIDE DEF c
<1>2. s \in Seq(E) /\ Len(s) = Len(f) /\ \A i \in 1 .. Len(f) : s[i] = c[i]
  <2>1. 1 \in Int /\ Len(f) \in Int /\ \A i \in 1 .. Len(f) : c[i] \in E
    BY <1>1
  <2>2. /\ s \in Seq(E) /\ Len(s) = IF 1 <= Len(f) THEN Len(f) - 1 + 1 ELSE 0
        /\ \A i \in 1 .. Len(f) - 1 + 1 : s[i] = c[1 + i - 1]
    BY <2>1, SubSeqProperties
  <2> HIDE DEF s
  <2> QED BY <1>1, <2>2
<1> HIDE DEF s
<1>3. s = f
  BY <1>1, <1>2, SeqEqual
<1> QED BY <1>3 DEF s, c

(* claimed[i] is what resizePush has done up to block i. *)
Claims(chain, n, m, claimed) ==
  claimed = [i \in currSpace - 1 .. m |->
               IF i = currSpace - 1
               THEN [blocks |-> chain, left |-> n, space |-> currSpace]
               ELSE ClaimBlock(claimed[i - 1], i)]

LEMMA ClaimsExists ==
  ASSUME NEW chain, NEW n, currSpace \in Nat \ {0}, NEW m \in Nat, m >= currSpace - 1
  PROVE  \E f : Claims(chain, n, m, f)
<1> DEFINE a == currSpace - 1
           base == [blocks |-> chain, left |-> n, space |-> currSpace]
           T == {k \in Nat : \E f : Claims(chain, n, a + k, f)}
<1>0. a \in Nat
  OBVIOUS
<1>1. 0 \in T
  <2> DEFINE e == a + 0
  <2>1. e = a
    BY <1>0
  <2>2. Claims(chain, n, a, [i \in a .. a |-> base])
    BY <1>0 DEF Claims
  <2> HIDE DEF a, e
  <2>3. \E f : Claims(chain, n, e, f)
    BY <2>1, <2>2
  <2> QED BY <2>3 DEF e
<1>2. ASSUME NEW k \in Nat, k \in T
      PROVE  k + 1 \in T
  <2> DEFINE e == a + k
             d == a + (k + 1)
  <2>1. PICK f : Claims(chain, n, e, f)
    BY <1>2
  <2> DEFINE g == [i \in a .. d |-> IF i = a THEN base ELSE ClaimBlock(f[i - 1], i)]
  <2>2. \A i \in a .. e : i \in a .. d
    BY <1>0
  <2>3. \A i \in a .. d : i # a => i - 1 \in a .. e
    BY <1>0
  <2> HIDE DEF base, d, e
  <2>4. f = [i \in a .. e |-> IF i = a THEN base ELSE ClaimBlock(f[i - 1], i)]
    BY <2>1, Zenon DEF Claims, base
  <2>5. \A i \in a .. e : g[i] = f[i]
    BY <2>2, <2>4, Zenon
  <2>6. g = [i \in a .. d |-> IF i = a THEN base ELSE ClaimBlock(g[i - 1], i)]
    BY <2>3, <2>5, Zenon
  <2>7. Claims(chain, n, d, g)
    BY <2>6, Zenon DEF Claims, base
  <2> QED BY <2>7 DEF d
<1>3. Nat \subseteq T
  BY <1>1, <1>2, NatInductive
<1>4. m - a \in Nat /\ a + (m - a) = m
  BY <1>0
<1>5. \E f : Claims(chain, n, a + (m - a), f)
  BY <1>3, <1>4
<1> QED BY <1>4, <1>5

LEMMA ClaimLast ==
  ASSUME NEW chain, NEW n, currSpace \in Nat \ {0}, Len(chain) \in Nat, Len(chain) >= currSpace
  PROVE  \E f : /\ Claims(chain, n, Len(chain), f)
                /\ Claim(chain, n) = f[Len(chain)]
                /\ f[currSpace - 1] = [blocks |-> chain, left |-> n, space |-> currSpace]
                /\ \A i \in currSpace .. Len(chain) : f[i] = ClaimBlock(f[i - 1], i)
<1> DEFINE m == Len(chain)
           f == CHOOSE f : Claims(chain, n, m, f)
<1>1. Claims(chain, n, m, f)
  BY ClaimsExists
<1>2. Claim(chain, n) = f[m]
  BY DEF Claim, Claims
<1> HIDE DEF f, m
<1>3. /\ currSpace - 1 \in currSpace - 1 .. m
      /\ \A i \in currSpace .. m : i \in currSpace - 1 .. m /\ i # currSpace - 1
  BY DEF m
<1>4. /\ f[currSpace - 1] = [blocks |-> chain, left |-> n, space |-> currSpace]
      /\ \A i \in currSpace .. m : f[i] = ClaimBlock(f[i - 1], i)
  BY <1>1, <1>3, Zenon DEF Claims
<1> QED BY <1>1, <1>2, <1>4 DEF m

(* What fits in the last block is claimed there. *)
LEMMA ClaimOne ==
  ASSUME NEW f \in Seq(Block), NEW w \in Block, currSpace = Len(f) + 1,
         NEW n \in 1 .. SpaceSize(w), BlockPush(w, n) \in Block
  PROVE  Claim(Append(f, w), n) =
           [blocks |-> Append(f, BlockPush(w, n)), left |-> 0, space |-> currSpace]
<1> DEFINE chain == Append(f, w)
           L == currSpace
           base == [blocks |-> chain, left |-> n, space |-> L]
           end == [blocks |-> Append(f, BlockPush(w, n)), left |-> 0, space |-> L]
<1>1. /\ Len(f) \in Nat /\ L \in Nat \ {0} /\ Len(chain) = L
      /\ chain \in Seq(Block) /\ chain[L] = w
  BY AppendProperties, LenProperties
<1>2. n \in Nat \ {0} /\ SpaceSize(w) \in Nat /\ n <= SpaceSize(w)
  BY BlockFacts DEF SpaceSize
<1>3. [chain EXCEPT ![L] = BlockPush(w, n)] = Append(f, BlockPush(w, n))
  BY AppendExcept
<1> HIDE DEF chain
<1>4. ClaimBlock(base, L) = end
  <2>1. Min({n, SpaceSize(w)}) = n
    BY <1>2, MinOfTwo
  <2>2. base.blocks = chain /\ base.left = n
    OBVIOUS
  <2>3. ClaimBlock(base, L) =
          [blocks |-> [chain EXCEPT ![L] = BlockPush(@, n)], left |-> n - n, space |-> L]
    <3> HIDE DEF base
    <3> QED BY <1>1, <1>2, <2>1, <2>2 DEF ClaimBlock
  <2>4. [chain EXCEPT ![L] = BlockPush(@, n)] = [chain EXCEPT ![L] = BlockPush(w, n)]
    BY <1>1
  <2>5. n - n = 0
    BY <1>2
  <2> HIDE DEF base
  <2> QED BY <1>3, <2>3, <2>4, <2>5, Zenon
<1> HIDE DEF end
<1>5. PICK h : /\ Claim(chain, n) = h[L]
               /\ h[L - 1] = base
               /\ \A i \in L .. L : h[i] = ClaimBlock(h[i - 1], i)
  <2> HIDE DEF base
  <2>1. Len(chain) \in Nat /\ Len(chain) >= L
    BY <1>1
  <2> QED BY <1>1, <2>1, ClaimLast DEF base
<1>6. h[L] = ClaimBlock(h[L - 1], L)
  BY <1>1, <1>5
<1>7. Claim(chain, n) = end
  BY <1>4, <1>5, <1>6, Zenon
<1> QED BY <1>7 DEF chain, end

(* What the invariant is from the next values of the variables. *)
LEMMA InvNext ==
  ASSUME GoodChain(blocks'), currSpace' = Len(blocks'),
         totalDataSize' = Len(ContentsOf(blocks')), totalDataSize' \in 0 .. MaxBytes
  PROVE  Inv'
<1>1. blocks' \in Seq(CleanBlock) /\ blocks' # <<>>
  BY DEF GoodChain
<1>2. CleanBlock \subseteq Block
  BY DEF CleanBlock
<1>3. blocks' \in Seq(Block)
  BY <1>1, <1>2, SeqMonotonic, Zenon
<1>4. currSpace' \in DOMAIN blocks'
  <2>1. Len(blocks') \in Nat \ {0} /\ DOMAIN blocks' = 1 .. Len(blocks')
    BY <1>1, EmptySeq, LenProperties
  <2> QED BY <2>1
<1>5. TypeOK'
  BY <1>1, <1>3, <1>4 DEF TypeOK
<1>6. Contents' = ContentsOf(blocks')
  BY DEF Contents, ContentsOf
<1> QED BY <1>5, <1>6 DEF Inv

LEMMA ReceiveStep ==
  ASSUME Inv, NEW data \in Seq(Byte), Receive(data)
  PROVE  /\ Inv'
         /\ Contents' = Contents \o data
<1>1. PICK f \in Seq(CleanBlock), l \in CleanBlock :
        /\ blocks = Append(f, l)
        /\ \A i \in 1 .. Len(f) : f[i].space = BlockSize
        /\ l.space # BlockSize
  BY GoodForm DEF Inv
<1> DEFINE n == Len(data)
           w == Overwrite(l, data, l.space)
           b == BlockPush(w, n)
           L == Len(f) + 1
<1>2. /\ currSpace = L /\ blocks[L] = l
      /\ L \in Nat /\ Len(f) \in Nat
  BY <1>1, AppendProperties, LenProperties DEF Inv
<1>3. /\ n \in 1 .. SpaceSize(l)
      /\ totalDataSize + n <= MaxBytes
      /\ ResizePush([blocks EXCEPT ![L] = Overwrite(@, data, @.space)], n)
  BY <1>2 DEF Receive, ContinuousSpaceSize
<1>4. /\ w \in Block /\ w.space = l.space
      /\ b \in CleanBlock /\ b.space = l.space + n
      /\ DataOf(b) = DataOf(l) \o data
  BY <1>3, BlockReceive
<1> HIDE DEF w, b
<1>5. f \in Seq(Block) /\ l \in Block /\ b \in Block
  <2>1. CleanBlock \subseteq Block
    BY DEF CleanBlock
  <2> QED BY <1>4, <2>1, SeqMonotonic, Zenon
<1>6. [blocks EXCEPT ![L] = Overwrite(@, data, @.space)] = Append(f, w)
  <2>1. [blocks EXCEPT ![L] = Overwrite(@, data, @.space)] = [blocks EXCEPT ![L] = w]
    BY <1>2 DEF w
  <2>2. [Append(f, l) EXCEPT ![L] = w] = Append(f, w)
    BY <1>4, <1>5, AppendExcept
  <2> QED BY <1>1, <2>1, <2>2
<1>7. Claim(Append(f, w), n) = [blocks |-> Append(f, b), left |-> 0, space |-> L]
  <2>1. n \in 1 .. SpaceSize(w) /\ BlockPush(w, n) \in Block
    BY <1>3, <1>4, <1>5 DEF SpaceSize, b
  <2> HIDE DEF n
  <2> QED BY <1>2, <1>4, <1>5, <2>1, ClaimOne DEF b
<1> DEFINE c == Append(f, b)
<1>8. /\ c \in Seq(CleanBlock) /\ Len(c) = L /\ c[L] = b
      /\ ContentsOf(c) = ContentsOf(f) \o DataOf(b)
      /\ \A i \in 1 .. Len(f) : c[i] = f[i]
  <2>1. b \in CleanBlock
    BY <1>4
  <2>2. /\ c \in Seq(CleanBlock) /\ Len(c) = Len(f) + 1 /\ c[Len(f) + 1] = b
        /\ \A i \in 1 .. Len(f) : c[i] = f[i]
    BY <2>1, AppendProperties
  <2>3. ContentsOf(c) = ContentsOf(f) \o DataOf(b)
    BY <2>1, ContentsAppend
  <2> HIDE DEF c
  <2> QED BY <2>2, <2>3
<1> HIDE DEF c
<1>9. /\ IF b.space = BlockSize
         THEN blocks' = Append(SubSeq(c, 1, L), NewBlock) /\ currSpace' = L + 1
         ELSE blocks' = c /\ currSpace' = L
      /\ totalDataSize' = totalDataSize + n
  <2>1. ResizePush(Append(f, w), n)
    BY <1>3, <1>6
  <2> DEFINE acc == Claim(Append(f, w), n)
  <2>2. acc.blocks = c /\ acc.space = L
    BY <1>7 DEF c
  <2>3. /\ IF IsFull(acc.blocks[acc.space])
           THEN /\ blocks' = Append(SubSeq(acc.blocks, 1, acc.space), NewBlock)
                /\ currSpace' = acc.space + 1
           ELSE /\ blocks' = acc.blocks
                /\ currSpace' = acc.space
        /\ totalDataSize' = totalDataSize + n
    BY <2>1 DEF ResizePush
  <2> HIDE DEF acc
  <2> QED BY <1>8, <2>2, <2>3 DEF IsFull
<1>10. SubSeq(c, 1, L) = c
  BY <1>8, SubSeqFull
<1>11. GoodChain(blocks') /\ currSpace' = Len(blocks') /\ ContentsOf(blocks') = ContentsOf(c)
  <2>1. CASE b.space = BlockSize
    <3>1. \A i \in 1 .. Len(c) : c[i].space = BlockSize
      <4>1. \A i \in 1 .. Len(c) : i \in 1 .. Len(f) \/ i = L
        BY <1>2, <1>8
      <4> QED BY <1>1, <1>8, <2>1, <4>1
    <3>2. NewBlock.space # BlockSize
      BY NewBlockClean, BlockAssumption
    <3>3. GoodChain(Append(c, NewBlock)) /\ Len(Append(c, NewBlock)) = L + 1
      BY <1>8, <3>1, <3>2, NewBlockClean, GoodAppend
    <3>4. ContentsOf(Append(c, NewBlock)) = ContentsOf(c)
      <4>1. c \in Seq(CleanBlock)
        BY <1>8
      <4>2. ContentsOf(Append(c, NewBlock)) = ContentsOf(c) \o DataOf(NewBlock)
        BY <4>1, NewBlockClean, ContentsAppend
      <4>3. ContentsOf(c) \in Seq(Byte)
        BY <4>1, ContentsType
      <4>4. ContentsOf(c) \o <<>> = ContentsOf(c)
        BY <4>3, ConcatEmptySeq
      <4> QED BY <4>2, <4>4, NewBlockClean
    <3> QED BY <1>9, <1>10, <2>1, <3>3, <3>4
  <2>2. CASE b.space # BlockSize
    <3>1. GoodChain(c)
      BY <1>1, <1>4, <2>2, GoodAppend DEF c
    <3> QED BY <1>8, <1>9, <2>2, <3>1
  <2> QED BY <2>1, <2>2
<1>12. Contents = ContentsOf(f) \o DataOf(l)
  BY <1>1, ContentsAppend DEF Contents, ContentsOf
<1>13. ContentsOf(c) = Contents \o data
  <2>1. ContentsOf(f) \in Seq(Byte) /\ DataOf(l) \in Seq(Byte)
    BY ContentsType, DataOfClean
  <2>2. (ContentsOf(f) \o DataOf(l)) \o data = ContentsOf(f) \o (DataOf(l) \o data)
    BY <2>1, ConcatAssociative
  <2> QED BY <1>4, <1>8, <1>12, <2>2
<1>14. Contents \in Seq(Byte)
  BY ContentsType DEF Inv, GoodChain, Contents, ContentsOf
<1>15. Len(ContentsOf(c)) = totalDataSize + n
  BY <1>13, <1>14, ConcatProperties DEF Inv
<1>16. Contents' = ContentsOf(c)
  BY <1>11 DEF Contents, ContentsOf
<1>17. totalDataSize' \in 0 .. MaxBytes
  BY <1>3, <1>9 DEF Inv, TypeOK
<1> QED BY <1>9, <1>11, <1>13, <1>15, <1>16, <1>17, InvNext

-----------------------------------------------------------------------------
(* Bytes that are consumed *)

(* Bytes are taken of a block that has more. *)
LEMMA BlockConsume ==
  ASSUME NEW b \in CleanBlock, NEW n \in Nat, n < DataSize(b)
  PROVE  /\ BlockPop(b, n) \in CleanBlock
         /\ BlockPop(b, n).space = b.space
         /\ DataOf(BlockPop(b, n)) = Rest(DataOf(b), n)
<1> DEFINE p == BlockPop(b, n)
<1>1. /\ b \in Block /\ Clean(b)
      /\ b.data \in 0 .. Null /\ b.space \in 0 .. BlockSize
      /\ BlockSize \in Nat \ {0} /\ Null = BlockSize + 1
  BY BlockFacts DEF CleanBlock
<1>2. /\ DataOf(b) \in Seq(Byte) /\ Len(DataOf(b)) = DataSize(b)
      /\ b.data # Null /\ DataSize(b) = b.space - b.data
      /\ \A k \in 1 .. DataSize(b) : DataOf(b)[k] = b.bytes[b.data + k]
  BY DataOfClean
<1>3. b.data + n \in 0 .. BlockSize /\ b.data + n < b.space
  BY <1>1, <1>2
<1>4. p = [b EXCEPT !.data = b.data + n]
  BY DEF BlockPop
<1>5. p \in Block /\ p.data = b.data + n /\ p.space = b.space /\ p.bytes = b.bytes
  <2>1. b.data + n \in 0 .. Null
    BY <1>1, <1>3
  <2> HIDE DEF p
  <2> QED BY <1>1, <1>4, <2>1 DEF Block
<1> HIDE DEF p
<1>6. p \in CleanBlock
  BY <1>1, <1>2, <1>3, <1>5 DEF CleanBlock, Clean
<1>7. DataSize(p) = DataSize(b) - n
  BY <1>1, <1>2, <1>3, <1>5 DEF DataSize
<1>8. DataOf(p) = Rest(DataOf(b), n)
  <2> DEFINE x == DataOf(p)
             d == DataOf(b)
             y == Rest(d, n)
  <2>1. /\ x \in Seq(Byte) /\ Len(x) = DataSize(p)
        /\ \A k \in 1 .. DataSize(p) : x[k] = p.bytes[p.data + k]
    BY <1>6, DataOfClean
  <2> HIDE DEF x, d
  <2>2. /\ d \in Seq(Byte) /\ Len(d) = DataSize(b) /\ DataSize(b) \in Nat
        /\ \A k \in 1 .. DataSize(b) : d[k] = b.bytes[b.data + k]
    BY <1>2, LenProperties DEF d
  <2>3. n \in 0 .. Len(d)
    BY <2>2
  <2>4. /\ y \in Seq(Byte) /\ Len(y) = Len(d) - n
        /\ \A i \in 1 .. Len(d) - n : y[i] = d[n + i]
    BY <2>2, <2>3, RestProperties
  <2> HIDE DEF y
  <2>5. ASSUME NEW i \in 1 .. Len(x)
        PROVE  x[i] = y[i]
    <3>1. /\ i \in 1 .. DataSize(p) /\ i \in 1 .. Len(d) - n /\ n + i \in 1 .. DataSize(b)
          /\ (b.data + n) + i = b.data + (n + i)
      BY <1>1, <1>7, <2>1, <2>2
    <3> QED BY <1>5, <2>1, <2>2, <2>4, <3>1
  <2>6. x = y
    BY <1>7, <2>1, <2>2, <2>4, <2>5, SeqEqual
  <2> QED BY <2>6 DEF x, y, d
<1> QED BY <1>5, <1>6, <1>8 DEF p

(* A block is used up. *)
LEMMA BlockEmptied ==
  ASSUME NEW b \in CleanBlock, NEW n \in Nat, n >= DataSize(b)
  PROVE  /\ BlockPop(b, n) \in CleanBlock
         /\ IsEmpty(BlockPop(b, n))
         /\ DataOf(BlockPop(b, n)) = <<>>
<1> DEFINE p == BlockPop(b, n)
<1>1. /\ b \in Block
      /\ BlockSize \in Nat \ {0} /\ Null = BlockSize + 1 /\ DataSize(b) \in Nat
  BY BlockFacts, DataOfClean DEF CleanBlock
<1>2. p = [b EXCEPT !.data = Null, !.space = 0]
  BY <1>1 DEF BlockPop
<1>3. p \in Block /\ p.data = Null /\ p.space = 0
  <2>1. Null \in 0 .. Null /\ 0 \in 0 .. BlockSize
    BY <1>1
  <2> HIDE DEF p
  <2> QED BY <1>1, <1>2, <2>1 DEF Block
<1> HIDE DEF p
<1>4. p \in CleanBlock
  BY <1>3 DEF CleanBlock, Clean
<1>5. DataOf(p) \in Seq(Byte) /\ Len(DataOf(p)) = 0
  BY <1>3, <1>4, DataOfClean
<1> QED BY <1>3, <1>4, <1>5, EmptySeq DEF p, IsEmpty

(* A chain whose first block was used up. *)
EmptiedChain(c) ==
  /\ c \in Seq(CleanBlock) /\ c # <<>>
  /\ IsEmpty(Head(c))
  /\ Tail(c) # <<>> => GoodChain(Tail(c))

LEMMA GoodTail ==
  ASSUME NEW c, GoodChain(c), Tail(c) # <<>>
  PROVE  GoodChain(Tail(c))
<1> DEFINE r == Tail(c)
<1>1. /\ c \in Seq(CleanBlock) /\ Len(c) \in Nat
      /\ \A i \in 1 .. Len(c) : c[i].space = BlockSize <=> i < Len(c)
      /\ r \in Seq(CleanBlock) /\ Len(r) = Len(c) - 1
      /\ \A i \in 1 .. Len(r) : r[i] = c[i + 1]
  BY HeadTailProperties, LenProperties DEF GoodChain
<1> HIDE DEF r
<1>2. ASSUME NEW i \in 1 .. Len(r)
      PROVE  r[i].space = BlockSize <=> i < Len(r)
  <2>1. i + 1 \in 1 .. Len(c) /\ (i < Len(r) <=> i + 1 < Len(c)) /\ r[i] = c[i + 1]
    BY <1>1
  <2> QED BY <1>1, <2>1
<1>3. r # <<>>
  BY DEF r
<1>4. GoodChain(r)
  BY <1>1, <1>2, <1>3 DEF GoodChain
<1> QED BY <1>4 DEF r

(* The first block of a chain is replaced. *)
LEMMA HeadExcept ==
  ASSUME NEW E, NEW c \in Seq(E), c # <<>>, NEW e \in E
  PROVE  /\ [c EXCEPT ![1] = e] \in Seq(E) /\ [c EXCEPT ![1] = e] # <<>>
         /\ Len([c EXCEPT ![1] = e]) = Len(c)
         /\ Head([c EXCEPT ![1] = e]) = e
         /\ Tail([c EXCEPT ![1] = e]) = Tail(c)
         /\ \A i \in 1 .. Len(c) : [c EXCEPT ![1] = e][i] = IF i = 1 THEN e ELSE c[i]
<1> DEFINE d == [c EXCEPT ![1] = e]
           r == Tail(c)
           s == Tail(d)
<1>1. Len(c) \in Nat \ {0} /\ 1 \in 1 .. Len(c)
  BY EmptySeq
<1>2. /\ d \in Seq(E) /\ Len(d) = Len(c)
      /\ \A i \in 1 .. Len(c) : d[i] = IF i = 1 THEN e ELSE c[i]
  BY <1>1, ExceptSeq
<1> HIDE DEF d
<1>3. d # <<>>
  BY <1>1, <1>2, EmptySeq
<1>4. Head(d) = e
  BY <1>1, <1>2, <1>3
<1>5. r \in Seq(E) /\ Len(r) = Len(c) - 1 /\ \A i \in 1 .. Len(r) : r[i] = c[i + 1]
  BY HeadTailProperties
<1>6. s \in Seq(E) /\ Len(s) = Len(c) - 1 /\ \A i \in 1 .. Len(s) : s[i] = d[i + 1]
  BY <1>2, <1>3, HeadTailProperties
<1> HIDE DEF r, s
<1>7. \A i \in 1 .. Len(s) : s[i] = r[i]
  <2> SUFFICES ASSUME NEW i \in 1 .. Len(s) PROVE s[i] = r[i]
    OBVIOUS
  <2>1. i + 1 \in 1 .. Len(c) /\ i + 1 # 1 /\ i \in 1 .. Len(r)
    BY <1>1, <1>5, <1>6
  <2> QED BY <1>2, <1>5, <1>6, <2>1
<1>8. s = r
  BY <1>5, <1>6, <1>7, SeqEqual
<1> QED BY <1>2, <1>3, <1>4, <1>8 DEF d, r, s

(* One turn of the loop of resizePop on the first block: it keeps some     *)
(* data, or it is used up.                                                 *)
LEMMA PopFirst ==
  ASSUME NEW c, GoodChain(c), NEW n \in Nat \ {0}, n <= Len(ContentsOf(c)),
         NEW p, p = [c EXCEPT ![1] = BlockPop(@, n)]
  PROVE  LET taken == DataSize(Head(c)) IN
         /\ taken \in Nat \ {0}
         /\ p # <<>> /\ Len(p) = Len(c)
         /\ n < taken => /\ GoodChain(p)
                         /\ ContentsOf(p) = Rest(ContentsOf(c), n)
         /\ n >= taken => /\ EmptiedChain(p)
                          /\ ContentsOf(p) = Rest(ContentsOf(c), taken)
                          /\ Tail(p) = Tail(c)
                          /\ ContentsOf(Tail(p)) = ContentsOf(p)
                          /\ n > taken => Tail(p) # <<>>
<1> DEFINE b == Head(c)
           r == Tail(c)
           taken == DataSize(b)
           e == BlockPop(b, n)
           d == DataOf(b)
           rd == ContentsOf(r)
           cd == ContentsOf(c)
<1>1. /\ c \in Seq(CleanBlock) /\ c # <<>> /\ Len(c) \in Nat \ {0}
      /\ b \in CleanBlock /\ r \in Seq(CleanBlock) /\ b = c[1]
  BY HeadTailProperties, EmptySeq DEF GoodChain
<1>2. taken \in Nat \ {0}
  <2>1. taken \in Nat
    BY <1>1, DataOfClean, BlockFacts DEF CleanBlock
  <2>2. cd \in Seq(Byte) /\ Len(cd) \in Nat
    BY <1>1, ContentsType, LenProperties
  <2>3. taken > 0
    BY <2>2, HeadData
  <2> QED BY <2>1, <2>3
<1>3. /\ d \in Seq(Byte) /\ Len(d) = taken /\ rd \in Seq(Byte) /\ cd \in Seq(Byte)
      /\ cd = d \o rd
  BY <1>1, DataOfClean, ContentsType, ContentsHead
<1>4. p = [c EXCEPT ![1] = e]
  BY <1>1
<1>5. ASSUME e \in CleanBlock
      PROVE  /\ p \in Seq(CleanBlock) /\ p # <<>> /\ Len(p) = Len(c)
             /\ Head(p) = e /\ Tail(p) = r
             /\ \A i \in 1 .. Len(c) : p[i] = IF i = 1 THEN e ELSE c[i]
             /\ ContentsOf(p) = DataOf(e) \o rd
  <2> HIDE DEF e
  <2>1. /\ p \in Seq(CleanBlock) /\ p # <<>> /\ Len(p) = Len(c)
        /\ Head(p) = e /\ Tail(p) = r
        /\ \A i \in 1 .. Len(c) : p[i] = IF i = 1 THEN e ELSE c[i]
    BY <1>1, <1>4, <1>5, HeadExcept
  <2>2. ContentsOf(p) = DataOf(Head(p)) \o ContentsOf(Tail(p))
    BY <2>1, ContentsHead
  <2> QED BY <2>1, <2>2
<1>6. CASE n < taken
  <2>1. e \in CleanBlock /\ e.space = b.space /\ DataOf(e) = Rest(d, n)
    BY <1>1, <1>6, BlockConsume
  <2> HIDE DEF e, d, rd, cd
  <2>2. ContentsOf(p) = Rest(cd, n)
    <3>1. n \in 0 .. Len(d)
      BY <1>2, <1>3, <1>6
    <3>2. Rest(d \o rd, n) = Rest(d, n) \o rd
      BY <1>3, <3>1, RestConcat
    <3> QED BY <1>3, <1>5, <2>1, <3>2
  <2>3. \A i \in 1 .. Len(p) : p[i].space = c[i].space
    BY <1>1, <1>5, <2>1
  <2>4. GoodChain(p)
    BY <1>1, <1>5, <2>1, <2>3 DEF GoodChain
  <2> QED BY <1>2, <1>5, <1>6, <2>1, <2>2, <2>4 DEF cd
<1>7. CASE n >= taken
  <2>1. e \in CleanBlock /\ IsEmpty(e) /\ DataOf(e) = <<>>
    BY <1>1, <1>7, BlockEmptied
  <2> HIDE DEF e, rd, cd, d
  <2>2. ContentsOf(p) = rd
    BY <1>3, <1>5, <2>1, ConcatEmptySeq
  <2>3. Rest(cd, taken) = rd
    <3>1. taken \in 0 .. Len(d) /\ taken = Len(d)
      BY <1>2, <1>3
    <3>2. Rest(d \o rd, taken) = Rest(d, taken) \o rd
      BY <1>3, <3>1, RestConcat
    <3>3. Rest(d, taken) \in Seq(Byte) /\ Len(Rest(d, taken)) = 0
      BY <1>3, <3>1, RestProperties
    <3>4. Rest(d, taken) = <<>>
      BY <3>3, EmptySeq
    <3> QED BY <1>3, <3>2, <3>4, ConcatEmptySeq
  <2>4. EmptiedChain(p)
    BY <1>5, <2>1, GoodTail DEF EmptiedChain
  <2>5. n > taken => r # <<>>
    <3> SUFFICES ASSUME n > taken, r = <<>> PROVE FALSE
      OBVIOUS
    <3>1. rd = <<>>
      BY ContentsEmpty DEF rd
    <3>2. cd = d
      BY <1>3, <3>1, ConcatEmptySeq
    <3> QED BY <1>2, <1>3, <3>2 DEF cd
  <2>6. ContentsOf(Tail(p)) = ContentsOf(p)
    BY <1>5, <2>1, <2>2 DEF rd
  <2> QED BY <1>2, <1>5, <1>7, <2>1, <2>2, <2>3, <2>4, <2>5, <2>6 DEF cd
<1>8. n < taken \/ n >= taken
  BY <1>2
<1> QED BY <1>6, <1>7, <1>8

(* What resizePop has done after i turns of its loop: as long as bytes are *)
(* left to take, i blocks are gone.                                        *)
Popped(acc, n, i) ==
  /\ acc = [blocks |-> acc.blocks, left |-> acc.left, space |-> acc.space]
  /\ acc.left \in 0 .. n
  /\ acc.blocks # <<>> /\ acc.space = Len(acc.blocks)
  /\ ContentsOf(acc.blocks) = Rest(Contents, n - acc.left)
  /\ acc.left > 0 => GoodChain(acc.blocks) /\ Len(acc.blocks) = Len(blocks) - i
  /\ acc.left = 0 => GoodChain(acc.blocks) \/ EmptiedChain(acc.blocks)

LEMMA PoppedNext ==
  ASSUME Inv, NEW n \in 1 .. totalDataSize, NEW i \in Nat,
         NEW acc, Popped(acc, n, i)
  PROVE  Popped(ReleaseBlock(acc), n, i + 1)
<1> DEFINE c == acc.blocks
           left == acc.left
           next == ReleaseBlock(acc)
<1>1. /\ Contents \in Seq(Byte) /\ Len(Contents) = totalDataSize /\ n \in Nat \ {0}
      /\ n <= Len(Contents)
  BY ContentsType DEF Inv, GoodChain, Contents, ContentsOf, TypeOK
<1>2. left \in 0 .. n
  BY DEF Popped
<1>3. CASE left = 0
  <2>1. next = acc
    BY <1>3 DEF ReleaseBlock
  <2> QED BY <1>3, <2>1 DEF Popped
<1>4. CASE left # 0
  <2>1. /\ left \in Nat \ {0} /\ left <= n /\ n - left \in 0 .. Len(Contents)
        /\ GoodChain(c) /\ Len(c) = Len(blocks) - i
        /\ acc.space = Len(c)
        /\ ContentsOf(c) = Rest(Contents, n - left)
    BY <1>1, <1>2, <1>4 DEF Popped
  <2>2. Len(ContentsOf(c)) = Len(Contents) - (n - left)
    BY <1>1, <2>1, RestProperties
  <2>3. left <= Len(ContentsOf(c))
    BY <1>1, <2>1, <2>2
  <2> DEFINE taken == DataSize(Head(c))
             p == [c EXCEPT ![1] = BlockPop(@, left)]
             popped == [blocks |-> p, left |-> left - Min({left, taken}), space |-> acc.space]
  <2>4. next = IF left - Min({left, taken}) > 0 THEN NextBlock(popped) ELSE popped
    BY <1>4 DEF ReleaseBlock
  <2>5. /\ taken \in Nat \ {0}
        /\ p # <<>> /\ Len(p) = Len(c)
        /\ left < taken => GoodChain(p) /\ ContentsOf(p) = Rest(ContentsOf(c), left)
        /\ left >= taken => /\ EmptiedChain(p)
                            /\ ContentsOf(p) = Rest(ContentsOf(c), taken)
                            /\ Tail(p) = Tail(c)
                            /\ ContentsOf(Tail(p)) = ContentsOf(p)
                            /\ left > taken => Tail(p) # <<>>
    <3> HIDE DEF c, left
    <3> QED BY <2>1, <2>3, PopFirst
  <2> HIDE DEF p, c, left, taken
  <2>6. \A m \in Nat : m <= left => Rest(ContentsOf(c), m) = Rest(Contents, n - (left - m))
    <3> SUFFICES ASSUME NEW m \in Nat, m <= left
                 PROVE  Rest(ContentsOf(c), m) = Rest(Contents, n - (left - m))
      OBVIOUS
    <3> DEFINE k == n - left
    <3>1. k \in Nat /\ k + m <= Len(Contents) /\ n - (left - m) = k + m
      BY <1>1, <2>1
    <3> HIDE DEF k
    <3>2. Rest(Rest(Contents, k), m) = Rest(Contents, k + m)
      BY <1>1, <3>1, RestRest
    <3> QED BY <2>1, <3>1, <3>2 DEF k
  <2>7. CASE left < taken
    <3>1. Min({left, taken}) = left
      BY <2>1, <2>5, <2>7, MinOfTwo
    <3>2. next = [blocks |-> p, left |-> 0, space |-> acc.space]
      BY <2>1, <2>4, <3>1
    <3>3. ContentsOf(p) = Rest(Contents, n - 0)
      <4>1. left - left = 0 /\ left <= left
        BY <2>1
      <4> QED BY <2>1, <2>5, <2>6, <2>7, <4>1
    <3> HIDE DEF next
    <3>4. Popped(next, n, i + 1)
      BY <1>1, <2>1, <2>5, <2>7, <3>2, <3>3 DEF Popped
    <3> QED BY <3>4 DEF next
  <2>8. CASE left >= taken
    <3>1. Min({left, taken}) = taken
      BY <2>1, <2>5, <2>8, MinOfTwo
    <3> DEFINE rest == left - taken
    <3>2. rest \in 0 .. n /\ (rest > 0 <=> left > taken)
      BY <1>1, <2>1, <2>5, <2>8
    <3>3. ContentsOf(p) = Rest(Contents, n - rest)
      BY <2>5, <2>6, <2>8
    <3>4. popped = [blocks |-> p, left |-> rest, space |-> acc.space]
      BY <3>1
    <3> HIDE DEF rest, popped
    <3>5. CASE rest = 0
      <4>1. next = [blocks |-> p, left |-> rest, space |-> acc.space]
        <5>1. ~(left - Min({left, taken}) > 0)
          BY <3>1, <3>5 DEF rest
        <5> QED BY <2>4, <3>4, <5>1
      <4> HIDE DEF next
      <4>2. Popped(next, n, i + 1)
        BY <2>1, <2>5, <2>8, <3>2, <3>3, <3>5, <4>1 DEF Popped
      <4> QED BY <4>2 DEF next
    <3>6. CASE rest > 0
      <4>1. next = [blocks |-> Tail(p), left |-> rest,
                    space |-> IF acc.space = 1 THEN 1 ELSE acc.space - 1]
        <5>1. next = NextBlock(popped)
          BY <2>4, <3>1, <3>6 DEF rest
        <5> HIDE DEF next
        <5> QED BY <3>4, <5>1 DEF NextBlock
      <4>2. Tail(p) # <<>> /\ GoodChain(Tail(p))
        BY <2>5, <2>8, <3>2, <3>6 DEF EmptiedChain
      <4>3. Len(Tail(p)) = Len(c) - 1 /\ Len(Tail(p)) \in Nat \ {0} /\ Len(c) \in Nat
        <5>1. p \in Seq(CleanBlock) /\ p # <<>>
          BY <2>5, <2>8 DEF EmptiedChain
        <5>2. Len(Tail(p)) = Len(p) - 1 /\ Tail(p) \in Seq(CleanBlock)
          BY <5>1, HeadTailProperties
        <5>3. Len(Tail(p)) \in Nat \ {0} /\ Len(p) \in Nat
          BY <4>2, <5>1, <5>2, EmptySeq
        <5> QED BY <2>5, <5>2, <5>3
      <4>4. (IF acc.space = 1 THEN 1 ELSE acc.space - 1) = Len(Tail(p))
        <5>1. acc.space = Len(c)
          BY <2>1
        <5>2. Len(c) \in Nat /\ Len(c) # 1 /\ Len(c) - 1 = Len(Tail(p))
          BY <4>3
        <5> QED BY ONLY <5>1, <5>2
      <4>5. Len(Tail(p)) = Len(blocks) - (i + 1)
        <5>1. Len(blocks) \in Nat
          BY LenProperties DEF Inv, GoodChain
        <5> QED BY <2>1, <4>3, <5>1
      <4>6. ContentsOf(Tail(p)) = Rest(Contents, n - rest)
        BY <2>5, <2>8, <3>3
      <4>7. next = [blocks |-> Tail(p), left |-> rest, space |-> Len(Tail(p))]
        BY <4>1, <4>4
      <4> HIDE DEF next
      <4>8. Popped(next, n, i + 1)
        BY <3>2, <3>6, <4>2, <4>5, <4>6, <4>7 DEF Popped
      <4> QED BY <4>8 DEF next
    <3> QED BY <3>2, <3>5, <3>6
  <2> QED BY <2>1, <2>5, <2>7, <2>8
<1> QED BY <1>3, <1>4

(* released[i] is what resizePop has done after i turns. *)
Releases(n, m, released) ==
  released = [i \in 0 .. m |->
                IF i = 0 THEN [blocks |-> blocks, left |-> n, space |-> currSpace]
                ELSE ReleaseBlock(released[i - 1])]

LEMMA ReleasesExists ==
  ASSUME NEW n, NEW m \in Nat
  PROVE  \E f : Releases(n, m, f)
<1> DEFINE T == {k \in Nat : \E f : Releases(n, k, f)}
           base == [blocks |-> blocks, left |-> n, space |-> currSpace]
<1>1. 0 \in T
  <2>1. Releases(n, 0, [i \in 0 .. 0 |-> base])
    BY DEF Releases
  <2> QED BY <2>1
<1>2. ASSUME NEW k \in Nat, k \in T
      PROVE  k + 1 \in T
  <2>1. PICK f : Releases(n, k, f)
    BY <1>2
  <2> DEFINE g == [i \in 0 .. k + 1 |-> IF i = 0 THEN base ELSE ReleaseBlock(f[i - 1])]
  <2> HIDE DEF base
  <2>2. \A i \in 0 .. k : i \in 0 .. k + 1
    OBVIOUS
  <2>3. \A i \in 0 .. k : g[i] = f[i]
    BY <2>1, <2>2, Zenon DEF Releases, base
  <2>4. \A i \in 0 .. k + 1 : i # 0 => i - 1 \in 0 .. k
    OBVIOUS
  <2>5. Releases(n, k + 1, g)
    BY <2>3, <2>4, Zenon DEF Releases, base
  <2> QED BY <2>5
<1>3. Nat \subseteq T
  BY <1>1, <1>2, NatInductive
<1> QED BY <1>3

LEMMA ReleaseLast ==
  ASSUME NEW n, Len(blocks) \in Nat
  PROVE  \E f : Releases(n, Len(blocks), f) /\ Release(n) = f[Len(blocks)]
<1> DEFINE f == CHOOSE f : Releases(n, Len(blocks), f)
<1>1. Releases(n, Len(blocks), f)
  BY ReleasesExists
<1>2. Release(n) = f[Len(blocks)]
  BY DEF Release, Releases
<1> QED BY <1>1, <1>2

(* All that is to be taken is taken before the blocks are used up. *)
LEMMA ReleaseEnds ==
  ASSUME Inv, NEW n \in 1 .. totalDataSize
  PROVE  LET acc == Release(n) IN
         /\ acc = [blocks |-> acc.blocks, left |-> 0, space |-> Len(acc.blocks)]
         /\ ContentsOf(acc.blocks) = Rest(Contents, n)
         /\ GoodChain(acc.blocks) \/ EmptiedChain(acc.blocks)
<1>1. /\ blocks \in Seq(CleanBlock) /\ blocks # <<>> /\ Len(blocks) \in Nat \ {0}
      /\ Contents \in Seq(Byte) /\ n \in Nat \ {0}
  BY ContentsType, EmptySeq DEF Inv, GoodChain, Contents, ContentsOf, TypeOK
<1>2. PICK f : Releases(n, Len(blocks), f) /\ Release(n) = f[Len(blocks)]
  BY <1>1, ReleaseLast
<1> DEFINE T == {i \in Nat : i <= Len(blocks) => Popped(f[i], n, i)}
<1>3. 0 \in T
  <2>1. 0 \in 0 .. Len(blocks)
    BY <1>1
  <2>2. f[0] = [blocks |-> blocks, left |-> n, space |-> currSpace]
    BY <1>2, <2>1 DEF Releases
  <2>3. n - n = 0 /\ n \in 0 .. n /\ Len(blocks) - 0 = Len(blocks) /\ n # 0
    BY <1>1
  <2>4. ContentsOf(blocks) = Rest(Contents, n - n)
    BY <1>1, <2>3, RestNone DEF Contents, ContentsOf
  <2>5. Popped(f[0], n, 0)
    BY <1>1, <2>2, <2>3, <2>4 DEF Popped, Inv
  <2> QED BY <2>5
<1>4. ASSUME NEW i \in Nat, i \in T
      PROVE  i + 1 \in T
  <2> SUFFICES ASSUME i + 1 <= Len(blocks) PROVE Popped(f[i + 1], n, i + 1)
    OBVIOUS
  <2>1. i + 1 \in 0 .. Len(blocks) /\ i + 1 # 0 /\ (i + 1) - 1 = i /\ i <= Len(blocks)
    BY <1>1
  <2>2. f[i + 1] = ReleaseBlock(f[i])
    BY <1>2, <2>1 DEF Releases
  <2>3. Popped(f[i], n, i)
    BY <1>4, <2>1
  <2> QED BY <2>2, <2>3, PoppedNext
<1>5. Popped(f[Len(blocks)], n, Len(blocks))
  <2>1. Nat \subseteq T
    BY <1>3, <1>4, NatInductive
  <2> QED BY <1>1, <2>1
<1> DEFINE acc == f[Len(blocks)]
<1> HIDE DEF acc
<1>6. Popped(acc, n, Len(blocks))
  BY <1>5 DEF acc
<1>7. acc.left = 0
  <2> SUFFICES ASSUME acc.left # 0 PROVE FALSE
    OBVIOUS
  <2>1. GoodChain(acc.blocks) /\ Len(acc.blocks) = Len(blocks) - Len(blocks)
    BY <1>1, <1>6 DEF Popped
  <2>2. Len(acc.blocks) \in Nat \ {0}
    BY <2>1, EmptySeq DEF GoodChain
  <2> QED BY <1>1, <2>1, <2>2
<1>8. n - 0 = n
  BY <1>1
<1> QED BY <1>2, <1>6, <1>7, <1>8 DEF Popped, acc

LEMMA ConsumeStep ==
  ASSUME Inv, NEW n, Consume(n)
  PROVE  /\ Inv'
         /\ n \in 1 .. Len(Contents)
         /\ Contents' = Rest(Contents, n)
<1> DEFINE acc == Release(n)
           c == acc.blocks
           next == IF IsEmpty(Head(c)) /\ Len(c) > 1 THEN NextBlock(acc) ELSE acc
<1>1. /\ n \in 1 .. totalDataSize /\ totalDataSize \in 0 .. MaxBytes
      /\ blocks' = next.blocks /\ currSpace' = next.space
      /\ totalDataSize' = totalDataSize - n
  BY DEF Consume, ResizePop, Inv, TypeOK
<1>2. /\ acc = [blocks |-> c, left |-> 0, space |-> Len(c)]
      /\ ContentsOf(c) = Rest(Contents, n)
      /\ GoodChain(c) \/ EmptiedChain(c)
  BY <1>1, ReleaseEnds
<1>3. /\ Contents \in Seq(Byte) /\ Len(Contents) = totalDataSize /\ n \in 0 .. Len(Contents)
  BY <1>1, ContentsType DEF Inv, GoodChain, Contents, ContentsOf
<1> HIDE DEF acc, c
<1>4. /\ c \in Seq(CleanBlock) /\ c # <<>> /\ Len(c) \in Nat \ {0}
      /\ Head(c) \in CleanBlock /\ Head(c) = c[1] /\ Tail(c) \in Seq(CleanBlock)
      /\ Len(Tail(c)) = Len(c) - 1
  <2>1. c \in Seq(CleanBlock) /\ c # <<>>
    BY <1>2 DEF GoodChain, EmptiedChain
  <2> QED BY <2>1, EmptySeq, HeadTailProperties
<1>5. GoodChain(next.blocks) /\ next.space = Len(next.blocks)
      /\ ContentsOf(next.blocks) = ContentsOf(c)
  <2>1. CASE IsEmpty(Head(c)) /\ Len(c) > 1
    <3>1. next.blocks = Tail(c) /\ next.space = Len(c) - 1
      <4>1. next = NextBlock(acc)
        BY <2>1
      <4>2. Len(c) # 1
        BY <2>1, <1>4
      <4> HIDE DEF next
      <4> QED BY <1>2, <4>1, <4>2 DEF NextBlock
    <3>2. Tail(c) # <<>>
      <4>1. Len(<<>>) = 0
        BY EmptySeq
      <4>2. Len(Tail(c)) # 0
        BY <1>4, <2>1
      <4> QED BY <4>1, <4>2
    <3>3. GoodChain(Tail(c))
      BY <1>2, <3>2, GoodTail DEF EmptiedChain
    <3>4. DataOf(Head(c)) = <<>>
      <4>1. Head(c).data = Null
        BY <2>1 DEF IsEmpty
      <4>2. DataOf(Head(c)) \in Seq(Byte) /\ Len(DataOf(Head(c))) = 0
        BY <1>4, <4>1, DataOfClean
      <4> QED BY <4>2, EmptySeq
    <3>5. ContentsOf(c) = ContentsOf(Tail(c))
      BY <1>4, <3>4, ContentsHead, ContentsType, ConcatEmptySeq
    <3> HIDE DEF next
    <3> QED BY <1>4, <3>1, <3>3, <3>5
  <2>2. CASE ~(IsEmpty(Head(c)) /\ Len(c) > 1)
    <3>1. next.blocks = c /\ next.space = Len(c)
      BY <1>2, <2>2
    <3>2. GoodChain(c)
      <4> SUFFICES ASSUME EmptiedChain(c) PROVE GoodChain(c)
        BY <1>2
      <4>1. Len(c) = 1 /\ Head(c).space = 0
        BY <1>4, <2>2 DEF EmptiedChain, IsEmpty
      <4>2. \A i \in 1 .. Len(c) : c[i].space = BlockSize <=> i < Len(c)
        BY <1>4, <4>1, BlockAssumption
      <4> QED BY <1>4, <4>2 DEF GoodChain
    <3> HIDE DEF next
    <3> QED BY <3>1, <3>2
  <2> QED BY <2>1, <2>2
<1> HIDE DEF next
<1>6. Contents' = ContentsOf(next.blocks)
  BY <1>1 DEF Contents, ContentsOf
<1>7. Len(Rest(Contents, n)) = totalDataSize - n
  BY <1>3, RestProperties
<1>8. totalDataSize - n \in 0 .. MaxBytes
  BY <1>1, BlockAssumption
<1>9. totalDataSize' = Len(ContentsOf(blocks')) /\ totalDataSize' \in 0 .. MaxBytes
      /\ GoodChain(blocks') /\ currSpace' = Len(blocks')
  BY <1>1, <1>2, <1>5, <1>7, <1>8
<1>10. Inv'
  BY <1>9, InvNext
<1> QED BY <1>1, <1>2, <1>3, <1>5, <1>6, <1>10

(* The chain a BlockBuffer starts with. *)
LEMMA NewChain == GoodChain(<<NewBlock>>) /\ Len(<<NewBlock>>) = 1
<1>1. <<>> \in Seq(CleanBlock) /\ Len(<<>>) = 0 /\ <<NewBlock>> = Append(<<>>, NewBlock)
  BY EmptySeq
<1>2. NewBlock \in CleanBlock /\ NewBlock.space # BlockSize
  BY NewBlockClean, BlockAssumption
<1>3. \A i \in 1 .. Len(<<>>) : <<>>[i].space = BlockSize
  BY <1>1
<1>4. GoodChain(Append(<<>>, NewBlock))
  BY <1>1, <1>2, <1>3, GoodAppend
<1> QED BY <1>1, <1>4

LEMMA ClearAllStep ==
  ASSUME Inv, ClearAll
  PROVE  /\ Inv'
         /\ Len(Contents) > 0
         /\ Contents' = <<>>
<1>1. blocks' = <<NewBlock>> /\ currSpace' = 1 /\ totalDataSize' = 0 /\ totalDataSize > 0
  BY DEF ClearAll
<1>2. GoodChain(blocks') /\ Len(blocks') = 1
  BY <1>1, NewChain
<1>3. ContentsOf(blocks') = <<>>
  BY <1>1, NewBlockClean, ContentsOne
<1>4. Contents' = ContentsOf(blocks')
  BY DEF Contents, ContentsOf
<1>5. Len(ContentsOf(blocks')) = 0 /\ 0 \in 0 .. MaxBytes
  BY <1>3, EmptySeq, BlockAssumption
<1>6. Inv'
  BY <1>1, <1>2, <1>5, InvNext
<1> QED BY <1>1, <1>3, <1>4, <1>6 DEF Inv

LEMMA InitInv ==
  ASSUME Init
  PROVE  Inv /\ Contents = <<>>
<1>1. blocks = <<NewBlock>> /\ currSpace = 1 /\ totalDataSize = 0
  BY DEF Init
<1>2. GoodChain(blocks) /\ Len(blocks) = 1
  BY <1>1, NewChain
<1>3. Contents = <<>>
  BY <1>1, NewBlockClean, ContentsOne DEF Contents, ContentsOf
<1>4. TypeOK
  <2>1. CleanBlock \subseteq Block
    BY DEF CleanBlock
  <2>2. blocks \in Seq(Block)
    BY <1>2, <2>1, SeqMonotonic, Zenon DEF GoodChain
  <2> QED BY <1>1, <1>2, <2>2, BlockAssumption, LenProperties DEF TypeOK, GoodChain
<1> QED BY <1>1, <1>2, <1>3, <1>4, EmptySeq DEF Inv

-----------------------------------------------------------------------------
(* A message that is printed *)

Cells == Byte \cup {Garbage}

(* Products with the size of a block. *)
LEMMA BlockProducts ==
  /\ BlockSize \in Nat \ {0} /\ HeaderSize \in Nat \ {0} /\ HeaderSize < BlockSize
  /\ \A q \in Nat : BlockSize * q \in Nat /\ BlockSize * (q + 1) = BlockSize * q + BlockSize
  /\ \A q, r \in Nat : q < r => BlockSize * q + BlockSize <= BlockSize * r
  /\ \A n \in Nat : /\ n \div BlockSize \in Nat
                    /\ BlockSize * (n \div BlockSize) <= n
                    /\ n < BlockSize * (n \div BlockSize) + BlockSize
<1>1. /\ BlockSize \in Nat \ {0} /\ HeaderSize \in Nat \ {0} /\ HeaderSize < BlockSize
  BY BlockAssumption
<1>2. \A q \in Nat : BlockSize * q \in Nat /\ BlockSize * (q + 1) = BlockSize * q + BlockSize
  BY <1>1
<1>3. \A q, r \in Nat : q < r => BlockSize * q + BlockSize <= BlockSize * r
  BY <1>1
<1>4. \A n \in Nat : n \div BlockSize \in Nat
  BY <1>1
<1>5. \A n \in Nat : BlockSize * (n \div BlockSize) <= n
  BY <1>1
<1>6. \A n \in Nat : n < BlockSize * (n \div BlockSize) + BlockSize
  BY <1>1
<1> QED BY <1>1, <1>2, <1>3, <1>4, <1>5, <1>6

(* Blocks that append() wrote and resizePush has not claimed yet. *)
Fresh(c) ==
  /\ c \in Seq(Block) /\ c # <<>>
  /\ \A i \in 1 .. Len(c) : c[i].data = Null /\ c[i].space = 0

(* The text is in the space of the chain, which has room behind it in its  *)
(* last block only.                                                        *)
Drafted(c, text) ==
  /\ Fresh(c)
  /\ text \in Seq(Cells)
  /\ BlockSize * (Len(c) - 1) <= Len(text) /\ Len(text) < BlockSize * Len(c)
  /\ \A i \in 1 .. Len(c), k \in 1 .. BlockSize :
       BlockSize * (i - 1) + k <= Len(text) =>
         c[i].bytes[k] = text[BlockSize * (i - 1) + k]

LEMMA OverwriteFacts ==
  ASSUME NEW b \in Block, NEW data \in Seq(Cells), NEW at \in Int
  PROVE  LET w == Overwrite(b, data, at) IN
         /\ w \in Block /\ w.data = b.data /\ w.space = b.space
         /\ \A k \in 1 .. BlockSize :
              w.bytes[k] = IF k - at \in 1 .. Len(data) THEN data[k - at] ELSE b.bytes[k]
<1> DEFINE bytes == [i \in 1 .. BlockSize |->
                       IF i - at \in DOMAIN data THEN data[i - at] ELSE b.bytes[i]]
           w == Overwrite(b, data, at)
<1>1. /\ DOMAIN data = 1 .. Len(data) /\ \A k \in 1 .. Len(data) : data[k] \in Cells
      /\ b.bytes \in [1 .. BlockSize -> Cells]
  BY BlockFacts, LenProperties, ElementOfSeq DEF Cells
<1>2. bytes \in [1 .. BlockSize -> Cells]
  BY <1>1
<1>3. w = [b EXCEPT !.bytes = bytes]
  BY DEF Overwrite
<1>4. \A k \in 1 .. BlockSize :
        bytes[k] = IF k - at \in 1 .. Len(data) THEN data[k - at] ELSE b.bytes[k]
  BY <1>1
<1> HIDE DEF bytes, w
<1>5. w \in Block /\ w.data = b.data /\ w.space = b.space /\ w.bytes = bytes
  BY <1>2, <1>3 DEF Block, Cells
<1> QED BY <1>4, <1>5 DEF w

(* As long as nothing is claimed every block has its whole size as space. *)
Spaces(c, i, space) ==
  space = [j \in currSpace - 1 .. i |->
             IF j = currSpace - 1 THEN 0 ELSE space[j - 1] + SpaceSize(c[j])]

LEMMA SpaceOfFresh ==
  ASSUME currSpace = 1, NEW c, Fresh(c), NEW i \in 0 .. Len(c)
  PROVE  SpaceUpTo(c, i) = BlockSize * i
<1> DEFINE g == [j \in 0 .. i |-> BlockSize * j]
           f == CHOOSE f : Spaces(c, i, f)
<1>0. Len(c) \in Nat /\ currSpace - 1 = 0
  BY LenProperties DEF Fresh
<1>1. \A j \in 1 .. i : SpaceSize(c[j]) = BlockSize
  BY <1>0, BlockProducts DEF Fresh, SpaceSize
<1>2. Spaces(c, i, g)
  <2>1. g[0] = 0
    BY <1>0, BlockProducts
  <2>2. \A j \in 0 .. i : j # 0 => /\ j - 1 \in 0 .. i /\ j \in 1 .. i /\ j - 1 \in Nat
                                   /\ (j - 1) + 1 = j
    BY <1>0
  <2>3. \A j \in 0 .. i : j # 0 => g[j] = g[j - 1] + SpaceSize(c[j])
    <3> SUFFICES ASSUME NEW j \in 0 .. i, j # 0 PROVE g[j] = g[j - 1] + SpaceSize(c[j])
      OBVIOUS
    <3>1. g[j] = BlockSize * j /\ g[j - 1] = BlockSize * (j - 1)
      BY <2>2
    <3>2. BlockSize * ((j - 1) + 1) = BlockSize * (j - 1) + BlockSize
      BY <2>2, BlockProducts
    <3> HIDE DEF g
    <3> QED BY <1>1, <2>2, <3>1, <3>2
  <2>4. g = [j \in 0 .. i |-> g[j]]
    OBVIOUS
  <2> HIDE DEF g
  <2>5. g = [j \in 0 .. i |-> IF j = 0 THEN 0 ELSE g[j - 1] + SpaceSize(c[j])]
    BY <2>1, <2>3, <2>4, Zenon
  <2> QED BY <1>0, <2>5 DEF Spaces
<1>3. Spaces(c, i, f)
  BY <1>2
<1>4. SpaceUpTo(c, i) = f[i]
  BY DEF SpaceUpTo, Spaces
<1> HIDE DEF f
<1>5. f = [j \in 0 .. i |-> IF j = 0 THEN 0 ELSE f[j - 1] + SpaceSize(c[j])]
  BY <1>0, <1>3 DEF Spaces
<1>6. g = [j \in 0 .. i |-> IF j = 0 THEN 0 ELSE g[j - 1] + SpaceSize(c[j])]
  <2> HIDE DEF g
  <2> QED BY <1>0, <1>2 DEF Spaces
<1> HIDE DEF g
<1>7. f[0] = g[0]
  <2>1. 0 \in 0 .. i
    BY <1>0
  <2>2. f[0] = 0
    BY <1>5, <2>1
  <2>3. g[0] = 0
    BY <1>6, <2>1
  <2> QED BY <2>2, <2>3
<1> DEFINE T == {k \in Nat : k <= i => f[k] = g[k]}
<1>8. ASSUME NEW k \in Nat, k \in T
      PROVE  k + 1 \in T
  <2> SUFFICES ASSUME k + 1 <= i PROVE f[k + 1] = g[k + 1]
    OBVIOUS
  <2>1. k + 1 \in 0 .. i /\ k + 1 # 0 /\ (k + 1) - 1 = k /\ k <= i
    BY <1>0
  <2>2. f[k + 1] = f[k] + SpaceSize(c[k + 1])
    BY <1>5, <2>1
  <2>3. g[k + 1] = g[k] + SpaceSize(c[k + 1])
    BY <1>6, <2>1
  <2> QED BY <1>8, <2>1, <2>2, <2>3
<1>9. Nat \subseteq T
  <2>1. 0 \in T
    BY <1>7
  <2> HIDE DEF T
  <2> QED BY <1>8, <2>1, NatInductive
<1>10. f[i] = g[i] /\ g[i] = BlockSize * i
  <2>1. i \in Nat /\ i <= i /\ i \in 0 .. i
    BY <1>0
  <2> QED BY <1>9, <2>1 DEF g
<1> QED BY <1>4, <1>10

(* Where a byte of the text is. *)
LEMMA LocateInFresh ==
  ASSUME currSpace = 1, NEW c, Fresh(c), NEW o \in Nat, NEW i \in 1 .. Len(c),
         BlockSize * (i - 1) <= o, o < BlockSize * i
  PROVE  Locate(c, o) = [block |-> i, at |-> o - BlockSize * (i - 1)]
<1> DEFINE P(j) == SpaceUpTo(c, j - 1) <= o /\ o < SpaceUpTo(c, j)
           found == CHOOSE j \in currSpace .. Len(c) : P(j)
<1>0. Len(c) \in Nat /\ i \in Nat \ {0} /\ i - 1 \in Nat
  BY LenProperties DEF Fresh
<1>1. \A j \in 1 .. Len(c) : /\ SpaceUpTo(c, j) = BlockSize * j
                             /\ SpaceUpTo(c, j - 1) = BlockSize * (j - 1)
  <2>1. \A j \in 1 .. Len(c) : j \in 0 .. Len(c) /\ j - 1 \in 0 .. Len(c)
    BY <1>0
  <2>2. \A j \in 0 .. Len(c) : SpaceUpTo(c, j) = BlockSize * j
    BY SpaceOfFresh
  <2> QED BY <2>1, <2>2
<1>2. P(i)
  BY <1>1
<1>3. found \in 1 .. Len(c) /\ P(found)
  <2> HIDE DEF P
  <2> QED BY <1>2
<1>4. BlockSize * (found - 1) <= o /\ o < BlockSize * found
  BY <1>1, <1>3
<1> HIDE DEF found
<1>5. found = i
  <2>1. found \in Nat /\ found - 1 \in Nat /\ (found - 1) + 1 = found /\ (i - 1) + 1 = i
    BY <1>0, <1>3
  <2>2. BlockSize * found = BlockSize * (found - 1) + BlockSize
        /\ BlockSize * i = BlockSize * (i - 1) + BlockSize
        /\ BlockSize * found \in Nat /\ BlockSize * i \in Nat
        /\ BlockSize * (found - 1) \in Nat /\ BlockSize * (i - 1) \in Nat
    BY <1>0, <2>1, BlockProducts
  <2>3. ~(found < i)
    <3> SUFFICES ASSUME found < i PROVE FALSE
      OBVIOUS
    <3>1. found - 1 < i - 1
      BY <1>0, <2>1
    <3>2. BlockSize * (found - 1) + BlockSize <= BlockSize * (i - 1)
      BY <1>0, <2>1, <3>1, BlockProducts
    <3> QED BY <1>4, <2>2, <3>2
  <2>4. ~(i < found)
    <3> SUFFICES ASSUME i < found PROVE FALSE
      OBVIOUS
    <3>1. i - 1 < found - 1
      BY <1>0, <2>1
    <3>2. BlockSize * (i - 1) + BlockSize <= BlockSize * (found - 1)
      BY <1>0, <2>1, <3>1, BlockProducts
    <3> QED BY <1>4, <2>2, <3>2
  <2> QED BY <1>0, <2>1, <2>3, <2>4
<1>6. c[i].space = 0
  BY DEF Fresh
<1>7. Locate(c, o) = [block |-> found, at |-> c[found].space + o - SpaceUpTo(c, found - 1)]
  BY DEF Locate, found
<1>8. 0 + o - BlockSize * (i - 1) = o - BlockSize * (i - 1)
  BY <1>0, BlockProducts
<1> QED BY <1>1, <1>5, <1>6, <1>7, <1>8

(* A chain whose last block is replaced by a chain. *)
LEMMA ReplaceLast ==
  ASSUME NEW E, NEW c \in Seq(E), c # <<>>, NEW d \in Seq(E)
  PROVE  LET r == SubSeq(c, 1, Len(c) - 1) \o d IN
         /\ r \in Seq(E)
         /\ Len(r) = Len(c) - 1 + Len(d)
         /\ \A i \in 1 .. Len(c) - 1 + Len(d) :
              r[i] = IF i <= Len(c) - 1 THEN c[i] ELSE d[i - (Len(c) - 1)]
<1> DEFINE n == Len(c) - 1
           s == SubSeq(c, 1, n)
           r == s \o d
<1>1. /\ n \in Nat /\ Len(d) \in Nat /\ Len(c) = n + 1
      /\ \A i \in 1 .. n : c[i] \in E
  BY EmptySeq, LenProperties, ElementOfSeq
<1>2. s \in Seq(E) /\ Len(s) = n /\ \A i \in 1 .. n : s[i] = c[i]
  <2>1. n - 1 + 1 = n /\ \A i \in 1 .. n : 1 + i - 1 = i
    BY <1>1
  <2>2. s \in Seq(E) /\ Len(s) = (IF 1 <= n THEN n - 1 + 1 ELSE 0)
        /\ \A i \in 1 .. n - 1 + 1 : s[i] = c[1 + i - 1]
    <3> HIDE DEF n
    <3>1. n \in Int /\ 1 \in Int
      BY <1>1
    <3> QED BY <1>1, <3>1, SubSeqProperties
  <2> HIDE DEF s, n
  <2> QED BY <1>1, <2>1, <2>2
<1> HIDE DEF s, n
<1>3. /\ r \in Seq(E) /\ Len(r) = Len(s) + Len(d)
      /\ \A i \in 1 .. Len(s) + Len(d) : r[i] = IF i <= Len(s) THEN s[i] ELSE d[i - Len(s)]
  BY <1>2, ConcatProperties
<1> HIDE DEF r
<1>4. \A i \in 1 .. n + Len(d) : r[i] = IF i <= n THEN c[i] ELSE d[i - n]
  <2> SUFFICES ASSUME NEW i \in 1 .. n + Len(d)
               PROVE  r[i] = IF i <= n THEN c[i] ELSE d[i - n]
    OBVIOUS
  <2>1. r[i] = IF i <= n THEN s[i] ELSE d[i - n]
    BY <1>2, <1>3
  <2>2. i <= n => s[i] = c[i]
    BY <1>1, <1>2
  <2> QED BY <2>1, <2>2
<1> QED BY <1>2, <1>3, <1>4 DEF r, s, n

(* append() at the end of the text goes on with it. *)
LEMMA DraftAppend ==
  ASSUME currSpace = 1, NEW c, NEW text, Drafted(c, text), NEW data \in Seq(Cells)
  PROVE  Drafted(AppendAt(c, data, Len(text)), text \o data)
<1> DEFINE L == Len(c)
           m == Len(text)
           n == Len(data)
           base == BlockSize * (L - 1)
           at == m - base
           full == (at + n) \div BlockSize
           written == [k \in 1 .. full + 1 |->
                         Overwrite(IF k = 1 THEN c[L] ELSE NewBlock,
                                   data, at - (k - 1) * BlockSize)]
           r == SubSeq(c, 1, L - 1) \o written
           new == text \o data
<1>1. /\ c \in Seq(Block) /\ c # <<>> /\ L \in Nat \ {0} /\ L - 1 \in Nat /\ (L - 1) + 1 = L
      /\ text \in Seq(Cells) /\ m \in Nat /\ n \in Nat
      /\ \A i \in 1 .. L : c[i] \in Block /\ c[i].data = Null /\ c[i].space = 0
  BY EmptySeq, LenProperties, ElementOfSeq DEF Drafted, Fresh
<1>2. /\ base \in Nat /\ BlockSize * L = base + BlockSize /\ base <= m /\ m < base + BlockSize
      /\ BlockSize \in Nat \ {0} /\ at \in 0 .. BlockSize - 1
  <2>1. BlockSize * (L - 1) <= m /\ m < BlockSize * L
    BY DEF Drafted
  <2>2. BlockSize * (L - 1) \in Nat /\ BlockSize * ((L - 1) + 1) = BlockSize * (L - 1) + BlockSize
    BY <1>1, BlockProducts
  <2>3. BlockSize * L = base + BlockSize
    BY <1>1, <2>2
  <2> HIDE DEF L, m
  <2> QED BY <1>1, <2>1, <2>2, <2>3, BlockProducts
<1>3. /\ full \in Nat /\ BlockSize * full \in Nat
      /\ BlockSize * full <= at + n /\ at + n < BlockSize * full + BlockSize
  <2> DEFINE x == at + n
  <2>1. x \in Nat
    BY <1>1, <1>2
  <2> HIDE DEF x
  <2> QED BY <2>1, BlockProducts DEF x
<1>4. Locate(c, m) = [block |-> L, at |-> at]
  <2>1. L \in 1 .. L /\ m < BlockSize * L /\ Fresh(c)
    BY <1>1, <1>2 DEF Drafted
  <2> HIDE DEF L, m
  <2> QED BY <1>1, <1>2, <2>1, LocateInFresh DEF L, m
<1>5. AppendAt(c, data, m) = r \o (IF full = 0 THEN SubSeq(c, L + 1, L) ELSE <<>>)
  <2> DEFINE place == Locate(c, m)
             Result(b, a) ==
               SubSeq(c, 1, b - 1)
                 \o [k \in 1 .. ((a + n) \div BlockSize) + 1 |->
                       Overwrite(IF k = 1 THEN c[b] ELSE NewBlock, data, a - (k - 1) * BlockSize)]
                 \o (IF (a + n) \div BlockSize = 0 THEN SubSeq(c, b + 1, L) ELSE <<>>)
  <2>1. AppendAt(c, data, m) = Result(place.block, place.at)
    BY DEF AppendAt
  <2>2. Result(L, at) = r \o (IF full = 0 THEN SubSeq(c, L + 1, L) ELSE <<>>)
    OBVIOUS
  <2>3. place.block = L /\ place.at = at
    BY <1>4
  <2> HIDE DEF Result, place, at, L
  <2>4. AppendAt(c, data, m) = Result(L, at)
    BY <2>1, <2>3
  <2> HIDE DEF r
  <2> QED BY <2>2, <2>4
<1> HIDE DEF full
<1>6. /\ written \in Seq(Block) /\ Len(written) = full + 1
      /\ \A k \in 1 .. full + 1 :
           /\ written[k].data = Null /\ written[k].space = 0
           /\ \A j \in 1 .. BlockSize :
                written[k].bytes[j] =
                  IF j - (at - (k - 1) * BlockSize) \in 1 .. n
                  THEN data[j - (at - (k - 1) * BlockSize)]
                  ELSE (IF k = 1 THEN c[L] ELSE NewBlock).bytes[j]
  <2> DEFINE old(k) == IF k = 1 THEN c[L] ELSE NewBlock
             from(k) == at - (k - 1) * BlockSize
  <2>1. \A k \in 1 .. full + 1 : old(k) \in Block /\ old(k).data = Null /\ old(k).space = 0
    <3>1. L \in 1 .. L
      BY <1>1
    <3> QED BY <1>1, <3>1, NewBlockClean DEF CleanBlock
  <2>2. \A k \in 1 .. full + 1 : from(k) \in Int
    <3>1. \A k \in 1 .. full + 1 : k - 1 \in Nat
      BY <1>3
    <3>2. \A k \in 1 .. full + 1 : (k - 1) * BlockSize \in Nat
      BY <1>2, <3>1
    <3> HIDE DEF at
    <3> QED BY <1>2, <3>2
  <2>3. \A k \in 1 .. full + 1 : written[k] = Overwrite(old(k), data, from(k))
    OBVIOUS
  <2>4. \A k \in 1 .. full + 1 : Overwrite(old(k), data, from(k)) \in Block
    <3> HIDE DEF old, from
    <3> QED BY <2>1, <2>2, OverwriteFacts
  <2>5. written \in Seq(Block) /\ Len(written) = full + 1
    <3>1. full + 1 \in Nat /\ DOMAIN written = 1 .. full + 1
      BY <1>3
    <3>2. written \in [1 .. full + 1 -> Block]
      BY <2>4
    <3> HIDE DEF written
    <3>3. written \in Seq(Block)
      BY <3>1, <3>2, SeqDef
    <3> QED BY <3>1, <3>3, LenProperties
  <2> HIDE DEF written, old, from
  <2>6. ASSUME NEW k \in 1 .. full + 1
        PROVE  /\ written[k].data = Null /\ written[k].space = 0
               /\ \A j \in 1 .. BlockSize :
                    written[k].bytes[j] =
                      IF j - from(k) \in 1 .. n THEN data[j - from(k)] ELSE old(k).bytes[j]
    <3> DEFINE b == old(k)
               a == from(k)
    <3>1. b \in Block /\ a \in Int /\ b.data = Null /\ b.space = 0
          /\ written[k] = Overwrite(b, data, a)
      BY <2>1, <2>2, <2>3
    <3> HIDE DEF b, a
    <3>2. LET w == Overwrite(b, data, a) IN
          /\ w \in Block /\ w.data = b.data /\ w.space = b.space
          /\ \A j \in 1 .. BlockSize :
               w.bytes[j] = IF j - a \in 1 .. Len(data) THEN data[j - a] ELSE b.bytes[j]
      BY <3>1, OverwriteFacts
    <3> QED BY <3>1, <3>2 DEF a, b
  <2> QED BY <2>5, <2>6 DEF old, from
<1> HIDE DEF written
<1>7. /\ r \in Seq(Block) /\ Len(r) = L + full /\ r # <<>>
      /\ \A i \in 1 .. L + full : r[i] = IF i <= L - 1 THEN c[i] ELSE written[i - (L - 1)]
  <2>1. /\ r \in Seq(Block) /\ Len(r) = L - 1 + (full + 1)
        /\ \A i \in 1 .. L - 1 + (full + 1) :
             r[i] = IF i <= L - 1 THEN c[i] ELSE written[i - (L - 1)]
    <3>1. /\ r \in Seq(Block) /\ Len(r) = Len(c) - 1 + Len(written)
          /\ \A i \in 1 .. Len(c) - 1 + Len(written) :
               r[i] = IF i <= Len(c) - 1 THEN c[i] ELSE written[i - (Len(c) - 1)]
      <4>1. c \in Seq(Block) /\ c # <<>> /\ written \in Seq(Block)
        BY <1>1, <1>6
      <4> QED BY ONLY <4>1, ReplaceLast DEF r, L
    <3> HIDE DEF r
    <3> QED BY <1>6, <3>1
  <2>2. L - 1 + (full + 1) = L + full /\ L + full # 0
    BY <1>1, <1>3
  <2> HIDE DEF r, L
  <2>3. r # <<>>
    BY <2>1, <2>2, EmptySeq
  <2> QED BY <2>1, <2>2, <2>3
<1> HIDE DEF r, L, m, n, base, at
<1>7a. AppendAt(c, data, m) = r
  <2>1. SubSeq(c, L + 1, L) = <<>>
    BY <1>1, SubSeqEmpty
  <2> QED BY <1>5, <1>7, <2>1, ConcatEmptySeq
<1>8. Fresh(r)
  <2> SUFFICES ASSUME NEW i \in 1 .. L + full
               PROVE  r[i].data = Null /\ r[i].space = 0
    BY <1>7 DEF Fresh
  <2>1. CASE i <= L - 1
    BY <1>1, <1>7, <2>1
  <2>2. CASE i > L - 1
    <3>1. i - (L - 1) \in 1 .. full + 1
      BY <1>1, <1>3, <2>2
    <3> QED BY <1>1, <1>6, <1>7, <2>2, <3>1
  <2> QED BY <1>1, <2>1, <2>2
<1>9. /\ new \in Seq(Cells) /\ Len(new) = m + n
      /\ \A p \in 1 .. m + n : new[p] = IF p <= m THEN text[p] ELSE data[p - m]
  BY <1>1, ConcatProperties DEF m, n
<1>10. BlockSize * (Len(r) - 1) <= m + n /\ m + n < BlockSize * Len(r)
  <2>1. /\ BlockSize * ((L - 1) + full) = base + BlockSize * full
        /\ BlockSize * (L + full) = base + BlockSize * full + BlockSize
    BY <1>1, <1>2, <1>3 DEF base
  <2>2. Len(r) - 1 = (L - 1) + full /\ Len(r) = L + full /\ m + n = base + (at + n)
    BY <1>1, <1>2, <1>3, <1>7 DEF at
  <2>3. base + BlockSize * full <= m + n /\ m + n < base + BlockSize * full + BlockSize
    <3> DEFINE bf == BlockSize * full
               x == at + n
    <3>1. bf \in Nat /\ x \in Nat /\ bf <= x /\ x < bf + BlockSize /\ m + n = base + x
      <4>1. bf \in Nat /\ bf <= x /\ x < bf + BlockSize
        BY <1>3
      <4>2. m + n = base + x
        BY <2>2
      <4>3. at \in Nat /\ n \in Nat
        BY <1>1, <1>2
      <4>4. x \in Nat
        BY ONLY <4>3
      <4> QED BY ONLY <4>1, <4>2, <4>4
    <3> HIDE DEF bf, x
    <3>2. base + bf <= m + n /\ m + n < base + bf + BlockSize
      BY <1>2, <3>1
    <3> QED BY <3>2 DEF bf
  <2> QED BY <2>1, <2>2, <2>3
<1> HIDE DEF new
<1>11. ASSUME NEW i \in 1 .. Len(r), NEW k \in 1 .. BlockSize,
              BlockSize * (i - 1) + k <= m + n
       PROVE  r[i].bytes[k] = new[BlockSize * (i - 1) + k]
  <2> DEFINE p == BlockSize * (i - 1) + k
  <2>1. i \in Nat \ {0} /\ i - 1 \in Nat /\ BlockSize * (i - 1) \in Nat /\ p \in 1 .. m + n
    <3>1. i \in Nat \ {0} /\ i - 1 \in Nat
      BY <1>1, <1>3, <1>7
    <3>2. BlockSize * (i - 1) \in Nat
      BY <3>1, BlockProducts
    <3> QED BY <1>1, <1>2, <1>11, <3>1, <3>2
  <2>2. CASE i <= L - 1
    <3>1. p <= base
      <4>1. i - 1 < L - 1
        BY <1>1, <2>1, <2>2
      <4>2. BlockSize * (i - 1) + BlockSize <= BlockSize * (L - 1)
        BY <1>1, <2>1, <4>1, BlockProducts
      <4> QED BY <1>2, <2>1, <4>2 DEF base
    <3>2. p <= m /\ i \in 1 .. L
      BY <1>1, <1>2, <2>1, <2>2, <3>1
    <3>3. c[i].bytes[k] = text[p]
      BY <3>2 DEF Drafted, m, L
    <3>4. r[i] = c[i]
      BY <1>7, <2>2
    <3> HIDE DEF p
    <3> QED BY <1>9, <2>1, <3>2, <3>3, <3>4 DEF p
  <2>3. CASE i > L - 1
    <3> DEFINE q == i - (L - 1)
               j == k - (at - (q - 1) * BlockSize)
    <3>1. q \in 1 .. full + 1 /\ r[i] = written[q] /\ i - 1 = (L - 1) + (q - 1)
          /\ q - 1 \in Nat
      BY <1>1, <1>3, <1>7, <2>3
    <3>2. BlockSize * (i - 1) = base + (q - 1) * BlockSize
      <4> HIDE DEF q
      <4> QED BY <1>1, <1>2, <3>1 DEF base
    <3>3. (q - 1) * BlockSize \in Nat /\ j = p - m
      <4>1. (q - 1) * BlockSize \in Nat
        <5> HIDE DEF q
        <5> QED BY <1>2, <3>1
      <4> DEFINE z == (q - 1) * BlockSize
      <4> HIDE DEF q
      <4>2. j = k - (at - z) /\ p = base + z + k /\ at = m - base /\ z \in Nat
        BY <3>2, <4>1 DEF at
      <4> HIDE DEF z, j, p
      <4>3. j = p - m
        BY <1>1, <1>2, <4>2
      <4> QED BY <4>1, <4>3
    <3>4. r[i].bytes[k] = IF j \in 1 .. n THEN data[j]
                          ELSE (IF q = 1 THEN c[L] ELSE NewBlock).bytes[k]
      <4> HIDE DEF q
      <4> QED BY <1>6, <3>1
    <3> HIDE DEF j, p, q
    <3>5. CASE p > m
      <4>1. j \in 1 .. n
        BY <1>1, <2>1, <3>3, <3>5
      <4>2. new[p] = data[j]
        <5>1. ~ (p <= m) /\ p \in 1 .. m + n
          BY <1>1, <2>1, <3>5 DEF p
        <5> QED BY <1>9, <3>3, <5>1
      <4> QED BY <3>4, <4>1, <4>2 DEF p
    <3>6. CASE p <= m
      <4>1. j \notin 1 .. n
        BY <1>1, <2>1, <3>3, <3>6
      <4>2. q = 1
        <5> SUFFICES ASSUME q - 1 >= 1 PROVE FALSE
          BY <3>1
        <5>1. (q - 1) * BlockSize >= BlockSize
          BY <1>2, <3>1
        <5> DEFINE z == (q - 1) * BlockSize
        <5>2. z \in Nat /\ z >= BlockSize /\ p = base + z + k
          BY <3>2, <3>3, <5>1 DEF p
        <5> HIDE DEF z
        <5> QED BY <1>1, <1>2, <3>6, <5>2
      <4>3. i = L /\ i \in 1 .. L
        BY <1>1, <2>1, <4>2 DEF q
      <4>4. c[L].bytes[k] = text[p]
        <5>1. BlockSize * (L - 1) + k <= m
          BY <3>6, <4>3 DEF p
        <5> QED BY <4>3, <5>1 DEF Drafted, m, L, p
      <4> QED BY <1>9, <2>1, <3>4, <3>6, <4>1, <4>2, <4>4 DEF p
    <3> QED BY <1>1, <2>1, <3>5, <3>6
  <2> QED BY <1>1, <2>1, <2>2, <2>3
<1>12. Drafted(r, new)
  BY <1>8, <1>9, <1>10, <1>11 DEF Drafted
<1> QED BY <1>7a, <1>12 DEF m, new

(* The length field is written over the first bytes, and only there. *)
LEMMA DraftHeader ==
  ASSUME currSpace = 1, NEW c, NEW text, Drafted(c, text),
         NEW header \in Seq(Cells), Len(header) = HeaderSize, HeaderSize <= Len(text)
  PROVE  Drafted(AppendAt(c, header, 0), header \o Rest(text, HeaderSize))
<1> DEFINE L == Len(c)
           m == Len(text)
           n == HeaderSize
           w == Overwrite(c[1], header, 0)
           r == [c EXCEPT ![1] = w]
           rest == Rest(text, n)
           new == header \o rest
<1>1. /\ c \in Seq(Block) /\ c # <<>> /\ L \in Nat \ {0} /\ 1 \in 1 .. L
      /\ text \in Seq(Cells) /\ m \in Nat /\ n \in Nat \ {0} /\ n <= m /\ n < BlockSize
      /\ BlockSize \in Nat \ {0}
      /\ \A i \in 1 .. L : c[i] \in Block /\ c[i].data = Null /\ c[i].space = 0
  BY EmptySeq, LenProperties, ElementOfSeq, BlockProducts DEF Drafted, Fresh
<1>2. /\ w \in Block /\ w.data = Null /\ w.space = 0
      /\ \A k \in 1 .. BlockSize : w.bytes[k] = IF k \in 1 .. n THEN header[k] ELSE c[1].bytes[k]
  <2> DEFINE b == c[1]
             a == 0
  <2>1. b \in Block /\ a \in Int /\ b.data = Null /\ b.space = 0
    BY <1>1
  <2> HIDE DEF a, b
  <2>2. LET v == Overwrite(b, header, a) IN
        /\ v \in Block /\ v.data = b.data /\ v.space = b.space
        /\ \A k \in 1 .. BlockSize :
             v.bytes[k] = IF k - a \in 1 .. Len(header) THEN header[k - a] ELSE b.bytes[k]
    BY <2>1, OverwriteFacts
  <2>3. \A k \in 1 .. BlockSize : k - a = k
    BY <1>1 DEF a
  <2> QED BY <2>1, <2>2, <2>3 DEF a, b
<1> HIDE DEF w
<1>3. Locate(c, 0) = [block |-> 1, at |-> 0]
  <2> DEFINE o == 0
             i == 1
  <2>1. o \in Nat /\ i \in 1 .. Len(c) /\ BlockSize * (i - 1) <= o /\ o < BlockSize * i
        /\ o - BlockSize * (i - 1) = 0
    BY <1>1
  <2> HIDE DEF o, i
  <2>2. Locate(c, o) = [block |-> i, at |-> o - BlockSize * (i - 1)]
    BY <2>1, LocateInFresh DEF Drafted
  <2> QED BY <2>1, <2>2 DEF o, i
<1>4. (0 + n) \div BlockSize = 0
  <2>1. \A b, k \in Nat : k < b => k \div b = 0
    OBVIOUS
  <2>2. 0 + n = n
    BY <1>1
  <2> QED BY <1>1, <2>1, <2>2
<1>5. AppendAt(c, header, 0) = SubSeq(c, 1, 0) \o <<w>> \o Rest(c, 1)
  <2> DEFINE place == Locate(c, 0)
             Written(b, a, f) == [k \in 1 .. f + 1 |->
                Overwrite(IF k = 1 THEN c[b] ELSE NewBlock, header, a - (k - 1) * BlockSize)]
             Result(b, a, f) ==
               SubSeq(c, 1, b - 1) \o Written(b, a, f)
                 \o (IF f = 0 THEN SubSeq(c, b + 1, L) ELSE <<>>)
  <2>1. AppendAt(c, header, 0) = Result(place.block, place.at, (place.at + n) \div BlockSize)
    BY DEF AppendAt
  <2>2. place.block = 1 /\ place.at = 0
    BY <1>3
  <2>3. Written(1, 0, 0) = <<w>>
    <3>1. \A k \in 1 .. 0 + 1 : k = 1 /\ 0 - (k - 1) * BlockSize = 0
      BY <1>1
    <3>2. Written(1, 0, 0) = [k \in 1 .. 0 + 1 |-> w]
      BY <3>1 DEF w
    <3>3. 0 + 1 = 1
      OBVIOUS
    <3> HIDE DEF Written
    <3> QED BY <3>2, <3>3
  <2> HIDE DEF Written
  <2>4. Result(1, 0, 0) = SubSeq(c, 1, 0) \o <<w>> \o Rest(c, 1)
    <3>1. 1 - 1 = 0
      OBVIOUS
    <3> QED BY <2>3, <3>1 DEF Rest
  <2> HIDE DEF Result, place
  <2> QED BY <1>4, <2>1, <2>2, <2>4
<1>6. /\ r \in Seq(Block) /\ Len(r) = L /\ r # <<>>
      /\ \A i \in 1 .. L : r[i] = IF i = 1 THEN w ELSE c[i]
  BY <1>1, <1>2, HeadExcept
<1> HIDE DEF r
<1>7. AppendAt(c, header, 0) = r
  <2> DEFINE one == <<w>>
             tail == Rest(c, 1)
             x == one \o tail
  <2>1. one \in Seq(Block) /\ Len(one) = 1 /\ one[1] = w
    BY <1>2
  <2>2. tail \in Seq(Block) /\ Len(tail) = L - 1 /\ \A i \in 1 .. L - 1 : tail[i] = c[1 + i]
    <3> DEFINE k == 1
    <3>1. k \in 0 .. Len(c)
      BY <1>1
    <3> HIDE DEF k
    <3>2. Rest(c, k) \in Seq(Block) /\ Len(Rest(c, k)) = Len(c) - k
          /\ \A i \in 1 .. Len(c) - k : Rest(c, k)[i] = c[k + i]
      BY <1>1, <3>1, RestProperties
    <3> QED BY <3>2 DEF k
  <2>3. SubSeq(c, 1, 0) = <<>>
    BY SubSeqEmpty
  <2> HIDE DEF one, tail, L
  <2>4. <<>> \o one = one
    BY <2>1, ConcatEmptySeq
  <2>5. /\ x \in Seq(Block) /\ Len(x) = 1 + (L - 1)
        /\ \A i \in 1 .. 1 + (L - 1) : x[i] = IF i <= 1 THEN one[i] ELSE tail[i - 1]
    <3>1. /\ x \in Seq(Block) /\ Len(x) = Len(one) + Len(tail)
          /\ \A i \in 1 .. Len(one) + Len(tail) :
               x[i] = IF i <= Len(one) THEN one[i] ELSE tail[i - Len(one)]
      BY <2>1, <2>2, ConcatProperties
    <3> HIDE DEF x
    <3> QED BY <2>1, <2>2, <3>1
  <2> HIDE DEF x
  <2>6. Len(x) = L /\ \A i \in 1 .. L : x[i] = r[i]
    <3>1. 1 + (L - 1) = L
      BY <1>1
    <3> SUFFICES ASSUME NEW i \in 1 .. L PROVE x[i] = r[i]
      BY <2>5, <3>1
    <3>2. CASE i = 1
      BY <1>1, <1>6, <2>1, <2>5, <3>1, <3>2
    <3>3. CASE i # 1
      <4>1. ~(i <= 1) /\ i - 1 \in 1 .. L - 1 /\ 1 + (i - 1) = i
        BY <1>1, <3>3
      <4> QED BY <1>6, <2>2, <2>5, <3>1, <3>3, <4>1
    <3> QED BY <3>2, <3>3
  <2>7. x = r
    BY <1>6, <2>5, <2>6, SeqEqual
  <2> QED BY <1>5, <2>3, <2>4, <2>7 DEF x, one, tail
<1>8. Fresh(r)
  BY <1>1, <1>2, <1>6 DEF Fresh
<1>9. /\ new \in Seq(Cells) /\ Len(new) = m
      /\ \A p \in 1 .. m : new[p] = IF p <= n THEN header[p] ELSE text[p]
  <2>1. n \in 0 .. Len(text)
    BY <1>1
  <2>2. rest \in Seq(Cells) /\ Len(rest) = m - n /\ \A i \in 1 .. m - n : rest[i] = text[n + i]
    BY <1>1, <2>1, RestProperties
  <2> HIDE DEF rest, n, m
  <2>3. /\ new \in Seq(Cells) /\ Len(new) = n + (m - n)
        /\ \A p \in 1 .. n + (m - n) : new[p] = IF p <= n THEN header[p] ELSE rest[p - n]
    <3>1. /\ new \in Seq(Cells) /\ Len(new) = Len(header) + Len(rest)
          /\ \A p \in 1 .. Len(header) + Len(rest) :
               new[p] = IF p <= Len(header) THEN header[p] ELSE rest[p - Len(header)]
      BY <2>2, ConcatProperties
    <3>2. Len(header) = n
      BY DEF n
    <3> HIDE DEF new
    <3> QED BY <2>2, <3>1, <3>2
  <2> HIDE DEF new
  <2>4. n + (m - n) = m
    BY <1>1
  <2>5. \A p \in 1 .. m : ~(p <= n) => p - n \in 1 .. m - n /\ n + (p - n) = p
    BY <1>1
  <2>6. \A p \in 1 .. m : new[p] = IF p <= n THEN header[p] ELSE rest[p - n]
    BY <2>3, <2>4
  <2> QED BY <2>2, <2>3, <2>4, <2>5, <2>6
<1> HIDE DEF new, rest
<1>10. ASSUME NEW i \in 1 .. L, NEW k \in 1 .. BlockSize,
              BlockSize * (i - 1) + k <= m
       PROVE  r[i].bytes[k] = new[BlockSize * (i - 1) + k]
  <2> DEFINE p == BlockSize * (i - 1) + k
  <2>1. c[i].bytes[k] = text[p]
    BY <1>10 DEF Drafted
  <2>2. i - 1 \in Nat /\ BlockSize * (i - 1) \in Nat
    <3>1. i - 1 \in Nat
      BY <1>1
    <3> QED BY <3>1, BlockProducts
  <2>3. p \in 1 .. m
    <3> DEFINE z == BlockSize * (i - 1)
    <3>1. z \in Nat /\ z + k <= m
      BY <1>10, <2>2
    <3> HIDE DEF z, m
    <3>2. z + k \in 1 .. m
      BY <1>1, <3>1
    <3> QED BY <3>2 DEF z
  <2>4. CASE i = 1
    <3>1. p = k
      BY <1>1, <2>4
    <3> HIDE DEF p
    <3>2. k \in 1 .. n <=> p <= n
      BY <1>1, <3>1
    <3>3. r[i] = w
      BY <1>1, <1>6, <2>4
    <3>4. w.bytes[k] = IF p <= n THEN header[p] ELSE text[p]
      BY <1>2, <2>1, <2>4, <3>1, <3>2
    <3> QED BY <1>9, <2>3, <3>3, <3>4 DEF p
  <2>5. CASE i # 1
    <3>1. i - 1 >= 1
      BY <1>1, <2>5
    <3>2. BlockSize * (i - 1) >= BlockSize
      BY <1>1, <2>2, <3>1
    <3>3. ~(p <= n)
      <4> DEFINE z == BlockSize * (i - 1)
      <4>1. z \in Nat /\ z >= BlockSize /\ p = z + k
        BY <2>2, <3>2
      <4> HIDE DEF z, p, n
      <4> QED BY <1>1, <4>1
    <3>4. r[i] = c[i]
      BY <1>6, <2>5
    <3> HIDE DEF p
    <3> QED BY <1>9, <2>1, <2>3, <3>3, <3>4 DEF p
  <2> QED BY <2>4, <2>5
<1>11. Drafted(r, new)
  BY <1>6, <1>8, <1>9, <1>10 DEF Drafted
<1> QED BY <1>7, <1>11 DEF new, rest

(* A block whose first bytes are claimed has them as data. *)
LEMMA BlockClaimed ==
  ASSUME NEW b \in Block, NEW text \in Seq(Byte), NEW o \in Nat, NEW r \in 1 .. BlockSize,
         o + r <= Len(text), \A k \in 1 .. r : b.bytes[k] = text[o + k]
  PROVE  /\ [b EXCEPT !.data = 0, !.space = r] \in CleanBlock
         /\ [b EXCEPT !.data = 0, !.space = r].space = r
         /\ DataOf([b EXCEPT !.data = 0, !.space = r]) = SubSeq(text, o + 1, o + r)
<1> DEFINE p == [b EXCEPT !.data = 0, !.space = r]
           x == DataOf(p)
           y == SubSeq(text, o + 1, o + r)
<1>1. /\ b.bytes \in [1 .. BlockSize -> Byte \cup {Garbage}]
      /\ BlockSize \in Nat \ {0} /\ Null = BlockSize + 1 /\ r \in Nat \ {0} /\ r <= BlockSize
      /\ Len(text) \in Nat /\ \A k \in 1 .. Len(text) : text[k] \in Byte
  BY BlockFacts, LenProperties, ElementOfSeq
<1>2. p \in Block /\ p.data = 0 /\ p.space = r /\ p.bytes = b.bytes
  <2>1. 0 \in 0 .. Null /\ r \in 0 .. BlockSize
    BY <1>1
  <2> QED BY <1>1, <2>1 DEF Block
<1> HIDE DEF p
<1>3. \A k \in 1 .. r : p.bytes[k] \in Byte
  <2>1. \A k \in 1 .. r : o + k \in 1 .. Len(text)
    BY <1>1
  <2> QED BY <1>1, <1>2, <2>1
<1>4. p \in CleanBlock
  <2>1. 0 # Null /\ 0 + 1 = 1 /\ 0 < r /\ r # 0
    BY <1>1
  <2> QED BY <1>2, <1>3, <2>1 DEF CleanBlock, Clean
<1>5. DataSize(p) = r
  BY <1>1, <1>2 DEF DataSize
<1>6. /\ x \in Seq(Byte) /\ Len(x) = r
      /\ \A k \in 1 .. r : x[k] = text[o + k]
  <2>1. /\ x \in Seq(Byte) /\ Len(x) = DataSize(p)
        /\ \A k \in 1 .. DataSize(p) : x[k] = p.bytes[p.data + k]
    BY <1>4, DataOfClean
  <2> HIDE DEF x
  <2>2. \A k \in 1 .. r : 0 + k = k
    BY <1>1
  <2> QED BY <1>2, <1>5, <2>1, <2>2
<1> HIDE DEF x
<1>7. /\ y \in Seq(Byte) /\ Len(y) = r
      /\ \A k \in 1 .. r : y[k] = text[o + k]
  <2> DEFINE m == o + 1
             n == o + r
  <2>1. /\ m \in Int /\ n \in Int /\ n - m + 1 = r /\ m <= n
        /\ \A k \in 1 .. r : m + k - 1 = o + k
    BY <1>1
  <2>2. \A k \in m .. n : text[k] \in Byte
    BY <1>1
  <2> HIDE DEF m, n
  <2>3. /\ SubSeq(text, m, n) \in Seq(Byte)
        /\ Len(SubSeq(text, m, n)) = (IF m <= n THEN n - m + 1 ELSE 0)
        /\ \A k \in 1 .. n - m + 1 : SubSeq(text, m, n)[k] = text[m + k - 1]
    BY <2>1, <2>2, SubSeqProperties
  <2>4. /\ SubSeq(text, m, n) \in Seq(Byte) /\ Len(SubSeq(text, m, n)) = r
        /\ \A k \in 1 .. r : SubSeq(text, m, n)[k] = text[o + k]
    BY <2>1, <2>3
  <2> QED BY <2>4 DEF m, n
<1> HIDE DEF y
<1>8. x = y
  BY <1>6, <1>7, SeqEqual
<1> QED BY <1>2, <1>4, <1>8 DEF p, x, y

Filled(b) == [b EXCEPT !.data = 0, !.space = BlockSize]

FirstFilled(c, n) == [i \in 1 .. n |-> Filled(c[i])]

(* The first blocks of a text that fills them. *)
LEMMA FilledContents ==
  ASSUME NEW c \in Seq(Block), NEW text \in Seq(Byte), NEW n \in Nat, n <= Len(c),
         BlockSize * n <= Len(text),
         \A i \in 1 .. n, k \in 1 .. BlockSize :
           c[i].bytes[k] = text[BlockSize * (i - 1) + k]
  PROVE  /\ FirstFilled(c, n) \in Seq(CleanBlock) /\ Len(FirstFilled(c, n)) = n
         /\ \A i \in 1 .. n : /\ FirstFilled(c, n)[i] = Filled(c[i])
                             /\ FirstFilled(c, n)[i].space = BlockSize
         /\ ContentsOf(FirstFilled(c, n)) = SubSeq(text, 1, BlockSize * n)
<1> DEFINE d == [i \in 1 .. n |-> Filled(c[i])]
           Piece(i) == SubSeq(text, BlockSize * (i - 1) + 1, BlockSize * i)
<1>1. /\ Len(c) \in Nat /\ \A i \in 1 .. n : c[i] \in Block
      /\ BlockSize \in Nat \ {0} /\ BlockSize \in 1 .. BlockSize /\ Len(text) \in Nat
  BY LenProperties, ElementOfSeq, BlockProducts
<1>2. \A i \in 0 .. n : BlockSize * i \in Nat /\ BlockSize * i <= BlockSize * n
  <2> SUFFICES ASSUME NEW i \in 0 .. n
               PROVE  BlockSize * i \in Nat /\ BlockSize * i <= BlockSize * n
    OBVIOUS
  <2>1. BlockSize * i \in Nat /\ BlockSize * n \in Nat
    BY BlockProducts
  <2>2. CASE i = n
    BY <2>1, <2>2
  <2>3. CASE i < n
    <3>1. BlockSize * i + BlockSize <= BlockSize * n
      BY <2>3, BlockProducts
    <3> QED BY <1>1, <2>1, <3>1
  <2> QED BY <2>2, <2>3
<1>3. \A i \in 1 .. n : i - 1 \in 0 .. n /\ i \in 0 .. n
                        /\ BlockSize * i = BlockSize * (i - 1) + BlockSize
  <2>1. \A i \in 1 .. n : i - 1 \in Nat /\ (i - 1) + 1 = i
    OBVIOUS
  <2>2. \A i \in 1 .. n : BlockSize * ((i - 1) + 1) = BlockSize * (i - 1) + BlockSize
    BY <2>1, BlockProducts
  <2> QED BY <2>1, <2>2
<1>4. ASSUME NEW i \in 1 .. n
      PROVE  /\ Filled(c[i]) \in CleanBlock /\ Filled(c[i]).space = BlockSize
             /\ DataOf(Filled(c[i])) = Piece(i)
  <2> DEFINE b == c[i]
             o == BlockSize * (i - 1)
             r == BlockSize
  <2>1. /\ b \in Block /\ o \in Nat /\ r \in 1 .. BlockSize /\ o + r <= Len(text)
        /\ \A k \in 1 .. r : b.bytes[k] = text[o + k]
    <3>1. o \in Nat /\ o + r <= BlockSize * n /\ BlockSize * n \in Nat
      <4>1. n \in 0 .. n
        OBVIOUS
      <4> QED BY <1>2, <1>3, <4>1
    <3>2. b \in Block /\ r \in 1 .. BlockSize
      BY <1>1
    <3>3. \A k \in 1 .. r : b.bytes[k] = text[o + k]
      OBVIOUS
    <3> DEFINE l == o + r
               m == BlockSize * n
    <3>4. l \in Int /\ m \in Int /\ Len(text) \in Int /\ l <= m /\ m <= Len(text)
      <4>1. r \in Int /\ Len(text) \in Int
        BY <1>1
      <4> QED BY <3>1, <4>1
    <3> HIDE DEF l, m
    <3>5. l <= Len(text)
      BY <3>4
    <3> QED BY <3>1, <3>2, <3>3, <3>5 DEF l
  <2>2. BlockSize * i = o + r
    BY <1>3
  <2> HIDE DEF b, o, r
  <2>3. /\ [b EXCEPT !.data = 0, !.space = r] \in CleanBlock
        /\ [b EXCEPT !.data = 0, !.space = r].space = r
        /\ DataOf([b EXCEPT !.data = 0, !.space = r]) = SubSeq(text, o + 1, o + r)
    BY <2>1, BlockClaimed
  <2> QED BY <2>2, <2>3 DEF Filled, b, o, r
<1>5. d \in Seq(CleanBlock) /\ Len(d) = n
  <2>1. d \in [1 .. n -> CleanBlock] /\ DOMAIN d = 1 .. n
    BY <1>4
  <2> HIDE DEF d
  <2>2. d \in Seq(CleanBlock)
    BY <2>1, SeqDef
  <2> QED BY <2>1, <2>2, LenProperties
<1>6. \A i \in 1 .. n : d[i] = Filled(c[i]) /\ d[i].space = BlockSize
  BY <1>4
<1> DEFINE First(j) == SubSeq(d, 1, j)
           T == {j \in Nat : j <= n => ContentsOf(First(j)) = SubSeq(text, 1, BlockSize * j)}
<1> HIDE DEF d
<1>7. 0 \in T
  <2>1. First(0) = <<>>
    BY SubSeqEmpty
  <2>2. BlockSize * 0 = 0
    BY <1>1
  <2>3. SubSeq(text, 1, 0) = <<>>
    BY SubSeqEmpty
  <2> QED BY <2>1, <2>2, <2>3, ContentsEmpty
<1>8. ASSUME NEW j \in Nat, j \in T
      PROVE  j + 1 \in T
  <2> SUFFICES ASSUME j + 1 <= n
               PROVE  ContentsOf(First(j + 1)) = SubSeq(text, 1, BlockSize * (j + 1))
    OBVIOUS
  <2>1. j + 1 \in 1 .. n /\ j \in 0 .. n /\ j <= n /\ (j + 1) - 1 = j
    OBVIOUS
  <2>2. First(j) \in Seq(CleanBlock) /\ First(j + 1) = Append(First(j), d[j + 1])
        /\ d[j + 1] \in CleanBlock
    <3> DEFINE i == j + 1
    <3>1. i \in 1 .. Len(d) /\ i - 1 = j /\ 1 \in 1 .. Len(d) /\ i \in 1 .. Len(d)
          /\ j \in Int /\ 1 \in Int
      BY <1>5, <2>1
    <3>2. \A k \in 1 .. j : d[k] \in CleanBlock
      <4>1. \A k \in 1 .. j : k \in 1 .. Len(d)
        BY <1>5, <2>1
      <4> QED BY <1>5, <4>1, ElementOfSeq
    <3>3. SubSeq(d, 1, j) \in Seq(CleanBlock)
      BY <3>1, <3>2, SubSeqProperties
    <3> HIDE DEF i
    <3>4. d[i] \in CleanBlock
      BY <1>5, <3>1, ElementOfSeq
    <3>5. SubSeq(d, 1, i) = SubSeq(d, 1, i - 1) \o <<d[i]>>
      <4> DEFINE a == 1
      <4>1. a \in 1 .. Len(d) /\ i \in a .. Len(d)
        BY <1>5, <3>1
      <4> HIDE DEF a
      <4>2. SubSeq(d, a, i) = SubSeq(d, a, i - 1) \o <<d[i]>>
        BY <1>5, <4>1, SubSeqRecursiveSecond
      <4> QED BY <4>2 DEF a
    <3>6. Append(SubSeq(d, 1, j), d[i]) = SubSeq(d, 1, j) \o <<d[i]>>
      BY <3>3, <3>4, AppendIsConcat
    <3> QED BY <3>1, <3>3, <3>4, <3>5, <3>6 DEF i
  <2>3. ContentsOf(First(j + 1)) = ContentsOf(First(j)) \o DataOf(d[j + 1])
    <3> HIDE DEF First
    <3> QED BY <2>2, ContentsAppend
  <2>4. DataOf(d[j + 1]) = SubSeq(text, BlockSize * j + 1, BlockSize * (j + 1))
    BY <1>4, <1>6, <2>1
  <2>5. ContentsOf(First(j)) = SubSeq(text, 1, BlockSize * j)
    BY <1>8, <2>1
  <2>6. SubSeq(text, 1, BlockSize * j) \o SubSeq(text, BlockSize * j + 1, BlockSize * (j + 1)) =
          SubSeq(text, 1, BlockSize * (j + 1))
    <3> DEFINE x == BlockSize * j
               z == BlockSize * (j + 1)
    <3>1. x \in Nat /\ z \in Nat /\ x <= z /\ z <= Len(text)
      <4>1. j + 1 \in 0 .. n /\ n \in 0 .. n
        BY <2>1
      <4>2. z = x + BlockSize /\ z <= BlockSize * n /\ x \in Nat /\ z \in Nat
            /\ BlockSize * n \in Nat
        BY <1>2, <1>3, <2>1, <4>1
      <4> HIDE DEF x, z
      <4> QED BY <1>1, <4>2
    <3> HIDE DEF x, z
    <3>2. 1 \in 1 .. Len(text) + 1 /\ x \in 1 - 1 .. Len(text) /\ z \in x .. Len(text)
      BY <1>1, <3>1
    <3>3. SubSeq(text, 1, x) \o SubSeq(text, x + 1, z) = SubSeq(text, 1, z)
      BY <3>2, ConcatAdjacentSubSeq
    <3> QED BY <3>3 DEF x, z
  <2> HIDE DEF First
  <2> QED BY <2>3, <2>4, <2>5, <2>6
<1>9. ContentsOf(First(n)) = SubSeq(text, 1, BlockSize * n)
  <2>1. Nat \subseteq T
    <3> HIDE DEF T
    <3> QED BY <1>7, <1>8, NatInductive
  <2> QED BY <2>1
<1>10. First(n) = d
  BY <1>5, SubSeqFull
<1>11. FirstFilled(c, n) = d
  BY DEF FirstFilled, d
<1> QED BY <1>5, <1>6, <1>9, <1>10, <1>11

(* What is claimed of a chain up to block i. *)
FilledTo(c, i) == [j \in 1 .. Len(c) |-> IF j <= i THEN Filled(c[j]) ELSE c[j]]

LEMMA FreshFacts ==
  ASSUME NEW c, Fresh(c), NEW i \in 0 .. Len(c)
  PROVE  /\ c \in Seq(Block) /\ Len(c) \in Nat \ {0}
         /\ \A j \in 1 .. Len(c) : c[j] \in Block /\ Filled(c[j]) \in Block
         /\ FilledTo(c, i) \in Seq(Block) /\ Len(FilledTo(c, i)) = Len(c)
<1>1. /\ c \in Seq(Block) /\ Len(c) \in Nat \ {0}
      /\ \A j \in 1 .. Len(c) : c[j] \in Block
  BY EmptySeq, ElementOfSeq DEF Fresh
<1>2. \A j \in 1 .. Len(c) : Filled(c[j]) \in Block
  <2> SUFFICES ASSUME NEW j \in 1 .. Len(c) PROVE Filled(c[j]) \in Block
    OBVIOUS
  <2>1. c[j] \in Block
    BY <1>1
  <2>2. 0 \in 0 .. Null /\ BlockSize \in 0 .. BlockSize
    BY BlockProducts DEF Null
  <2> QED BY <2>1, <2>2 DEF Filled, Block
<1> DEFINE d == FilledTo(c, i)
<1>3. d \in [1 .. Len(c) -> Block] /\ DOMAIN d = 1 .. Len(c)
  BY <1>1, <1>2 DEF FilledTo
<1> HIDE DEF d
<1>4. d \in Seq(Block)
  BY <1>1, <1>3, SeqDef
<1>5. Len(d) = Len(c)
  BY <1>1, <1>3, <1>4, LenProperties
<1> QED BY <1>1, <1>2, <1>4, <1>5 DEF d

(* A block that is filled is claimed whole. *)
LEMMA ClaimFilled ==
  ASSUME NEW c, Fresh(c), NEW i \in 1 .. Len(c), NEW n \in Nat, n >= BlockSize, NEW s
  PROVE  ClaimBlock([blocks |-> FilledTo(c, i - 1), left |-> n, space |-> s], i) =
           [blocks |-> FilledTo(c, i), left |-> n - BlockSize, space |-> i]
<1> DEFINE acc == [blocks |-> FilledTo(c, i - 1), left |-> n, space |-> s]
           d == FilledTo(c, i - 1)
           e == FilledTo(c, i)
<1>1. /\ Len(c) \in Nat /\ BlockSize \in Nat \ {0} /\ i - 1 \in 0 .. Len(c) /\ i \in 0 .. Len(c)
      /\ n # 0 /\ c[i].data = Null /\ c[i].space = 0
  BY BlockProducts, LenProperties DEF Fresh
<1>2. d[i] = c[i]
  <2>1. ~(i <= i - 1)
    BY <1>1
  <2> QED BY <2>1 DEF FilledTo
<1>3. BlockPush(c[i], n) = Filled(c[i])
  <2>1. Min({0 + n, BlockSize}) = BlockSize
    BY <1>1, MinOfTwo
  <2> QED BY <1>1, <2>1 DEF BlockPush, Filled
<1>4. Min({n, SpaceSize(c[i])}) = BlockSize
  <2>1. SpaceSize(c[i]) = BlockSize
    BY <1>1 DEF SpaceSize
  <2>2. Min({n, BlockSize}) = BlockSize
    BY <1>1, MinOfTwo
  <2> QED BY <2>1, <2>2
<1>5. [d EXCEPT ![i] = Filled(c[i])] = e
  <2>1. \A j \in 1 .. Len(c) :
          (IF j = i THEN Filled(c[i]) ELSE (IF j <= i - 1 THEN Filled(c[j]) ELSE c[j]))
            = (IF j <= i THEN Filled(c[j]) ELSE c[j])
    BY <1>1
  <2>2. [d EXCEPT ![i] = Filled(c[i])] =
          [j \in 1 .. Len(c) |-> IF j = i THEN Filled(c[i])
                                 ELSE (IF j <= i - 1 THEN Filled(c[j]) ELSE c[j])]
    BY DEF FilledTo
  <2> QED BY <2>1, <2>2 DEF FilledTo
<1> HIDE DEF d, e
<1>6. ClaimBlock(acc, i) =
        [blocks |-> [d EXCEPT ![i] = BlockPush(@, n)],
         left |-> n - Min({n, SpaceSize(d[i])}), space |-> i]
  <2>1. acc.left = n /\ acc.blocks = d
    BY DEF d
  <2> HIDE DEF acc
  <2> QED BY <1>1, <2>1 DEF ClaimBlock
<1>7. [d EXCEPT ![i] = BlockPush(@, n)] = [d EXCEPT ![i] = BlockPush(d[i], n)]
  OBVIOUS
<1> QED BY <1>2, <1>3, <1>4, <1>5, <1>6, <1>7 DEF e

(* All blocks but the last are filled. *)
LEMMA ClaimRun ==
  ASSUME currSpace = 1, NEW c, Fresh(c), NEW n \in Nat, BlockSize * (Len(c) - 1) <= n
  PROVE  Claim(c, n) =
           ClaimBlock([blocks |-> FilledTo(c, Len(c) - 1),
                       left   |-> n - BlockSize * (Len(c) - 1),
                       space  |-> IF Len(c) = 1 THEN 1 ELSE Len(c) - 1],
                      Len(c))
<1> DEFINE L == Len(c)
           Acc(i) == [blocks |-> FilledTo(c, i), left |-> n - BlockSize * i,
                      space |-> IF i = 0 THEN 1 ELSE i]
<1>1. /\ c \in Seq(Block) /\ L \in Nat \ {0} /\ L - 1 \in Nat
      /\ BlockSize * (L - 1) \in Nat /\ BlockSize \in Nat \ {0}
  <2>1. c \in Seq(Block) /\ L \in Nat \ {0}
    BY EmptySeq DEF Fresh
  <2>2. L - 1 \in Nat
    BY <2>1
  <2> HIDE DEF L
  <2> QED BY <2>1, <2>2, BlockProducts
<1>2. PICK f : /\ Claim(c, n) = f[L]
               /\ f[0] = [blocks |-> c, left |-> n, space |-> 1]
               /\ \A i \in 1 .. L : f[i] = ClaimBlock(f[i - 1], i)
  <2>1. currSpace \in Nat \ {0} /\ Len(c) \in Nat /\ Len(c) >= currSpace /\ currSpace - 1 = 0
    BY <1>1
  <2>2. \E f : /\ Claims(c, n, Len(c), f)
               /\ Claim(c, n) = f[Len(c)]
               /\ f[currSpace - 1] = [blocks |-> c, left |-> n, space |-> currSpace]
               /\ \A i \in currSpace .. Len(c) : f[i] = ClaimBlock(f[i - 1], i)
    BY <2>1, ClaimLast
  <2> QED BY <2>1, <2>2
<1> DEFINE T == {i \in Nat : i <= L - 1 => f[i] = Acc(i)}
<1>3. 0 \in T
  <2>1. FilledTo(c, 0) = c
    <3> DEFINE z == 0
               d == FilledTo(c, z)
    <3>1. z \in 0 .. Len(c) /\ \A j \in 1 .. Len(c) : ~(j <= z)
      BY <1>1
    <3>2. \A j \in 1 .. Len(c) : d[j] = c[j]
      BY <3>1 DEF FilledTo
    <3> HIDE DEF z
    <3>3. d \in Seq(Block) /\ Len(d) = Len(c)
      BY <3>1, FreshFacts
    <3> HIDE DEF d
    <3>4. d = c
      BY <1>1, <3>2, <3>3, SeqEqual
    <3> QED BY <3>4 DEF d, z
  <2>2. n - BlockSize * 0 = n
    BY <1>1
  <2> QED BY <1>2, <2>1, <2>2
<1>4. ASSUME NEW i \in Nat, i \in T
      PROVE  i + 1 \in T
  <2> SUFFICES ASSUME i + 1 <= L - 1 PROVE f[i + 1] = Acc(i + 1)
    OBVIOUS
  <2> DEFINE k == i + 1
             left == n - BlockSize * i
             s == IF i = 0 THEN 1 ELSE i
  <2>1. k \in 1 .. L /\ k - 1 = i /\ k # 0 /\ i <= L - 1 /\ k < L /\ i < L - 1
    BY <1>1
  <2>2. f[i] = [blocks |-> FilledTo(c, i), left |-> left, space |-> s]
    BY <1>4, <2>1
  <2>3. left \in Nat /\ left >= BlockSize /\ left - BlockSize = n - BlockSize * k
    <3>1. BlockSize * i + BlockSize <= BlockSize * (L - 1)
      BY <1>1, <2>1, BlockProducts
    <3>2. BlockSize * i \in Nat /\ BlockSize * k = BlockSize * i + BlockSize
      BY BlockProducts
    <3> HIDE DEF k, L
    <3> QED BY <1>1, <3>1, <3>2 DEF L
  <2> HIDE DEF left, s, k
  <2>4. ClaimBlock([blocks |-> FilledTo(c, k - 1), left |-> left, space |-> s], k) =
          [blocks |-> FilledTo(c, k), left |-> left - BlockSize, space |-> k]
    BY <2>1, <2>3, ClaimFilled
  <2>5. f[k] = ClaimBlock(f[k - 1], k)
    BY <1>2, <2>1
  <2>6. f[k] = Acc(k)
    BY <2>1, <2>2, <2>3, <2>4, <2>5
  <2> QED BY <2>6 DEF k
<1>5. f[L - 1] = Acc(L - 1)
  <2>1. Nat \subseteq T
    <3> HIDE DEF T
    <3> QED BY <1>3, <1>4, NatInductive
  <2>2. L - 1 \in Nat /\ L - 1 <= L - 1
    BY <1>1
  <2> HIDE DEF Acc, L
  <2> QED BY <2>1, <2>2
<1>6. f[L] = ClaimBlock(f[L - 1], L)
  <2>1. L \in 1 .. L
    BY <1>1
  <2> QED BY <1>2, <2>1
<1>7. (L - 1 = 0) <=> (L = 1)
  BY <1>1
<1> QED BY <1>2, <1>5, <1>6, <1>7

(* What the filled blocks and one behind them make of the text. *)
LEMMA TextInBlocks ==
  ASSUME NEW c, NEW text \in Seq(Byte), Drafted(c, text), NEW last \in CleanBlock,
         last.space # BlockSize,
         DataOf(last) = SubSeq(text, BlockSize * (Len(c) - 1) + 1, Len(text))
  PROVE  /\ FirstFilled(c, Len(c) - 1) \in Seq(CleanBlock)
         /\ Len(FirstFilled(c, Len(c) - 1)) = Len(c) - 1
         /\ \A i \in 1 .. Len(c) - 1 : FirstFilled(c, Len(c) - 1)[i] = Filled(c[i])
         /\ GoodChain(Append(FirstFilled(c, Len(c) - 1), last))
         /\ Len(Append(FirstFilled(c, Len(c) - 1), last)) = Len(c)
         /\ ContentsOf(Append(FirstFilled(c, Len(c) - 1), last)) = text
<1> DEFINE K == Len(c) - 1
           z == BlockSize * K
           d == FirstFilled(c, K)
<1>1. /\ c \in Seq(Block) /\ Len(c) \in Nat \ {0} /\ K \in Nat /\ K <= Len(c)
      /\ Len(text) \in Nat /\ Len(c) = K + 1
  BY EmptySeq, LenProperties DEF Drafted, Fresh
<1>2. z \in Nat /\ z <= Len(text)
  BY <1>1, BlockProducts DEF Drafted
<1>3. \A i \in 1 .. K, k \in 1 .. BlockSize : c[i].bytes[k] = text[BlockSize * (i - 1) + k]
  <2> SUFFICES ASSUME NEW i \in 1 .. K, NEW k \in 1 .. BlockSize
               PROVE  c[i].bytes[k] = text[BlockSize * (i - 1) + k]
    OBVIOUS
  <2>1. i \in 1 .. Len(c) /\ i - 1 \in Nat /\ i - 1 < K
    BY <1>1
  <2>2. BlockSize * (i - 1) \in Nat /\ BlockSize * (i - 1) + BlockSize <= z
    BY <1>1, <2>1, BlockProducts
  <2> DEFINE y == BlockSize * (i - 1)
  <2>3. y + k <= Len(text)
    <3> HIDE DEF y, z
    <3> QED BY <1>2, <2>2, BlockProducts DEF y
  <2> QED BY <2>1, <2>3 DEF Drafted
<1> HIDE DEF K
<1>4. /\ d \in Seq(CleanBlock) /\ Len(d) = K
      /\ \A i \in 1 .. K : d[i] = Filled(c[i]) /\ d[i].space = BlockSize
      /\ ContentsOf(d) = SubSeq(text, 1, z)
  BY <1>1, <1>2, <1>3, FilledContents
<1> HIDE DEF d
<1>5. /\ GoodChain(Append(d, last)) /\ Len(Append(d, last)) = K + 1
  BY <1>4, GoodAppend
<1>6. ContentsOf(Append(d, last)) = SubSeq(text, 1, z) \o SubSeq(text, z + 1, Len(text))
  <2>1. ContentsOf(Append(d, last)) = ContentsOf(d) \o DataOf(last)
    BY <1>4, ContentsAppend
  <2> QED BY <1>4, <2>1 DEF K
<1> HIDE DEF z
<1>7. SubSeq(text, 1, z) \o SubSeq(text, z + 1, Len(text)) = text
  <2> DEFINE m == Len(text)
  <2>1. 1 \in 1 .. m + 1 /\ z \in 1 - 1 .. m /\ m \in z .. m /\ m = Len(text)
    BY <1>1, <1>2
  <2> HIDE DEF m
  <2>2. SubSeq(text, 1, z) \o SubSeq(text, z + 1, m) = SubSeq(text, 1, m)
    BY <2>1, ConcatAdjacentSubSeq
  <2>3. SubSeq(text, 1, m) = text
    BY <2>1, SubSeqFull
  <2> QED BY <2>2, <2>3 DEF m
<1> QED BY <1>1, <1>4, <1>5, <1>6, <1>7 DEF d, K

(* resizePush claims exactly the text, and leaves room behind it. *)
LEMMA ClaimText ==
  ASSUME currSpace = 1, NEW c, NEW text \in Seq(Byte), Drafted(c, text), Len(text) > 0,
         ResizePush(c, Len(text))
  PROVE  /\ GoodChain(blocks') /\ currSpace' = Len(blocks')
         /\ ContentsOf(blocks') = text
         /\ totalDataSize' = totalDataSize + Len(text)
<1> DEFINE n == Len(text)
           L == Len(c)
           K == L - 1
           z == BlockSize * K
           r == n - z
           d == FilledTo(c, K)
           base == [blocks |-> d, left |-> r, space |-> IF L = 1 THEN 1 ELSE K]
           acc == ClaimBlock(base, L)
           filled == FirstFilled(c, K)
<1>1. /\ Fresh(c) /\ c \in Seq(Block) /\ L \in Nat \ {0} /\ K \in Nat /\ n \in Nat \ {0}
      /\ L = K + 1 /\ K \in 0 .. L /\ L \in 1 .. L /\ BlockSize \in Nat \ {0}
  BY EmptySeq, LenProperties, BlockProducts DEF Drafted, Fresh
<1>2. z \in Nat /\ r \in 0 .. BlockSize - 1 /\ z <= n /\ n = z + r /\ BlockSize * (L - 1) <= n
  <2>1. z \in Nat /\ BlockSize * (K + 1) = z + BlockSize
    BY <1>1, BlockProducts
  <2>2. z <= n /\ n < BlockSize * L
    BY DEF Drafted
  <2>3. n < z + BlockSize
    BY <1>1, <2>1, <2>2
  <2>4. BlockSize * (L - 1) <= n
    BY <2>2
  <2> HIDE DEF z, n
  <2> QED BY <1>1, <2>1, <2>2, <2>3, <2>4
<1>3. Claim(c, n) = acc
  <2> HIDE DEF n
  <2> QED BY <1>1, <1>2, ClaimRun
<1>4. /\ IF IsFull(acc.blocks[acc.space])
         THEN /\ blocks' = Append(SubSeq(acc.blocks, 1, acc.space), NewBlock)
              /\ currSpace' = acc.space + 1
         ELSE /\ blocks' = acc.blocks
              /\ currSpace' = acc.space
      /\ totalDataSize' = totalDataSize + n
  <2> HIDE DEF acc, n
  <2> QED BY <1>3 DEF ResizePush, n
<1>5. /\ d \in Seq(Block) /\ Len(d) = L
      /\ \A i \in 1 .. L : d[i] = IF i <= K THEN Filled(c[i]) ELSE c[i]
  <2>1. d \in Seq(Block) /\ Len(d) = L
    <3> HIDE DEF K
    <3> QED BY <1>1, FreshFacts
  <2> QED BY <2>1 DEF FilledTo
<1>6. c[L] \in Block /\ c[L].data = Null /\ c[L].space = 0
  BY <1>1, ElementOfSeq DEF Fresh
<1>7. CASE r = 0
  <2>1. acc = base
    BY <1>7 DEF ClaimBlock
  <2>2. K \in 1 .. L /\ L # 1 /\ base.space = K /\ base.blocks = d
    <3>1. K # 0
      <4> SUFFICES ASSUME K = 0 PROVE FALSE
        OBVIOUS
      <4>1. z = 0
        BY <1>1
      <4> HIDE DEF z, n, K
      <4> QED BY <1>1, <1>2, <1>7, <4>1
    <3> HIDE DEF d, L
    <3> QED BY <1>1, <3>1
  <2> HIDE DEF acc, base
  <2>3. acc.blocks = d /\ acc.space = K
    BY <2>1, <2>2
  <2>4. IsFull(d[K])
    <3>1. d[K] = Filled(c[K]) /\ c[K] \in Block
      BY <1>1, <1>5, <2>2, ElementOfSeq
    <3>2. Filled(c[K]).space = BlockSize
      BY <3>1 DEF Filled, Block
    <3> QED BY <3>1, <3>2 DEF IsFull
  <2>5. blocks' = Append(SubSeq(d, 1, K), NewBlock) /\ currSpace' = K + 1
    <3> HIDE DEF d, K
    <3> QED BY <1>4, <2>3, <2>4
  <2>6. DataOf(NewBlock) = SubSeq(text, z + 1, n)
    <3>1. SubSeq(text, z + 1, n) = <<>>
      <4>1. z + 1 > n /\ z + 1 \in Int /\ n \in Int
        <5> HIDE DEF z, n
        <5> QED BY <1>1, <1>2, <1>7
      <4> HIDE DEF z, n
      <4> QED BY <4>1, SubSeqEmpty
    <3> QED BY <3>1, NewBlockClean
  <2>7. NewBlock \in CleanBlock /\ NewBlock.space # BlockSize
    BY <1>1, NewBlockClean
  <2>8. /\ filled \in Seq(CleanBlock) /\ Len(filled) = K
        /\ \A i \in 1 .. K : filled[i] = Filled(c[i])
        /\ GoodChain(Append(filled, NewBlock)) /\ Len(Append(filled, NewBlock)) = L
        /\ ContentsOf(Append(filled, NewBlock)) = text
    BY <2>6, <2>7, TextInBlocks
  <2> HIDE DEF d, filled
  <2>9. SubSeq(d, 1, K) = filled
    <3> DEFINE s == SubSeq(d, 1, K)
    <3>1. \A i \in 1 .. K : d[i] \in Block /\ d[i] = filled[i]
      <4>1. \A i \in 1 .. K : i \in 1 .. L /\ i <= K
        BY <1>1
      <4>2. \A i \in 1 .. L : d[i] \in Block
        BY <1>5, ElementOfSeq
      <4> QED BY <1>5, <2>8, <4>1, <4>2
    <3>2. K - 1 + 1 = K /\ (1 <= K) /\ \A i \in 1 .. K : 1 + i - 1 = i
      BY <1>1, <2>2
    <3>3. /\ s \in Seq(Block) /\ Len(s) = (IF 1 <= K THEN K - 1 + 1 ELSE 0)
          /\ \A i \in 1 .. K - 1 + 1 : s[i] = d[1 + i - 1]
      <4> DEFINE a == 1
      <4>1. a \in Int /\ K \in Int /\ \A i \in a .. K : d[i] \in Block
        BY <1>1, <3>1
      <4> HIDE DEF a, K
      <4>2. /\ SubSeq(d, a, K) \in Seq(Block)
            /\ Len(SubSeq(d, a, K)) = (IF a <= K THEN K - a + 1 ELSE 0)
            /\ \A i \in 1 .. K - a + 1 : SubSeq(d, a, K)[i] = d[a + i - 1]
        BY <4>1, SubSeqProperties
      <4> QED BY <4>2 DEF a
    <3> HIDE DEF s, K
    <3>4. Len(s) = K /\ \A i \in 1 .. K : s[i] = d[i]
      BY <3>2, <3>3
    <3>5. filled \in Seq(Block)
      <4>1. CleanBlock \subseteq Block
        BY DEF CleanBlock
      <4> QED BY <2>8, <4>1, SeqMonotonic, Zenon
    <3>6. s = filled
      BY <2>8, <3>1, <3>3, <3>4, <3>5, SeqEqual
    <3> QED BY <3>6 DEF s
  <2> QED BY <1>1, <1>4, <2>5, <2>8, <2>9
<1>8. CASE r # 0
  <2> DEFINE last == [c[L] EXCEPT !.data = 0, !.space = r]
  <2>1. r \in 1 .. BlockSize /\ r # BlockSize /\ r \in Nat
    <3> HIDE DEF r
    <3> QED BY <1>1, <1>2, <1>8
  <2>2. last \in CleanBlock /\ last.space = r /\ DataOf(last) = SubSeq(text, z + 1, n)
    <3> DEFINE b == c[L]
    <3>1. \A k \in 1 .. r : b.bytes[k] = text[z + k]
      <4> SUFFICES ASSUME NEW k \in 1 .. r PROVE b.bytes[k] = text[z + k]
        OBVIOUS
      <4>1. k \in 1 .. BlockSize /\ z + k <= n
        <5> HIDE DEF z, n
        <5> QED BY <1>1, <1>2, <2>1
      <4> QED BY <1>1, <4>1 DEF Drafted
    <3>2. z + r = n /\ z + r <= Len(text)
      <4> HIDE DEF z
      <4> QED BY <1>1, <1>2
    <3> HIDE DEF b, r, z
    <3>3. /\ [b EXCEPT !.data = 0, !.space = r] \in CleanBlock
          /\ [b EXCEPT !.data = 0, !.space = r].space = r
          /\ DataOf([b EXCEPT !.data = 0, !.space = r]) = SubSeq(text, z + 1, z + r)
      BY <1>2, <1>6, <2>1, <3>1, <3>2, BlockClaimed DEF b
    <3> QED BY <3>2, <3>3 DEF b
  <2>3. BlockPush(d[L], r) = last
    <3>1. d[L] = c[L]
      BY <1>1, <1>5
    <3>2. Min({0 + r, BlockSize}) = r
      <4> HIDE DEF r
      <4> QED BY <1>1, <2>1, MinOfTwo
    <3> HIDE DEF r, d
    <3> QED BY <1>6, <3>1, <3>2 DEF BlockPush
  <2>4. acc.blocks = [d EXCEPT ![L] = last] /\ acc.space = L
    <3>1. base.left = r /\ base.blocks = d
      OBVIOUS
    <3>2. acc = [blocks |-> [base.blocks EXCEPT ![L] = BlockPush(@, base.left)],
                 left   |-> base.left - Min({base.left, SpaceSize(base.blocks[L])}),
                 space  |-> L]
      BY <1>8, <3>1 DEF ClaimBlock
    <3> HIDE DEF acc, base
    <3>3. acc.blocks = [d EXCEPT ![L] = BlockPush(@, r)] /\ acc.space = L
      BY <3>1, <3>2
    <3> HIDE DEF d, r, last
    <3>4. [d EXCEPT ![L] = BlockPush(@, r)] = [d EXCEPT ![L] = BlockPush(d[L], r)]
      OBVIOUS
    <3> QED BY <2>3, <3>3, <3>4
  <2> HIDE DEF last, acc
  <2>5. /\ filled \in Seq(CleanBlock) /\ Len(filled) = K
        /\ \A i \in 1 .. K : filled[i] = Filled(c[i])
        /\ GoodChain(Append(filled, last)) /\ Len(Append(filled, last)) = L
        /\ ContentsOf(Append(filled, last)) = text
    BY <2>1, <2>2, TextInBlocks
  <2> HIDE DEF d, filled
  <2>6. [d EXCEPT ![L] = last] = Append(filled, last)
    <3> DEFINE x == [d EXCEPT ![L] = last]
               y == Append(filled, last)
    <3>1. last \in Block /\ filled \in Seq(Block)
      <4>1. CleanBlock \subseteq Block
        BY DEF CleanBlock
      <4> QED BY <2>2, <2>5, <4>1, SeqMonotonic, Zenon
    <3>2. x \in Seq(Block) /\ Len(x) = L /\ \A i \in 1 .. L : x[i] = IF i = L THEN last ELSE d[i]
      <4> HIDE DEF L
      <4>1. L \in 1 .. Len(d)
        BY <1>1, <1>5
      <4>2. /\ x \in Seq(Block) /\ Len(x) = Len(d)
            /\ \A i \in 1 .. Len(d) : x[i] = IF i = L THEN last ELSE d[i]
        BY <1>5, <3>1, <4>1, ExceptSeq
      <4> HIDE DEF x
      <4> QED BY <1>5, <4>2
    <3>3. y \in Seq(Block) /\ Len(y) = L /\ \A i \in 1 .. L : y[i] = IF i = L THEN last ELSE filled[i]
      <4>1. /\ y \in Seq(Block) /\ Len(y) = Len(filled) + 1
            /\ \A i \in 1 .. Len(filled) : y[i] = filled[i]
            /\ y[Len(filled) + 1] = last
        BY <3>1, AppendProperties
      <4> HIDE DEF y, L, K
      <4>2. L = K + 1 /\ K \in Nat /\ \A i \in 1 .. L : i # L => i \in 1 .. K
        BY <1>1
      <4>3. y \in Seq(Block) /\ Len(y) = L /\ y[L] = last
        BY <2>5, <4>1, <4>2
      <4>4. \A i \in 1 .. K : y[i] = filled[i]
        BY <2>5, <4>1
      <4> QED BY <4>2, <4>3, <4>4
    <3> HIDE DEF x, y
    <3>4. \A i \in 1 .. L : i # L => d[i] = filled[i]
      <4> HIDE DEF L, K
      <4>1. \A i \in 1 .. L : i # L => i \in 1 .. K /\ i <= K
        BY <1>1
      <4> QED BY <1>5, <2>5, <4>1
    <3>5. \A i \in 1 .. L : x[i] = y[i]
      BY <3>2, <3>3, <3>4
    <3>6. x = y
      BY <3>2, <3>3, <3>5, SeqEqual
    <3> QED BY <3>6 DEF x, y
  <2>7. ~IsFull(acc.blocks[acc.space])
    <3>1. [d EXCEPT ![L] = last][L] = last
      BY <1>1, <1>5, LenProperties
    <3> HIDE DEF L, r
    <3> QED BY <2>1, <2>2, <2>4, <3>1 DEF IsFull
  <2>8. blocks' = Append(filled, last) /\ currSpace' = L
    <3> HIDE DEF L
    <3> QED BY <1>4, <2>4, <2>6, <2>7
  <2> QED BY <1>4, <2>5, <2>8
<1> QED BY <1>7, <1>8

(* An empty buffer is one block with nothing in it. *)
LEMMA EmptyDrafted ==
  ASSUME Inv, totalDataSize = 0
  PROVE  currSpace = 1 /\ Drafted(blocks, <<>>) /\ Contents = <<>>
<1> DEFINE b == Head(blocks)
<1>1. /\ GoodChain(blocks) /\ currSpace = Len(blocks) /\ Len(ContentsOf(blocks)) = 0
      /\ Contents = ContentsOf(blocks)
  BY DEF Inv, Contents, ContentsOf
<1>2. /\ blocks \in Seq(CleanBlock) /\ blocks # <<>> /\ Len(blocks) \in Nat \ {0}
      /\ b \in CleanBlock /\ b = blocks[1]
      /\ Tail(blocks) \in Seq(CleanBlock)
      /\ BlockSize \in Nat \ {0}
  BY <1>1, EmptySeq, HeadTailProperties, BlockProducts DEF GoodChain
<1>3. ContentsOf(blocks) \in Seq(Byte)
  BY <1>2, ContentsType
<1>4. DataSize(b) = 0
  <2>1. DataOf(b) \in Seq(Byte) /\ ContentsOf(Tail(blocks)) \in Seq(Byte)
        /\ Len(DataOf(b)) = DataSize(b)
    BY <1>2, DataOfClean, ContentsType
  <2>2. ContentsOf(blocks) = DataOf(b) \o ContentsOf(Tail(blocks))
    BY <1>2, ContentsHead
  <2> DEFINE x == DataOf(b)
             y == ContentsOf(Tail(blocks))
  <2>3. x \in Seq(Byte) /\ y \in Seq(Byte)
    BY <2>1
  <2> HIDE DEF x, y
  <2>4. Len(x) \in Nat /\ Len(y) \in Nat /\ Len(x \o y) = Len(x) + Len(y)
    BY <2>3, LenProperties, ConcatProperties
  <2>5. Len(x) = 0
    BY <1>1, <2>2, <2>4 DEF x, y
  <2> QED BY <2>1, <2>5 DEF x
<1>5. b.data = Null /\ b.space = 0
  BY <1>2, <1>4, DataOfClean DEF CleanBlock, Clean
<1>6. Len(blocks) = 1
  <2>1. 1 \in 1 .. Len(blocks)
    BY <1>2
  <2>2. blocks[1].space = BlockSize <=> 1 < Len(blocks)
    BY <1>1, <2>1 DEF GoodChain
  <2> HIDE DEF b
  <2>3. blocks[1].space # BlockSize
    BY <1>2, <1>5
  <2>4. ~(1 < Len(blocks))
    BY <2>2, <2>3
  <2>5. \A k \in Nat \ {0} : ~(1 < k) => k = 1
    OBVIOUS
  <2> QED BY <1>2, <2>4, <2>5, Zenon
<1>7. Fresh(blocks)
  <2>1. CleanBlock \subseteq Block
    BY DEF CleanBlock
  <2>2. blocks \in Seq(Block)
    BY <1>2, <2>1, SeqMonotonic, Zenon
  <2> QED BY <1>2, <1>5, <1>6, <2>2 DEF Fresh
<1>8. Len(<<>>) = 0 /\ <<>> \in Seq(Cells)
  BY EmptySeq
<1>9. /\ BlockSize * (Len(blocks) - 1) <= Len(<<>>)
      /\ Len(<<>>) < BlockSize * Len(blocks)
  BY <1>2, <1>6, <1>8
<1>10. \A i \in 1 .. Len(blocks), k \in 1 .. BlockSize :
         ~(BlockSize * (i - 1) + k <= Len(<<>>))
  BY <1>2, <1>6, <1>8
<1>11. Drafted(blocks, <<>>)
  BY <1>7, <1>8, <1>9, <1>10 DEF Drafted
<1>12. Contents = <<>>
  BY <1>1, <1>3, EmptySeq
<1> QED BY <1>1, <1>6, <1>11, <1>12

(* A message is in the buffer as its length field and its fields, whatever *)
(* blocks they go through.                                                 *)
LEMMA ToBytesStep ==
  ASSUME Inv, NEW header \in Seq(Byte), NEW f1 \in Seq(Byte), NEW f2 \in Seq(Byte),
         ToBytes(header, <<f1, f2>>)
  PROVE  /\ Inv'
         /\ Contents = <<>>
         /\ Contents' = header \o (f1 \o f2)
         /\ header \o (f1 \o f2) \in Seq(Byte)
<1> DEFINE G == [i \in 1 .. HeaderSize |-> Garbage]
           H == HeaderSize
           placed == AppendAt(blocks, G, 0)
           first == AppendAt(placed, f1, H)
           second == AppendAt(first, f2, H + Len(f1))
           c == AppendAt(second, header, 0)
           n == H + Len(f1) + Len(f2)
           fields == f1 \o f2
           text == header \o fields
<1>1. /\ totalDataSize = 0 /\ Len(header) = H /\ n <= MaxBytes /\ ResizePush(c, n)
      /\ H \in Nat \ {0} /\ Len(f1) \in Nat /\ Len(f2) \in Nat
  BY BlockProducts, LenProperties DEF ToBytes
<1>2. currSpace = 1 /\ Drafted(blocks, <<>>) /\ Contents = <<>>
  BY <1>1, EmptyDrafted
<1>3. G \in Seq(Cells) /\ Len(G) = H
  <2>1. G \in [1 .. H -> Cells] /\ DOMAIN G = 1 .. H
    BY DEF Cells
  <2> HIDE DEF G
  <2>2. G \in Seq(Cells)
    BY <1>1, <2>1, SeqDef
  <2> QED BY <1>1, <2>1, <2>2, LenProperties
<1>4. /\ f1 \in Seq(Cells) /\ f2 \in Seq(Cells) /\ header \in Seq(Cells)
      /\ fields \in Seq(Byte) /\ Len(fields) = Len(f1) + Len(f2)
  <2>1. Byte \subseteq Cells
    BY DEF Cells
  <2>2. f1 \in Seq(Cells) /\ f2 \in Seq(Cells) /\ header \in Seq(Cells)
    BY <2>1, SeqMonotonic, Zenon
  <2> QED BY <2>2, ConcatProperties
<1> HIDE DEF G
<1>5. Drafted(placed, G)
  <2>1. Drafted(AppendAt(blocks, G, Len(<<>>)), <<>> \o G)
    BY <1>2, <1>3, DraftAppend
  <2>2. Len(<<>>) = 0
    BY EmptySeq
  <2>3. <<>> \o G = G
    BY <1>3, ConcatEmptySeq
  <2> QED BY <2>1, <2>2, <2>3
<1> HIDE DEF placed
<1>6. Drafted(first, G \o f1) /\ G \o f1 \in Seq(Cells) /\ Len(G \o f1) = H + Len(f1)
  <2>1. Drafted(AppendAt(placed, f1, Len(G)), G \o f1)
    BY <1>2, <1>4, <1>5, DraftAppend
  <2>2. G \o f1 \in Seq(Cells) /\ Len(G \o f1) = Len(G) + Len(f1)
    BY <1>3, <1>4, ConcatProperties
  <2> QED BY <1>3, <2>1, <2>2
<1> HIDE DEF first
<1>7. Drafted(second, (G \o f1) \o f2)
  <2> DEFINE t == G \o f1
  <2>1. Drafted(first, t)
    BY <1>6
  <2> HIDE DEF t
  <2>2. Drafted(AppendAt(first, f2, Len(t)), t \o f2)
    BY <1>2, <1>4, <2>1, DraftAppend
  <2>3. Len(t) = H + Len(f1)
    BY <1>6 DEF t
  <2> QED BY <2>2, <2>3 DEF t
<1>8. (G \o f1) \o f2 = G \o fields
  BY <1>3, <1>4, ConcatAssociative
<1> HIDE DEF second
<1>9. fields \in Seq(Cells)
  BY <1>4, ConcatProperties
<1> HIDE DEF fields
<1>10. Rest(G \o fields, H) = fields
  <2>1. H \in 0 .. Len(G)
    BY <1>1, <1>3
  <2>2. Rest(G \o fields, H) = Rest(G, H) \o fields
    <3> HIDE DEF H
    <3> QED BY <1>3, <1>9, <2>1, RestConcat
  <2>3. Rest(G, H) \in Seq(Cells) /\ Len(Rest(G, H)) = 0
    <3>1. Rest(G, H) \in Seq(Cells) /\ Len(Rest(G, H)) = Len(G) - H
      <4> HIDE DEF H
      <4> QED BY <1>3, <2>1, RestProperties
    <3> QED BY <1>1, <1>3, <3>1
  <2>4. Rest(G, H) = <<>>
    BY <2>3, EmptySeq
  <2> QED BY <1>9, <2>2, <2>4, ConcatEmptySeq
<1>11. /\ G \o fields \in Seq(Cells) /\ Len(G \o fields) = H + Len(fields)
  BY <1>3, <1>9, ConcatProperties
<1>12. Drafted(c, text)
  <2> DEFINE t == G \o fields
  <2>1. Drafted(second, t)
    BY <1>7, <1>8
  <2>2. H <= Len(t)
    BY <1>1, <1>4, <1>11
  <2>3. Rest(t, H) = fields
    BY <1>10
  <2> HIDE DEF t
  <2>4. Drafted(AppendAt(second, header, 0), header \o Rest(t, HeaderSize))
    BY <1>1, <1>2, <1>4, <2>1, <2>2, DraftHeader
  <2> QED BY <2>3, <2>4
<1>13. text \in Seq(Byte) /\ Len(text) = n /\ n > 0
  <2>1. text \in Seq(Byte) /\ Len(text) = Len(header) + Len(fields)
    BY <1>4, ConcatProperties
  <2> QED BY <1>1, <1>4, <2>1
<1> HIDE DEF c, text
<1>14. /\ GoodChain(blocks') /\ currSpace' = Len(blocks')
       /\ ContentsOf(blocks') = text
       /\ totalDataSize' = totalDataSize + n
  <2>1. ResizePush(c, Len(text)) /\ Len(text) > 0
    BY <1>1, <1>13
  <2>2. /\ GoodChain(blocks') /\ currSpace' = Len(blocks')
        /\ ContentsOf(blocks') = text
        /\ totalDataSize' = totalDataSize + Len(text)
    BY <1>2, <1>12, <1>13, <2>1, ClaimText
  <2> QED BY <1>13, <2>2
<1>15. totalDataSize' = Len(ContentsOf(blocks')) /\ totalDataSize' \in 0 .. MaxBytes
  BY <1>1, <1>13, <1>14, BlockAssumption
<1>16. Inv'
  BY <1>14, <1>15, InvNext
<1>17. Contents' = ContentsOf(blocks')
  BY DEF Contents, ContentsOf
<1> QED BY <1>2, <1>13, <1>14, <1>16, <1>17 DEF text, fields

LEMMA StringsAreSeq ==
  ASSUME NEW lengths \in SUBSET Nat, NEW s \in Strings(lengths)
  PROVE  s \in Seq(Byte) /\ Len(s) \in lengths
<1>1. PICK n \in lengths : s \in [1 .. n -> Byte]
  BY DEF Strings
<1>2. s \in Seq(Byte) /\ DOMAIN s = 1 .. n /\ n \in Nat
  BY <1>1, SeqDef
<1>3. Len(s) = n
  BY <1>2, LenProperties
<1> QED BY <1>2, <1>3

(* What every step does to the bytes of the buffer. *)
LEMMA NextStep ==
  ASSUME Inv, [Next]_vars
  PROVE  /\ Inv'
         /\ \/ Contents' = Contents
            \/ \E data \in Seq(Byte) : data # <<>> /\ Contents' = Contents \o data
            \/ \E n \in 1 .. Len(Contents) : Contents' = Rest(Contents, n)
<1>0. Contents \in Seq(Byte) /\ Len(Contents) \in Nat
  BY ContentsType, LenProperties DEF Inv, GoodChain, Contents, ContentsOf
<1>1. ASSUME NEW data \in Strings(1 .. BlockSize), Receive(data)
      PROVE  Inv' /\ data \in Seq(Byte) /\ data # <<>> /\ Contents' = Contents \o data
  <2>1. 1 .. BlockSize \in SUBSET Nat
    BY BlockProducts
  <2>2. data \in Seq(Byte) /\ Len(data) \in 1 .. BlockSize
    BY <1>1, <2>1, StringsAreSeq
  <2>3. data # <<>>
    BY <2>2, EmptySeq, BlockProducts
  <2> QED BY <1>1, <2>2, <2>3, ReceiveStep
<1>2. ASSUME NEW header \in Strings({HeaderSize}),
             NEW field1 \in Strings(1 .. MaxBytes - HeaderSize),
             NEW field2 \in Strings(1 .. MaxBytes - HeaderSize),
             ToBytes(header, <<field1, field2>>)
      PROVE  /\ Inv'
             /\ \E data \in Seq(Byte) : data # <<>> /\ Contents' = Contents \o data
  <2> DEFINE data == header \o (field1 \o field2)
  <2>1. {HeaderSize} \in SUBSET Nat /\ 1 .. MaxBytes - HeaderSize \in SUBSET Nat
        /\ HeaderSize \in Nat \ {0}
    BY BlockAssumption
  <2>2. /\ header \in Seq(Byte) /\ Len(header) = HeaderSize
        /\ field1 \in Seq(Byte) /\ field2 \in Seq(Byte)
    BY <1>2, <2>1, StringsAreSeq
  <2>3. Inv' /\ Contents = <<>> /\ Contents' = data /\ data \in Seq(Byte)
    BY <1>2, <2>2, ToBytesStep
  <2>4. data # <<>>
    <3> DEFINE x == field1 \o field2
    <3>1. x \in Seq(Byte)
      BY <2>2, ConcatProperties
    <3> HIDE DEF x
    <3>2. Len(header \o x) = Len(header) + Len(x) /\ Len(x) \in Nat
      BY <2>2, <3>1, ConcatProperties, LenProperties
    <3>3. Len(header \o x) # 0
      BY <2>1, <2>2, <3>2
    <3>4. Len(<<>>) = 0
      BY EmptySeq
    <3> QED BY <3>3, <3>4 DEF x
  <2> HIDE DEF data
  <2>5. Contents \o data = data
    BY <2>3, ConcatEmptySeq
  <2> QED BY <2>3, <2>4, <2>5
<1>3. ASSUME NEW n \in 1 .. MaxBytes, Consume(n)
      PROVE  Inv' /\ n \in 1 .. Len(Contents) /\ Contents' = Rest(Contents, n)
  BY <1>3, ConsumeStep
<1>4. ASSUME ClearAll
      PROVE  Inv' /\ \E n \in 1 .. Len(Contents) : Contents' = Rest(Contents, n)
  <2>1. Inv' /\ Len(Contents) > 0 /\ Contents' = <<>>
    BY <1>4, ClearAllStep
  <2> DEFINE n == Len(Contents)
  <2>2. n \in 0 .. Len(Contents) /\ n \in 1 .. Len(Contents) /\ Len(Contents) - n = 0
    BY <1>0, <2>1
  <2> HIDE DEF n
  <2>3. Rest(Contents, n) \in Seq(Byte) /\ Len(Rest(Contents, n)) = 0
    BY <1>0, <2>2, RestProperties
  <2>4. Rest(Contents, n) = <<>>
    BY <2>3, EmptySeq
  <2> QED BY <2>1, <2>2, <2>4
<1>5. ASSUME UNCHANGED vars
      PROVE  Inv' /\ Contents' = Contents
  BY <1>5 DEF vars, Inv, TypeOK, Contents, DataOf, DataSize
<1>6. CASE Next
  <2>1. CASE \E data \in Strings(1 .. BlockSize) : Receive(data)
    BY <1>1, <2>1
  <2>2. CASE \E header \in Strings({HeaderSize}),
                field1 \in Strings(1 .. MaxBytes - HeaderSize),
                field2 \in Strings(1 .. MaxBytes - HeaderSize) :
                  ToBytes(header, <<field1, field2>>)
    BY <1>2, <2>2
  <2>3. CASE \E n \in 1 .. MaxBytes : Consume(n)
    BY <1>3, <2>3
  <2>4. CASE ClearAll
    BY <1>4, <2>4
  <2> QED BY <1>6, <2>1, <2>2, <2>3, <2>4 DEF Next
<1> QED BY <1>5, <1>6

-----------------------------------------------------------------------------
(* Bytes that are read in place *)

(* The bytes of a chain from a block on. *)
Behind(i) == ContentsOf(Rest(blocks, i))

LEMMA BehindBlock ==
  ASSUME Inv, NEW i \in Nat, i < Len(blocks)
  PROVE  /\ blocks[i + 1] \in CleanBlock
         /\ DataOf(blocks[i + 1]) \in Seq(Byte) /\ Behind(i + 1) \in Seq(Byte)
         /\ Behind(i) = DataOf(blocks[i + 1]) \o Behind(i + 1)
<1> DEFINE r == Rest(blocks, i)
           j == i + 1
<1>1. /\ blocks \in Seq(CleanBlock) /\ Len(blocks) \in Nat /\ i \in 0 .. Len(blocks)
      /\ j \in 1 .. Len(blocks) /\ j \in 0 .. Len(blocks) /\ 1 \in 1 .. Len(blocks) - i
      /\ i + 1 <= Len(blocks) /\ Len(blocks) - i # 0
  <2>1. blocks \in Seq(CleanBlock) /\ Len(blocks) \in Nat
    BY LenProperties DEF Inv, GoodChain
  <2> QED BY <2>1
<1>2. r \in Seq(CleanBlock) /\ Len(r) = Len(blocks) - i /\ r[1] = blocks[j]
  BY <1>1, RestProperties
<1>3. Rest(r, 1) = Rest(blocks, j)
  <2> DEFINE k == 1
  <2>1. k \in Nat /\ i + k <= Len(blocks) /\ i + k = j
    BY <1>1
  <2> HIDE DEF k, j
  <2>2. Rest(Rest(blocks, i), k) = Rest(blocks, i + k)
    BY <1>1, <2>1, RestRest
  <2> QED BY <2>1, <2>2 DEF k
<1> HIDE DEF r, j
<1>4. r # <<>>
  <2>1. Len(r) # 0 /\ Len(<<>>) = 0
    BY <1>1, <1>2, EmptySeq
  <2> QED BY <2>1
<1>5. Head(r) = blocks[j] /\ Tail(r) = Rest(r, 1)
  <2>1. Head(r) = r[1]
    BY <1>2, <1>4, HeadTailProperties
  <2>2. Tail(r) = SubSeq(r, 2, Len(r))
    BY <1>2, <1>4, TailIsSubSeq
  <2>3. 1 + 1 = 2
    OBVIOUS
  <2> QED BY <1>2, <2>1, <2>2, <2>3 DEF Rest
<1>6. ContentsOf(r) = DataOf(Head(r)) \o ContentsOf(Tail(r))
  BY <1>2, <1>4, ContentsHead
<1>7. blocks[j] \in CleanBlock /\ Rest(blocks, j) \in Seq(CleanBlock)
  BY <1>1, ElementOfSeq, RestProperties
<1>8. DataOf(blocks[j]) \in Seq(Byte) /\ Behind(j) \in Seq(Byte)
  BY <1>7, DataOfClean, ContentsType DEF Behind
<1> QED BY <1>3, <1>5, <1>6, <1>7, <1>8 DEF Behind, r, j

LEMMA BehindEnds ==
  ASSUME Inv
  PROVE  /\ Len(blocks) \in Nat \ {0}
         /\ Contents \in Seq(Byte)
         /\ Behind(0) = Contents
         /\ Behind(Len(blocks)) = <<>>
<1>1. blocks \in Seq(CleanBlock) /\ Len(blocks) \in Nat \ {0}
  BY EmptySeq DEF Inv, GoodChain
<1>2. Behind(0) = Contents /\ Contents \in Seq(Byte)
  BY <1>1, RestNone, ContentsType DEF Behind, Contents, ContentsOf
<1> DEFINE n == Len(blocks)
<1>3. n \in 0 .. Len(blocks) /\ Len(blocks) - n = 0
  BY <1>1
<1> HIDE DEF n
<1>4. Rest(blocks, n) \in Seq(CleanBlock) /\ Len(Rest(blocks, n)) = 0
  BY <1>1, <1>3, RestProperties
<1>5. Rest(blocks, n) = <<>>
  BY <1>4, EmptySeq
<1> QED BY <1>1, <1>2, <1>5, ContentsEmpty DEF Behind, n

(* The data of the first block. *)
LEMMA ContinuousSize ==
  ASSUME Inv
  PROVE  /\ ContinuousDataSize = DataSize(blocks[1])
         /\ ContinuousDataSize \in Nat
         /\ ContinuousDataSize <= Len(Contents)
<1> DEFINE z == 0
<1>1. Len(blocks) \in Nat \ {0} /\ Behind(0) = Contents
  BY BehindEnds
<1>2. z \in Nat /\ z < Len(blocks) /\ z + 1 = 1
  BY <1>1
<1> HIDE DEF z
<1> DEFINE d == DataOf(blocks[z + 1])
           r == Behind(z + 1)
<1>3. /\ blocks[z + 1] \in CleanBlock /\ d \in Seq(Byte) /\ r \in Seq(Byte)
      /\ Behind(z) = d \o r
  BY <1>2, BehindBlock
<1>4. DataSize(blocks[1]) \in Nat
  <2>1. blocks[1].space \in Nat
    BY <1>2, <1>3, BlockFacts DEF CleanBlock
  <2> QED BY <1>2, <1>3, <2>1, DataOfClean
<1>5. Len(d) = DataSize(blocks[1])
  BY <1>2, <1>3, DataOfClean
<1>6. Contents = d \o r
  BY <1>1, <1>3 DEF z
<1> HIDE DEF d, r
<1>7. Len(d) <= Len(Contents)
  BY <1>3, <1>6, ConcatProperties, LenProperties
<1>8. ContinuousDataSize = DataSize(blocks[1])
  BY DEF ContinuousDataSize, Inv, GoodChain
<1> QED BY <1>4, <1>5, <1>7, <1>8

(* What getdata has copied of what it was asked for when it comes to the   *)
(* block behind i blocks: the rest is there from its offset on, which is   *)
(* in that block.                                                          *)
Copied(acc, i, text) ==
  /\ acc = [text |-> acc.text, left |-> acc.left, offset |-> acc.offset, valid |-> TRUE]
  /\ acc.text \in Seq(Byte) /\ acc.left \in Nat /\ acc.offset \in Nat
  /\ acc.left = 0 => acc.offset = 0
  /\ i < Len(blocks) => acc.offset <= DataSize(blocks[i + 1])
  /\ acc.offset + acc.left <= Len(Behind(i))
  /\ acc.text \o Part(Behind(i), acc.offset, acc.left) = text

(* From the second block on the offset is 0. *)
LEMMA CopiedBehind ==
  ASSUME Inv, NEW i \in Nat, i < Len(blocks), NEW text, NEW t \in Seq(Byte), NEW n \in Nat,
         n <= Len(Behind(i + 1)), t \o Part(Behind(i + 1), 0, n) = text
  PROVE  Copied([text |-> t, left |-> n, offset |-> 0, valid |-> TRUE], i + 1, text)
<1> DEFINE acc == [text |-> t, left |-> n, offset |-> 0, valid |-> TRUE]
           j == i + 1
<1>1. acc.text = t /\ acc.left = n /\ acc.offset = 0
  OBVIOUS
<1>2. j < Len(blocks) => 0 <= DataSize(blocks[j + 1])
  <2> SUFFICES ASSUME j < Len(blocks) PROVE 0 <= DataSize(blocks[j + 1])
    OBVIOUS
  <2>1. j \in Nat
    OBVIOUS
  <2> HIDE DEF j
  <2>2. blocks[j + 1] \in CleanBlock
    BY <2>1, BehindBlock
  <2>3. DataSize(blocks[j + 1]) \in Nat
    <3>1. blocks[j + 1].space \in Nat
      BY <2>2, BlockFacts DEF CleanBlock
    <3> QED BY <2>2, <3>1, DataOfClean
  <2> QED BY <2>3
<1>3. 0 + n <= Len(Behind(j))
  OBVIOUS
<1>4. acc = [text |-> acc.text, left |-> acc.left, offset |-> acc.offset, valid |-> TRUE]
  OBVIOUS
<1> HIDE DEF acc, j
<1>5. t \o Part(Behind(j), 0, n) = text
  BY DEF j
<1> QED BY <1>1, <1>2, <1>3, <1>4, <1>5 DEF Copied, acc, j

(* One turn of the loop of getdata. *)
LEMMA CopyNext ==
  ASSUME Inv, NEW i \in Nat, i < Len(blocks), NEW acc, NEW text, Copied(acc, i, text)
  PROVE  Copied(Copy(acc, blocks[i + 1]), i + 1, text)
<1> DEFINE b == blocks[i + 1]
           d == DataOf(b)
           r == Behind(i + 1)
           size == DataSize(b)
           t == acc.text
           k == acc.left
           o == acc.offset
           n == IF size > k + o THEN k ELSE size - o
<1>1. /\ acc = [text |-> t, left |-> k, offset |-> o, valid |-> TRUE]
      /\ t \in Seq(Byte) /\ k \in Nat /\ o \in Nat
      /\ k = 0 => o = 0
      /\ o <= size
      /\ o + k <= Len(Behind(i))
      /\ t \o Part(Behind(i), o, k) = text
  BY DEF Copied
<1>2. /\ b \in CleanBlock /\ d \in Seq(Byte) /\ r \in Seq(Byte) /\ Behind(i) = d \o r
  BY BehindBlock
<1>3. /\ size \in Nat /\ Len(d) = size /\ Len(r) \in Nat
      /\ Len(Behind(i)) = size + Len(r)
  <2>1. b.space \in Nat
    BY <1>2, BlockFacts DEF CleanBlock
  <2>2. size \in Nat /\ Len(d) = size
    BY <1>2, <2>1, DataOfClean
  <2> HIDE DEF d, r, size
  <2>3. Len(d \o r) = Len(d) + Len(r) /\ Len(r) \in Nat
    BY <1>2, ConcatProperties, LenProperties
  <2> QED BY <1>2, <2>2, <2>3
<1> HIDE DEF t, k, o
<1>4. CASE k = 0
  <2>1. Copy(acc, b) = acc
    BY <1>4 DEF Copy, k
  <2>2. o = 0 /\ acc = [text |-> t, left |-> 0, offset |-> 0, valid |-> TRUE]
    BY <1>1, <1>4
  <2>3. Behind(i) \in Seq(Byte)
    <3> HIDE DEF d, r
    <3> QED BY <1>2, ConcatProperties
  <2>4. Part(Behind(i), 0, 0) = <<>> /\ Part(r, 0, 0) = <<>>
    BY <1>2, <2>3, PartNone
  <2>5. t \o Part(r, 0, 0) = text
    BY <1>1, <1>4, <2>2, <2>4
  <2>6. 0 <= Len(r) /\ 0 \in Nat
    BY <1>3
  <2>7. Copied([text |-> t, left |-> 0, offset |-> 0, valid |-> TRUE], i + 1, text)
    BY <1>1, <2>5, <2>6, CopiedBehind
  <2> QED BY <2>1, <2>2, <2>7
<1>5. CASE k # 0
  <2> DEFINE s == Part(d, o, n)
             rest == k - n
  <2>1. Copy(acc, b) = [text |-> t \o s, left |-> rest, offset |-> 0, valid |-> TRUE]
    <3>1. acc.left = k /\ acc.offset = o /\ acc.text = t /\ acc.valid = TRUE
      BY <1>1 DEF k, o, t
    <3>2. Copy(acc, b) = [text |-> acc.text \o SubSeq(d, acc.offset + 1, acc.offset + n),
                          left |-> acc.left - n, offset |-> 0,
                          valid |-> acc.valid /\ acc.offset <= size]
      <4>1. acc.left # 0
        BY <1>5, <3>1
      <4> QED BY <3>1, <4>1 DEF Copy
    <3> HIDE DEF d, n, size
    <3> QED BY <1>1, <3>1, <3>2 DEF Part
  <2>2. n \in Nat /\ rest \in Nat /\ o + n <= size /\ rest <= Len(r)
        /\ (size > k + o => rest = 0 /\ n = k)
        /\ (~(size > k + o) => n = size - o /\ o + n = size)
    <3> HIDE DEF size, r
    <3> QED BY <1>1, <1>3
  <2> HIDE DEF n
  <2>3. s \in Seq(Byte)
    <3>1. o + n <= Len(d)
      BY <1>3, <2>2
    <3> HIDE DEF d
    <3> QED BY <1>1, <1>2, <2>2, <3>1, PartProperties
  <2>4. Part(Behind(i), o, k) = s \o Part(r, 0, rest)
    <3>1. CASE size > k + o
      <4>1. o + k <= Len(d)
        <5> HIDE DEF size, d
        <5> QED BY <1>1, <1>3, <3>1
      <4>2. s = Part(d, o, k) /\ rest = 0
        BY <2>2, <3>1
      <4> HIDE DEF d, r, rest, s
      <4>3. Part(d \o r, o, k) = Part(d, o, k)
        BY <1>1, <1>2, <4>1, PartOfFirst
      <4>4. Part(r, 0, 0) = <<>>
        BY <1>2, PartNone
      <4>5. s \o <<>> = s
        BY <2>3, ConcatEmptySeq
      <4> QED BY <1>2, <4>2, <4>3, <4>4, <4>5
    <3>2. CASE ~(size > k + o)
      <4>1. o \in 0 .. Len(d) /\ Len(d) - o <= k /\ o + k <= Len(d) + Len(r)
        <5> HIDE DEF size, d, r
        <5> QED BY <1>1, <1>3, <3>2
      <4>2. n = Len(d) - o
        BY <1>3, <2>2, <3>2
      <4> HIDE DEF d, r
      <4>3. Part(d \o r, o, k) = Part(d, o, Len(d) - o) \o Part(r, 0, k - (Len(d) - o))
        BY <1>1, <1>2, <4>1, PartAcross
      <4> QED BY <1>2, <4>2, <4>3
    <3> QED BY <3>1, <3>2
  <2>5. Part(r, 0, rest) \in Seq(Byte)
    <3> DEFINE z == 0
    <3>1. z \in Nat /\ z + rest <= Len(r)
      BY <1>3, <2>2
    <3> HIDE DEF z, r, rest
    <3>2. Part(r, z, rest) \in Seq(Byte)
      BY <1>2, <2>2, <3>1, PartProperties
    <3> QED BY <3>2 DEF z
  <2> HIDE DEF s, rest, r
  <2> DEFINE tail == Part(r, 0, rest)
  <2>6. (t \o s) \o tail = text
    <3>1. \A u, v, w \in Seq(Byte) : (u \o v) \o w = u \o (v \o w)
      BY ConcatAssociative
    <3> HIDE DEF tail
    <3>2. (t \o s) \o tail = t \o (s \o tail)
      BY <1>1, <2>3, <2>5, <3>1, Zenon DEF tail
    <3> QED BY <1>1, <2>4, <3>2 DEF tail
  <2>7. t \o s \in Seq(Byte)
    BY <1>1, <2>3, ConcatProperties
  <2> DEFINE ts == t \o s
  <2>8. ts \in Seq(Byte) /\ ts \o Part(Behind(i + 1), 0, rest) = text /\ rest <= Len(Behind(i + 1))
    BY <2>2, <2>6, <2>7 DEF r
  <2> HIDE DEF ts
  <2>9. Copied([text |-> ts, left |-> rest, offset |-> 0, valid |-> TRUE], i + 1, text)
    BY <2>2, <2>8, CopiedBehind
  <2> QED BY <2>1, <2>9 DEF ts
<1> QED BY <1>4, <1>5

(* copied[i] is what getdata has after i blocks. *)
Copies(count, offset, m, copied) ==
  copied = [i \in 0 .. m |->
              IF i = 0
              THEN [text |-> <<>>, left |-> count, offset |-> offset, valid |-> TRUE]
              ELSE Copy(copied[i - 1], blocks[i])]

LEMMA CopiesExists ==
  ASSUME NEW count, NEW offset, NEW m \in Nat
  PROVE  \E f : Copies(count, offset, m, f)
<1> DEFINE T == {k \in Nat : \E f : Copies(count, offset, k, f)}
           base == [text |-> <<>>, left |-> count, offset |-> offset, valid |-> TRUE]
<1>1. 0 \in T
  <2>1. Copies(count, offset, 0, [i \in 0 .. 0 |-> base])
    BY DEF Copies
  <2> QED BY <2>1
<1>2. ASSUME NEW k \in Nat, k \in T
      PROVE  k + 1 \in T
  <2>1. PICK f : Copies(count, offset, k, f)
    BY <1>2
  <2> DEFINE g == [i \in 0 .. k + 1 |-> IF i = 0 THEN base ELSE Copy(f[i - 1], blocks[i])]
  <2> HIDE DEF base
  <2>2. \A i \in 0 .. k : i \in 0 .. k + 1
    OBVIOUS
  <2>3. \A i \in 0 .. k : g[i] = f[i]
    BY <2>1, <2>2, Zenon DEF Copies, base
  <2>4. \A i \in 0 .. k + 1 : i # 0 => i - 1 \in 0 .. k
    OBVIOUS
  <2>5. Copies(count, offset, k + 1, g)
    BY <2>3, <2>4, Zenon DEF Copies, base
  <2> QED BY <2>5
<1>3. Nat \subseteq T
  BY <1>1, <1>2, NatInductive
<1> QED BY <1>3

LEMMA CopyLast ==
  ASSUME NEW count, NEW offset, Len(blocks) \in Nat
  PROVE  \E f : Copies(count, offset, Len(blocks), f) /\ GetData(count, offset) = f[Len(blocks)]
<1> DEFINE f == CHOOSE f : Copies(count, offset, Len(blocks), f)
<1>1. Copies(count, offset, Len(blocks), f)
  BY CopiesExists
<1>2. GetData(count, offset) = f[Len(blocks)]
  BY DEF GetData, Copies
<1> QED BY <1>1, <1>2

(* What is there from the first block on is copied, all of it. *)
LEMMA FieldCopied ==
  ASSUME Inv, NEW offset \in Nat, offset <= ContinuousDataSize,
         NEW count \in Nat \ {0}, offset + count <= totalDataSize
  PROVE  /\ GetData(count, offset).valid = TRUE
         /\ GetData(count, offset).left = 0
         /\ GetData(count, offset).text = SubSeq(Contents, offset + 1, offset + count)
         /\ SubSeq(Contents, offset + 1, offset + count) \in Seq(Byte)
<1> DEFINE text == Part(Contents, offset, count)
           L == Len(blocks)
<1>1. /\ L \in Nat \ {0} /\ Contents \in Seq(Byte) /\ Behind(0) = Contents /\ Behind(L) = <<>>
      /\ totalDataSize \in Nat /\ totalDataSize = Len(Contents)
  BY BehindEnds, BlockAssumption DEF Inv, TypeOK
<1>2. /\ offset \in Nat /\ offset <= DataSize(blocks[1]) /\ DataSize(blocks[1]) \in Nat
  BY ContinuousSize
<1>3. count \in Nat \ {0} /\ offset + count <= Len(Contents)
  BY <1>1, <1>2
<1>4. text \in Seq(Byte)
  <2> DEFINE o == offset
             k == count
  <2>1. o \in Nat /\ k \in Nat /\ o + k <= Len(Contents)
    BY <1>2, <1>3
  <2> HIDE DEF o, k
  <2>2. Part(Contents, o, k) \in Seq(Byte)
    BY <1>1, <2>1, PartProperties
  <2> QED BY <2>2 DEF o, k
<1>5. PICK f : Copies(count, offset, L, f) /\ GetData(count, offset) = f[L]
  BY <1>1, CopyLast
<1> HIDE DEF text, L
<1> DEFINE T == {i \in Nat : i <= L => Copied(f[i], i, text)}
<1>6. 0 \in T
  <2> DEFINE acc == [text |-> <<>>, left |-> count, offset |-> offset, valid |-> TRUE]
  <2>1. f[0] = acc
    BY <1>1, <1>5 DEF Copies
  <2>2. acc = [text |-> acc.text, left |-> acc.left, offset |-> acc.offset, valid |-> TRUE]
        /\ acc.text = <<>> /\ acc.left = count /\ acc.offset = offset
    OBVIOUS
  <2>3. <<>> \o Part(Contents, offset, count) = text
    BY <1>4, ConcatEmptySeq DEF text
  <2>4. <<>> \in Seq(Byte) /\ 0 + 1 = 1
    BY EmptySeq
  <2> HIDE DEF acc
  <2>5. Copied(acc, 0, text)
    BY <1>1, <1>2, <1>3, <2>2, <2>3, <2>4 DEF Copied
  <2> QED BY <2>1, <2>5
<1>7. ASSUME NEW i \in Nat, i \in T
      PROVE  i + 1 \in T
  <2> SUFFICES ASSUME i + 1 <= L PROVE Copied(f[i + 1], i + 1, text)
    OBVIOUS
  <2>1. i + 1 \in 0 .. L /\ i + 1 # 0 /\ (i + 1) - 1 = i /\ i <= L /\ i < Len(blocks)
    BY <1>1 DEF L
  <2>2. f[i + 1] = Copy(f[i], blocks[i + 1])
    BY <1>5, <2>1 DEF Copies
  <2>3. Copied(f[i], i, text)
    BY <1>7, <2>1
  <2> QED BY <2>1, <2>2, <2>3, CopyNext
<1>8. Copied(f[L], L, text)
  <2>1. Nat \subseteq T
    <3> HIDE DEF T
    <3> QED BY <1>6, <1>7, NatInductive
  <2> QED BY <1>1, <2>1
<1> DEFINE acc == f[L]
<1>9. acc.valid = TRUE /\ acc.left = 0 /\ acc.text = text
  <2> HIDE DEF acc
  <2>1. Copied(acc, L, text)
    BY <1>8 DEF acc
  <2>2. acc.left = 0 /\ acc.offset = 0
    <3>1. Len(<<>>) = 0
      BY EmptySeq
    <3>2. acc.offset \in Nat /\ acc.left \in Nat /\ acc.offset + acc.left <= 0
      BY <1>1, <2>1, <3>1 DEF Copied
    <3> QED BY <3>2
  <2>3. Part(<<>>, 0, 0) = <<>>
    BY PartNone, EmptySeq
  <2>4. acc.text \in Seq(Byte) /\ acc.text \o <<>> = text
    BY <1>1, <2>1, <2>2, <2>3 DEF Copied
  <2>5. acc.text \o <<>> = acc.text
    BY <2>4, ConcatEmptySeq
  <2>6. acc.valid = TRUE
    BY <2>1 DEF Copied
  <2> QED BY <2>2, <2>4, <2>5, <2>6
<1> HIDE DEF acc
<1>10. GetData(count, offset) = acc
  BY <1>5 DEF acc
<1> QED BY <1>4, <1>9, <1>10 DEF text, Part

LEMMA FieldsAreReadable ==
  ASSUME Inv
  PROVE  FieldsReadable
<1> SUFFICES ASSUME NEW offset \in 0 .. ContinuousDataSize,
                    NEW count \in 1 .. totalDataSize - offset
             PROVE  Reads(count, offset)
  BY DEF FieldsReadable
<1>1. totalDataSize \in Nat
  BY BlockAssumption DEF Inv, TypeOK
<1>2. ContinuousDataSize \in Nat
  BY ContinuousSize
<1>3. /\ offset \in Nat /\ offset <= ContinuousDataSize
      /\ count \in Nat \ {0} /\ offset + count <= totalDataSize
  BY <1>1, <1>2
<1> QED BY <1>3, FieldCopied DEF Reads

(* Where an element is first. *)
LEMMA SelectFirst ==
  ASSUME NEW E, NEW q \in Seq(E), NEW e
  PROVE  LET u == SelectInSeq(q, LAMBDA x : x = e) IN
         \/ u = 0 /\ \A k \in 1 .. Len(q) : q[k] # e
         \/ u \in 1 .. Len(q) /\ q[u] = e /\ \A k \in 1 .. u - 1 : q[k] # e
<1> DEFINE I == {i \in 1 .. Len(q) : q[i] = e}
           u == SelectInSeq(q, LAMBDA x : x = e)
<1>1. u = IF I # {} THEN Min(I) ELSE 0
  BY DEF SelectInSeq
<1>2. ASSUME I = {}
      PROVE  u = 0 /\ \A k \in 1 .. Len(q) : q[k] # e
  BY <1>1, <1>2
<1>3. ASSUME I # {}
      PROVE  u \in 1 .. Len(q) /\ q[u] = e /\ \A k \in 1 .. u - 1 : q[k] # e
  <2>1. I \subseteq Nat
    BY LenProperties
  <2>2. \E x \in I : \A y \in I : x <= y
    <3> DEFINE T == {n \in Nat : \A x \in I : x <= n => \E y \in I : \A z \in I : y <= z}
    <3>1. 0 \in T
      BY <2>1
    <3>2. ASSUME NEW n \in Nat, n \in T
          PROVE  n + 1 \in T
      <4> SUFFICES ASSUME NEW x \in I, x <= n + 1
                   PROVE  \E y \in I : \A z \in I : y <= z
        OBVIOUS
      <4> HIDE DEF I
      <4>1. CASE \E z \in I : z <= n
        BY <3>2, <4>1
      <4>2. CASE ~(\E z \in I : z <= n)
        <5>1. \A z \in I : x <= z
          BY <2>1, <4>2
        <5> QED BY <5>1
      <4> QED BY <4>1, <4>2
    <3>3. Nat \subseteq T
      <4> HIDE DEF T
      <4> QED BY <3>1, <3>2, NatInductive
    <3>4. PICK x \in I : TRUE
      BY <1>3
    <3> HIDE DEF I
    <3>5. x \in Nat /\ x \in T /\ x <= x
      <4>1. x \in Nat
        BY <2>1, <3>4
      <4> HIDE DEF T
      <4> QED BY <3>3, <4>1
    <3> QED BY <3>4, <3>5
  <2>3. Min(I) \in I /\ \A y \in I : Min(I) <= y
    <3> HIDE DEF I
    <3> QED BY <2>2 DEF Min
  <2>4. u = Min(I)
    BY <1>1, <1>3
  <2> DEFINE v == Min(I)
  <2>5. v \in 1 .. Len(q) /\ q[v] = e
    BY <2>3
  <2>6. \A k \in 1 .. v - 1 : q[k] # e
    <3> SUFFICES ASSUME NEW k \in 1 .. v - 1, q[k] = e PROVE FALSE
      OBVIOUS
    <3>1. v \in Nat /\ v <= Len(q) /\ Len(q) \in Nat
      BY <2>5, LenProperties
    <3> HIDE DEF v
    <3>2. k \in 1 .. Len(q)
      BY <3>1
    <3>3. k \in I
      BY <3>2
    <3>4. v <= k
      BY <2>3, <3>3 DEF v
    <3> QED BY <3>1, <3>4
  <2> HIDE DEF v, u
  <2> QED BY <2>4, <2>5, <2>6 DEF v
<1> HIDE DEF u
<1> QED BY <1>2, <1>3 DEF u

(* What getline has when it comes to the block behind i blocks. *)
Scanned(acc, i, delim, text) ==
  /\ acc = [text |-> acc.text, delim |-> delim, offset |-> acc.offset,
            found |-> acc.found, valid |-> TRUE]
  /\ acc.text \in Seq(Byte) /\ acc.found \in BOOLEAN
  /\ \A k \in 1 .. Len(acc.text) : acc.text[k] # delim
  /\ acc.found => \E s \in Seq(Byte) : text = (acc.text \o <<delim>>) \o s
  /\ ~acc.found =>
       /\ acc.offset \in Nat
       /\ i < Len(blocks) =>
            \/ acc.offset < DataSize(blocks[i + 1])
            \/ acc.offset = 0 /\ IsEmpty(blocks[i + 1])
       /\ acc.text \o Rest(Behind(i), acc.offset) = text

LEMMA DataOrEmpty ==
  ASSUME NEW b \in CleanBlock
  PROVE  /\ DataSize(b) \in Nat
         /\ IsEmpty(b) => DataSize(b) = 0
         /\ ~IsEmpty(b) => 0 < DataSize(b)
<1>1. b.space \in Nat /\ Clean(b)
  BY BlockFacts DEF CleanBlock
<1>2. DataSize(b) \in Nat
  BY <1>1, DataOfClean
<1>3. IsEmpty(b) => DataSize(b) = 0
  BY DataOfClean DEF IsEmpty
<1>4. ~IsEmpty(b) => 0 < DataSize(b)
  BY <1>1, DataOfClean DEF IsEmpty, Clean
<1> QED BY <1>2, <1>3, <1>4

(* From the second block on the offset is 0. *)
LEMMA ScannedBehind ==
  ASSUME Inv, NEW i \in Nat, i < Len(blocks), NEW delim, NEW text, NEW t \in Seq(Byte),
         \A k \in 1 .. Len(t) : t[k] # delim, t \o Behind(i + 1) = text
  PROVE  Scanned([text |-> t, delim |-> delim, offset |-> 0, found |-> FALSE, valid |-> TRUE],
                 i + 1, delim, text)
<1> DEFINE acc == [text |-> t, delim |-> delim, offset |-> 0, found |-> FALSE, valid |-> TRUE]
           j == i + 1
<1>1. acc.text = t /\ acc.found = FALSE /\ acc.offset = 0
  OBVIOUS
<1>2. acc = [text |-> acc.text, delim |-> delim, offset |-> acc.offset,
             found |-> acc.found, valid |-> TRUE]
  OBVIOUS
<1> HIDE DEF acc
<1>3. j < Len(blocks) => 0 < DataSize(blocks[j + 1]) \/ IsEmpty(blocks[j + 1])
  <2> SUFFICES ASSUME j < Len(blocks)
               PROVE  0 < DataSize(blocks[j + 1]) \/ IsEmpty(blocks[j + 1])
    OBVIOUS
  <2>1. j \in Nat
    OBVIOUS
  <2> HIDE DEF j
  <2> QED BY <2>1, BehindBlock, DataOrEmpty
<1>4. t \o Rest(Behind(j), 0) = text
  <2>1. Behind(j) \in Seq(Byte)
    BY BehindBlock
  <2>2. Rest(Behind(j), 0) = Behind(j)
    BY <2>1, RestNone
  <2> QED BY <2>2
<1> HIDE DEF j
<1> QED BY <1>1, <1>2, <1>3, <1>4 DEF Scanned, acc, j

(* One turn of the loop of getline. *)
LEMMA ScanNext ==
  ASSUME Inv, NEW i \in Nat, i < Len(blocks), NEW delim \in Byte, NEW acc, NEW text,
         Scanned(acc, i, delim, text)
  PROVE  Scanned(Scan(acc, blocks[i + 1]), i + 1, delim, text)
<1> DEFINE b == blocks[i + 1]
           d == DataOf(b)
           r == Behind(i + 1)
           size == DataSize(b)
           t == acc.text
           o == acc.offset
<1>1. /\ acc = [text |-> t, delim |-> delim, offset |-> o, found |-> acc.found, valid |-> TRUE]
      /\ t \in Seq(Byte) /\ acc.found \in BOOLEAN
      /\ \A k \in 1 .. Len(t) : t[k] # delim
      /\ acc.found => \E s \in Seq(Byte) : text = (t \o <<delim>>) \o s
      /\ ~acc.found => /\ o \in Nat
                       /\ o < size \/ (o = 0 /\ IsEmpty(b))
                       /\ t \o Rest(Behind(i), o) = text
  BY DEF Scanned
<1>2. /\ b \in CleanBlock /\ d \in Seq(Byte) /\ r \in Seq(Byte) /\ Behind(i) = d \o r
  BY BehindBlock
<1>3. /\ size \in Nat /\ Len(d) = size
      /\ IsEmpty(b) => size = 0
  BY <1>2, DataOrEmpty, DataOfClean
<1> HIDE DEF t, o, r
<1>4. CASE acc.found
  <2>1. Scan(acc, b) = acc
    BY <1>4 DEF Scan
  <2>2. acc.found = TRUE
    BY <1>1, <1>4
  <2> QED BY <1>1, <2>1, <2>2 DEF Scanned, t, o
<1>5. CASE ~acc.found /\ IsEmpty(b)
  <2>1. acc.found = FALSE /\ o = 0
    BY <1>1, <1>3, <1>5
  <2>2. Scan(acc, b) = [acc EXCEPT !.offset = 0]
    BY <1>5 DEF Scan
  <2>3. acc = [text |-> t, delim |-> delim, offset |-> 0, found |-> FALSE, valid |-> TRUE]
    BY <1>1, <2>1
  <2>4. Scan(acc, b) = [text |-> t, delim |-> delim, offset |-> 0, found |-> FALSE, valid |-> TRUE]
    BY <2>2, <2>3
  <2>5. d = <<>>
    BY <1>2, <1>3, <1>5, EmptySeq
  <2>6. Behind(i) = r
    <3>1. <<>> \o r = r
      BY <1>2, ConcatEmptySeq
    <3> QED BY <1>2, <2>5, <3>1
  <2>7. t \o r = text
    BY <1>1, <1>2, <1>5, <2>1, <2>6, RestNone
  <2>8. Scanned([text |-> t, delim |-> delim, offset |-> 0, found |-> FALSE, valid |-> TRUE],
                i + 1, delim, text)
    BY <1>1, <2>7, ScannedBehind DEF r
  <2> QED BY <2>4, <2>8
<1>6. CASE ~acc.found /\ ~IsEmpty(b)
  <2> DEFINE rest == Rest(d, o)
             upTo == SelectInSeq(rest, LAMBDA byte : byte = delim)
             new == t \o (IF upTo = 0 THEN rest ELSE SubSeq(rest, 1, upTo - 1))
  <2>1. acc.found = FALSE /\ o \in Nat /\ o < size /\ o \in 0 .. Len(d)
    BY <1>1, <1>3, <1>6
  <2>2. Scan(acc, b) = [text |-> new, delim |-> delim, offset |-> 0, found |-> upTo > 0,
                        valid |-> TRUE]
    <3>1. acc.offset = o /\ acc.text = t /\ acc.delim = delim /\ acc.valid = TRUE
      BY <1>1 DEF o, t
    <3>2. SubSeq(d, acc.offset + 1, size) = rest
      BY <1>3, <3>1 DEF Rest
    <3> DEFINE Result(x, u) ==
                 [acc EXCEPT !.text = @ \o (IF u = 0 THEN x ELSE SubSeq(x, 1, u - 1)),
                             !.found = u > 0,
                             !.offset = 0,
                             !.valid = @ /\ acc.offset < size]
               y == SubSeq(d, acc.offset + 1, size)
               w == SelectInSeq(y, LAMBDA byte : byte = acc.delim)
    <3>3. Scan(acc, b) = Result(y, w)
      BY <1>6 DEF Scan
    <3> HIDE DEF Result, rest
    <3>31. y = rest /\ w = upTo
      <4> HIDE DEF y
      <4>1. y = rest
        BY <3>2 DEF y
      <4> QED BY <3>1, <4>1 DEF SelectInSeq
    <3> DEFINE piece == IF upTo = 0 THEN rest ELSE SubSeq(rest, 1, upTo - 1)
    <3> HIDE DEF piece, y, w, upTo
    <3>4. Scan(acc, b) =
            [acc EXCEPT !.text = @ \o piece, !.found = upTo > 0, !.offset = 0,
                        !.valid = @ /\ acc.offset < size]
      <4>1. Scan(acc, b) = Result(rest, upTo)
        BY <3>3, <3>31
      <4> QED BY <4>1 DEF piece, Result
    <3>5. (acc.valid /\ acc.offset < size) = TRUE
      BY <2>1, <3>1
    <3>6. Scan(acc, b) = [text |-> t \o piece, delim |-> delim, offset |-> 0,
                          found |-> upTo > 0, valid |-> TRUE]
      BY <1>1, <3>1, <3>4, <3>5, ZenonT(40)
    <3> QED BY <3>6 DEF piece
  <2>3. rest \in Seq(Byte)
    <3> HIDE DEF d
    <3> QED BY <1>2, <2>1, RestProperties
  <2>4. Rest(Behind(i), o) = rest \o r
    <3> HIDE DEF d
    <3> QED BY <1>2, <2>1, RestConcat
  <2> HIDE DEF rest
  <2>5. t \o (rest \o r) = text
    BY <1>1, <2>1, <2>4
  <2>6. \/ upTo = 0 /\ \A k \in 1 .. Len(rest) : rest[k] # delim
        \/ upTo \in 1 .. Len(rest) /\ rest[upTo] = delim
           /\ \A k \in 1 .. upTo - 1 : rest[k] # delim
    BY <2>3, SelectFirst
  <2> HIDE DEF upTo
  <2>7. \A u, v, w \in Seq(Byte) : (u \o v) \o w = u \o (v \o w)
    BY ConcatAssociative
  <2>8. ASSUME NEW v \in Seq(Byte), \A k \in 1 .. Len(v) : v[k] # delim
        PROVE  t \o v \in Seq(Byte) /\ \A k \in 1 .. Len(t \o v) : (t \o v)[k] # delim
    <3> DEFINE c == t \o v
    <3>1. /\ c \in Seq(Byte) /\ Len(c) = Len(t) + Len(v)
          /\ \A k \in 1 .. Len(t) + Len(v) : c[k] = IF k <= Len(t) THEN t[k] ELSE v[k - Len(t)]
          /\ Len(t) \in Nat /\ Len(v) \in Nat
      BY <1>1, ConcatProperties, LenProperties
    <3> HIDE DEF c
    <3>2. \A k \in 1 .. Len(c) : c[k] # delim
      <4> SUFFICES ASSUME NEW k \in 1 .. Len(c) PROVE c[k] # delim
        OBVIOUS
      <4>1. CASE k <= Len(t)
        <5>1. k \in 1 .. Len(t)
          BY <4>1
        <5> QED BY <1>1, <3>1, <4>1, <5>1
      <4>2. CASE ~(k <= Len(t))
        <5>1. k - Len(t) \in 1 .. Len(v)
          BY <3>1, <4>2
        <5> QED BY <2>8, <3>1, <4>2, <5>1
      <4> QED BY <4>1, <4>2
    <3> QED BY <3>1, <3>2 DEF c
  <2>9. CASE upTo = 0
    <3>1. new = t \o rest /\ (upTo > 0) = FALSE
      BY <2>9
    <3>2. \A k \in 1 .. Len(rest) : rest[k] # delim
      BY <2>6, <2>9
    <3> DEFINE x == t \o rest
    <3>3. x \in Seq(Byte) /\ \A k \in 1 .. Len(x) : x[k] # delim
      BY <2>3, <2>8, <3>2
    <3>4. x \o r = text
      BY <1>1, <1>2, <2>3, <2>5, <2>7, Zenon
    <3> HIDE DEF x
    <3>5. Scanned([text |-> x, delim |-> delim, offset |-> 0, found |-> FALSE, valid |-> TRUE],
                  i + 1, delim, text)
      BY <3>3, <3>4, ScannedBehind DEF r
    <3> QED BY <2>2, <3>1, <3>5 DEF x
  <2>10. CASE upTo # 0
    <3> DEFINE head == SubSeq(rest, 1, upTo - 1)
               back == Rest(rest, upTo)
               x == t \o head
               one == <<delim>>
               s == back \o r
    <3>1. upTo \in 1 .. Len(rest) /\ rest[upTo] = delim
          /\ \A k \in 1 .. upTo - 1 : rest[k] # delim
      BY <2>6, <2>10
    <3>2. new = t \o head /\ (upTo > 0) = TRUE
      <4>1. upTo > 0
        BY <3>1
      <4> QED BY <2>10, <4>1
    <3>3. /\ head \in Seq(Byte) /\ Len(head) = upTo - 1
          /\ \A k \in 1 .. upTo - 1 : head[k] = rest[k]
          /\ back \in Seq(Byte)
          /\ rest = (head \o one) \o back
      <4>1. /\ SubSeq(rest, 1, upTo - 1) \in Seq(Byte)
            /\ Len(SubSeq(rest, 1, upTo - 1)) = upTo - 1
            /\ \A k \in 1 .. upTo - 1 : SubSeq(rest, 1, upTo - 1)[k] = rest[k]
            /\ Rest(rest, upTo) \in Seq(Byte)
            /\ rest = (SubSeq(rest, 1, upTo - 1) \o <<rest[upTo]>>) \o Rest(rest, upTo)
        BY <2>3, <3>1, SplitAt
      <4> HIDE DEF head, back
      <4>2. head = SubSeq(rest, 1, upTo - 1) /\ back = Rest(rest, upTo) /\ one = <<rest[upTo]>>
        BY <3>1 DEF head, back
      <4> HIDE DEF one
      <4> QED BY <4>1, <4>2
    <3> HIDE DEF head, back
    <3>4. x \in Seq(Byte) /\ \A k \in 1 .. Len(x) : x[k] # delim
      <4>1. \A k \in 1 .. Len(head) : head[k] # delim
        BY <3>1, <3>3
      <4> QED BY <2>8, <3>3, <4>1
    <3>5. one \in Seq(Byte)
      OBVIOUS
    <3> HIDE DEF one
    <3>6. s \in Seq(Byte)
      BY <1>2, <3>3, ConcatProperties
    <3>7. text = (x \o one) \o s
      <4>1. \A u, v \in Seq(Byte) : u \o v \in Seq(Byte)
        BY ConcatProperties
      <4> DEFINE ho == head \o one
      <4>2. ho \in Seq(Byte)
        BY <3>3, <3>5, <4>1
      <4>3. rest = ho \o back
        BY <3>3
      <4>4. rest \o r = ho \o s
        <5> HIDE DEF ho
        <5>1. (ho \o back) \o r = ho \o (back \o r)
          BY <1>2, <2>7, <3>3, <4>2, Zenon
        <5> QED BY <4>3, <5>1
      <4>5. text = t \o (ho \o s)
        BY <2>5, <4>4
      <4>6. t \o (ho \o s) = (t \o ho) \o s
        <5> HIDE DEF ho, s
        <5> QED BY <1>1, <2>7, <3>6, <4>2, Zenon
      <4>7. t \o ho = x \o one
        BY <1>1, <2>7, <3>3, <3>5, Zenon
      <4> HIDE DEF ho, s, x
      <4> QED BY <4>5, <4>6, <4>7
    <3> HIDE DEF s
    <3>8. Scan(acc, b) = [text |-> x, delim |-> delim, offset |-> 0, found |-> TRUE, valid |-> TRUE]
      BY <2>2, <3>2
    <3> HIDE DEF x, b
    <3>9. Scanned([text |-> x, delim |-> delim, offset |-> 0, found |-> TRUE, valid |-> TRUE],
                  i + 1, delim, text)
      BY <3>4, <3>6, <3>7 DEF Scanned, one
    <3> QED BY <3>8, <3>9 DEF b
  <2> QED BY <2>9, <2>10
<1> QED BY <1>4, <1>5, <1>6

(* scanned[i] is what getline has after i blocks. *)
Scans(delim, offset, m, scanned) ==
  scanned = [i \in 0 .. m |->
               IF i = 0
               THEN [text |-> <<>>, delim |-> delim, offset |-> offset,
                     found |-> FALSE, valid |-> TRUE]
               ELSE Scan(scanned[i - 1], blocks[i])]

LEMMA ScansExists ==
  ASSUME NEW delim, NEW offset, NEW m \in Nat
  PROVE  \E f : Scans(delim, offset, m, f)
<1> DEFINE T == {k \in Nat : \E f : Scans(delim, offset, k, f)}
           base == [text |-> <<>>, delim |-> delim, offset |-> offset,
                    found |-> FALSE, valid |-> TRUE]
<1>1. 0 \in T
  <2>1. Scans(delim, offset, 0, [i \in 0 .. 0 |-> base])
    BY DEF Scans
  <2> QED BY <2>1
<1>2. ASSUME NEW k \in Nat, k \in T
      PROVE  k + 1 \in T
  <2>1. PICK f : Scans(delim, offset, k, f)
    BY <1>2
  <2> DEFINE g == [i \in 0 .. k + 1 |-> IF i = 0 THEN base ELSE Scan(f[i - 1], blocks[i])]
  <2> HIDE DEF base
  <2>2. \A i \in 0 .. k : i \in 0 .. k + 1
    OBVIOUS
  <2>3. \A i \in 0 .. k : g[i] = f[i]
    BY <2>1, <2>2, Zenon DEF Scans, base
  <2>4. \A i \in 0 .. k + 1 : i # 0 => i - 1 \in 0 .. k
    OBVIOUS
  <2>5. Scans(delim, offset, k + 1, g)
    BY <2>3, <2>4, Zenon DEF Scans, base
  <2> QED BY <2>5
<1>3. Nat \subseteq T
  BY <1>1, <1>2, NatInductive
<1> QED BY <1>3

LEMMA ScanLast ==
  ASSUME NEW delim, NEW offset, Len(blocks) \in Nat
  PROVE  \E f : Scans(delim, offset, Len(blocks), f) /\ GetLine(delim, offset) = f[Len(blocks)]
<1> DEFINE f == CHOOSE f : Scans(delim, offset, Len(blocks), f)
<1>1. Scans(delim, offset, Len(blocks), f)
  BY ScansExists
<1>2. GetLine(delim, offset) = f[Len(blocks)]
  BY DEF GetLine, Scans
<1> QED BY <1>1, <1>2

(* A line that begins in the first block is what is before the first       *)
(* delimiter, or everything when there is none.                            *)
LEMMA LineScanned ==
  ASSUME Inv, NEW delim \in Byte, NEW offset \in Nat, offset < ContinuousDataSize
  PROVE  /\ GetLine(delim, offset).valid = TRUE
         /\ GetLine(delim, offset).found \in BOOLEAN
         /\ GetLine(delim, offset).text \in Seq(Byte)
         /\ \A k \in 1 .. Len(GetLine(delim, offset).text) :
              GetLine(delim, offset).text[k] # delim
         /\ GetLine(delim, offset).found =>
              \E s \in Seq(Byte) :
                Rest(Contents, offset) = (GetLine(delim, offset).text \o <<delim>>) \o s
         /\ ~GetLine(delim, offset).found =>
              Rest(Contents, offset) = GetLine(delim, offset).text
<1> DEFINE text == Rest(Contents, offset)
           line == GetLine(delim, offset)
           L == Len(blocks)
<1>1. /\ L \in Nat \ {0} /\ Contents \in Seq(Byte) /\ Behind(0) = Contents /\ Behind(L) = <<>>
      /\ totalDataSize \in Nat /\ totalDataSize = Len(Contents)
  BY BehindEnds, BlockAssumption DEF Inv, TypeOK
<1>2. /\ offset < DataSize(blocks[1]) /\ DataSize(blocks[1]) \in Nat
      /\ offset \in 0 .. Len(Contents)
  BY <1>1, ContinuousSize
<1>3. text \in Seq(Byte)
  BY <1>1, <1>2, RestProperties
<1>4. PICK f : Scans(delim, offset, L, f) /\ GetLine(delim, offset) = f[L]
  BY <1>1, ScanLast
<1>5. line = f[L]
  BY <1>4
<1> HIDE DEF line
<1> HIDE DEF L, text
<1> DEFINE T == {i \in Nat : i <= L => Scanned(f[i], i, delim, text)}
<1>6. 0 \in T
  <2> DEFINE acc == [text |-> <<>>, delim |-> delim, offset |-> offset,
                     found |-> FALSE, valid |-> TRUE]
  <2>1. f[0] = acc
    BY <1>1, <1>4 DEF Scans
  <2>2. acc = [text |-> acc.text, delim |-> delim, offset |-> acc.offset,
               found |-> acc.found, valid |-> TRUE]
        /\ acc.text = <<>> /\ acc.offset = offset /\ acc.found = FALSE
    OBVIOUS
  <2> HIDE DEF acc
  <2>3. <<>> \o Rest(Behind(0), offset) = text
    <3>1. <<>> \o text = text
      BY <1>3, ConcatEmptySeq
    <3> QED BY <1>1, <3>1 DEF text
  <2>4. <<>> \in Seq(Byte) /\ 0 + 1 = 1 /\ \A k \in 1 .. Len(<<>>) : <<>>[k] # delim
    BY EmptySeq
  <2>5. Scanned(acc, 0, delim, text)
    BY <1>2, <2>2, <2>3, <2>4 DEF Scanned
  <2> QED BY <2>1, <2>5
<1>7. ASSUME NEW i \in Nat, i \in T
      PROVE  i + 1 \in T
  <2> SUFFICES ASSUME i + 1 <= L PROVE Scanned(f[i + 1], i + 1, delim, text)
    OBVIOUS
  <2>1. i + 1 \in 0 .. L /\ i + 1 # 0 /\ (i + 1) - 1 = i /\ i <= L /\ i < Len(blocks)
    BY <1>1 DEF L
  <2>2. f[i + 1] = Scan(f[i], blocks[i + 1])
    BY <1>4, <2>1 DEF Scans
  <2>3. Scanned(f[i], i, delim, text)
    BY <1>7, <2>1
  <2> QED BY <2>1, <2>2, <2>3, ScanNext
<1>8. Scanned(line, L, delim, text)
  <2>1. Nat \subseteq T
    <3> HIDE DEF T
    <3> QED BY <1>6, <1>7, NatInductive
  <2> QED BY <1>1, <1>5, <2>1
<1> DEFINE t == line.text
<1>9. /\ t \in Seq(Byte) /\ line.found \in BOOLEAN /\ line.valid = TRUE
      /\ \A k \in 1 .. Len(t) : t[k] # delim
  BY <1>8 DEF Scanned
<1>11. line.found => \E s \in Seq(Byte) : text = (t \o <<delim>>) \o s
  BY <1>8 DEF Scanned
<1>12. ~line.found => text = t
  <2> SUFFICES ASSUME ~line.found PROVE text = t
    OBVIOUS
  <2> DEFINE o == line.offset
  <2>1. o \in Nat /\ t \o Rest(<<>>, o) = text
    BY <1>1, <1>8 DEF Scanned
  <2> HIDE DEF o, t
  <2>2. Rest(<<>>, o) = <<>>
    <3>1. o + 1 > 0 /\ o + 1 \in Int /\ Len(<<>>) = 0
      BY <2>1, EmptySeq
    <3>2. Rest(<<>>, o) = SubSeq(<<>>, o + 1, 0)
      BY <3>1 DEF Rest
    <3> DEFINE m == o + 1
    <3> HIDE DEF m
    <3>3. SubSeq(<<>>, m, 0) = <<>>
      <4>1. m > 0 /\ m \in Int
        BY <3>1 DEF m
      <4> QED BY <4>1, SubSeqEmpty
    <3> QED BY <3>2, <3>3 DEF m
  <2>3. t \o <<>> = t
    BY <1>9, ConcatEmptySeq
  <2> QED BY <2>1, <2>2, <2>3
<1> HIDE DEF t
<1> QED BY <1>9, <1>11, <1>12 DEF t, line, text

LEMMA LinesAreReadable ==
  ASSUME Inv
  PROVE  LinesReadable
<1> DEFINE Text(offset) == SubSeq(Contents, offset + 1, totalDataSize)
<1> SUFFICES ASSUME NEW delim \in Byte, NEW offset \in 0 .. (ContinuousDataSize - 1)
             PROVE  LET line == GetLine(delim, offset) IN
                    /\ line.valid
                    /\ line.found <=> delim \in ToSet(Text(offset))
                    /\ line.found => Text(offset) = line.text \o <<delim>>
                         \o SubSeq(Text(offset), Len(line.text) + 2, Len(Text(offset)))
                    /\ delim \notin ToSet(line.text)
  BY DEF LinesReadable
<1> DEFINE text == Rest(Contents, offset)
           line == GetLine(delim, offset)
           t == line.text
<1>1. offset \in Nat /\ offset < ContinuousDataSize
  BY ContinuousSize
<1>3. Text(offset) = text
  BY DEF Rest, Inv
<1> HIDE DEF Text
<1>9. /\ line.valid = TRUE /\ line.found \in BOOLEAN /\ t \in Seq(Byte)
      /\ \A k \in 1 .. Len(t) : t[k] # delim
      /\ line.found => \E s \in Seq(Byte) : text = (t \o <<delim>>) \o s
      /\ ~line.found => text = t
  BY <1>1, LineScanned
<1> HIDE DEF text, line
<1>10. delim \notin ToSet(t)
  <2> HIDE DEF t
  <2>1. DOMAIN t = 1 .. Len(t)
    BY <1>9, LenProperties
  <2> QED BY <1>9, <2>1 DEF ToSet
<1>11. line.found =>
         /\ delim \in ToSet(text)
         /\ text = (t \o <<delim>>) \o SubSeq(text, Len(t) + 2, Len(text))
  <2> SUFFICES ASSUME line.found
               PROVE  /\ delim \in ToSet(text)
                      /\ text = (t \o <<delim>>) \o SubSeq(text, Len(t) + 2, Len(text))
    OBVIOUS
  <2>1. PICK s \in Seq(Byte) : text = (t \o <<delim>>) \o s
    BY <1>9
  <2> HIDE DEF t
  <2>2. \A u, v \in Seq(Byte) : \A q : q = (u \o <<delim>>) \o v =>
          /\ delim \in ToSet(q)
          /\ q = (u \o <<delim>>) \o SubSeq(q, Len(u) + 2, Len(q))
    BY ONLY delim \in Byte, AfterElement, ZenonT(40)
  <2> QED BY <1>9, <2>1, <2>2, Zenon
<1> HIDE DEF t
<1>14. line.found <=> delim \in ToSet(text)
  BY <1>9, <1>10, <1>11
<1> QED BY <1>3, <1>9, <1>10, <1>11, <1>14 DEF t, line

-----------------------------------------------------------------------------
(* Reads at any offset *)

(* What was not there stays so. *)
LEMMA CopyLost ==
  ASSUME NEW acc, NEW b, acc.valid = FALSE
  PROVE  Copy(acc, b).valid = FALSE
<1>1. CASE acc.left = 0
  BY <1>1 DEF Copy
<1>2. CASE acc.left # 0
  <2>1. Copy(acc, b).valid = (acc.valid /\ acc.offset <= DataSize(b))
    BY <1>2 DEF Copy
  <2> QED BY <2>1
<1> QED BY <1>1, <1>2

(* An offset beyond the first block: the code reads what is not there. *)
LEMMA FieldBeyond ==
  ASSUME Inv, NEW offset \in Nat, offset > ContinuousDataSize, NEW count \in Nat \ {0}
  PROVE  GetData(count, offset).valid = FALSE
<1> DEFINE L == Len(blocks)
<1>1. L \in Nat \ {0}
  BY BehindEnds
<1>2. ContinuousDataSize = DataSize(blocks[1]) /\ DataSize(blocks[1]) \in Nat
  BY ContinuousSize
<1>3. PICK f : Copies(count, offset, L, f) /\ GetData(count, offset) = f[L]
  BY <1>1, CopyLast
<1> HIDE DEF L
<1> DEFINE Lost(acc) == acc.valid = FALSE
           T == {i \in Nat : i + 1 <= L => Lost(f[i + 1])}
<1>4. 0 \in T
  <2> DEFINE acc == [text |-> <<>>, left |-> count, offset |-> offset, valid |-> TRUE]
  <2>1. 0 + 1 = 1 /\ 1 \in 0 .. L /\ 0 \in 0 .. L /\ 1 # 0 /\ 1 - 1 = 0
    BY <1>1
  <2>2. f[0] = acc /\ f[1] = Copy(f[0], blocks[1])
    BY <1>3, <2>1 DEF Copies
  <2>3. acc.left # 0 /\ acc.valid = TRUE /\ acc.offset = offset
    OBVIOUS
  <2> HIDE DEF acc
  <2>4. ~(acc.offset <= DataSize(blocks[1]))
    BY <1>2, <2>3
  <2>5. Copy(acc, blocks[1]).valid = FALSE
    BY <2>3, <2>4 DEF Copy
  <2> QED BY <2>1, <2>2, <2>5
<1>5. ASSUME NEW i \in Nat, i \in T
      PROVE  i + 1 \in T
  <2> HIDE DEF Lost
  <2> SUFFICES ASSUME (i + 1) + 1 <= L PROVE Lost(f[(i + 1) + 1])
    OBVIOUS
  <2> DEFINE j == i + 1
  <2>1. j + 1 \in 0 .. L /\ j + 1 # 0 /\ (j + 1) - 1 = j /\ j <= L
    BY <1>1
  <2>2. f[j + 1] = Copy(f[j], blocks[j + 1])
    BY <1>3, <2>1 DEF Copies
  <2>3. Lost(f[j])
    BY <1>5, <2>1
  <2> QED BY <2>2, <2>3, CopyLost DEF Lost
<1>6. Nat \subseteq T
  <2> HIDE DEF T
  <2> QED BY <1>4, <1>5, NatInductive
<1>7. L - 1 \in Nat /\ (L - 1) + 1 = L
  BY <1>1
<1>8. Lost(f[L])
  <2> HIDE DEF Lost
  <2> QED BY <1>6, <1>7
<1> QED BY <1>3, <1>8

(* What getdata still looks for goes beyond the bytes of the buffer. *)
Lacking(acc, i) ==
  /\ acc.left \in Nat \ {0} /\ acc.offset \in Nat /\ acc.valid = TRUE
  /\ i < Len(blocks) => acc.offset <= DataSize(blocks[i + 1])
  /\ acc.offset + acc.left > Len(Behind(i))

LEMMA LackingNext ==
  ASSUME Inv, NEW i \in Nat, i < Len(blocks), NEW acc, Lacking(acc, i)
  PROVE  Lacking(Copy(acc, blocks[i + 1]), i + 1)
<1> DEFINE b == blocks[i + 1]
           d == DataOf(b)
           r == Behind(i + 1)
           size == DataSize(b)
           n == IF size > acc.left + acc.offset THEN acc.left ELSE size - acc.offset
           new == Copy(acc, b)
<1>1. /\ acc.left \in Nat /\ acc.left # 0 /\ acc.offset \in Nat
      /\ acc.offset <= size
      /\ acc.offset + acc.left > Len(Behind(i))
  BY DEF Lacking
<1>2. /\ b \in CleanBlock /\ d \in Seq(Byte) /\ r \in Seq(Byte) /\ Behind(i) = d \o r
  BY BehindBlock
<1>3. /\ size \in Nat /\ Len(d) = size
  BY <1>2, DataOrEmpty, DataOfClean
<1>4. Len(r) \in Nat /\ Len(Behind(i)) = size + Len(r)
  <2> HIDE DEF d, r
  <2> QED BY <1>2, <1>3, ConcatProperties, LenProperties
<1>5. new.left = acc.left - n /\ new.offset = 0
  BY <1>1 DEF Copy
<1>6. new.valid = TRUE
  <2>1. acc.valid = TRUE
    BY DEF Lacking
  <2> QED BY <1>1, <2>1 DEF Copy
<1> HIDE DEF new, r, size
<1>7. n = size - acc.offset
  BY <1>1, <1>3, <1>4
<1>8. new.left \in Nat \ {0} /\ new.left > Len(r)
  BY <1>1, <1>3, <1>4, <1>5, <1>7
<1>9. i + 1 < Len(blocks) => 0 <= DataSize(blocks[(i + 1) + 1])
  <2> DEFINE j == i + 1
  <2> SUFFICES ASSUME j < Len(blocks) PROVE 0 <= DataSize(blocks[j + 1])
    OBVIOUS
  <2>1. j \in Nat
    OBVIOUS
  <2> HIDE DEF j
  <2>2. blocks[j + 1] \in CleanBlock
    BY <2>1, BehindBlock
  <2>3. DataSize(blocks[j + 1]) \in Nat
    BY <2>2, DataOrEmpty
  <2> QED BY <2>3
<1> QED BY <1>5, <1>6, <1>8, <1>9 DEF Lacking, r, new

(* getdata says so when there are not as many bytes. *)
LEMMA FieldIncomplete ==
  ASSUME Inv, NEW offset \in Nat, offset <= ContinuousDataSize,
         NEW count \in Nat \ {0}, offset + count > totalDataSize
  PROVE  /\ GetData(count, offset).valid = TRUE
         /\ GetData(count, offset).left > 0
<1> DEFINE L == Len(blocks)
<1>1. /\ L \in Nat \ {0} /\ Behind(0) = Contents /\ totalDataSize = Len(Contents)
  BY BehindEnds DEF Inv
<1>2. ContinuousDataSize = DataSize(blocks[1])
  BY ContinuousSize
<1>3. PICK f : Copies(count, offset, L, f) /\ GetData(count, offset) = f[L]
  BY <1>1, CopyLast
<1> HIDE DEF L
<1> DEFINE T == {i \in Nat : i <= L => Lacking(f[i], i)}
<1>4. 0 \in T
  <2> DEFINE acc == [text |-> <<>>, left |-> count, offset |-> offset, valid |-> TRUE]
  <2>1. 0 \in 0 .. L /\ 0 + 1 = 1
    BY <1>1
  <2>2. f[0] = acc
    BY <1>3, <2>1 DEF Copies
  <2>3. acc.left = count /\ acc.offset = offset /\ acc.valid = TRUE
    OBVIOUS
  <2> HIDE DEF acc
  <2>4. Lacking(acc, 0)
    BY <1>1, <1>2, <2>1, <2>3 DEF Lacking
  <2> QED BY <2>2, <2>4
<1>5. ASSUME NEW i \in Nat, i \in T
      PROVE  i + 1 \in T
  <2> SUFFICES ASSUME i + 1 <= L PROVE Lacking(f[i + 1], i + 1)
    OBVIOUS
  <2>1. i + 1 \in 0 .. L /\ i + 1 # 0 /\ (i + 1) - 1 = i /\ i <= L /\ i < Len(blocks)
    BY <1>1 DEF L
  <2>2. f[i + 1] = Copy(f[i], blocks[i + 1])
    BY <1>3, <2>1 DEF Copies
  <2>3. Lacking(f[i], i)
    BY <1>5, <2>1
  <2> QED BY <2>1, <2>2, <2>3, LackingNext
<1>6. Nat \subseteq T
  <2> HIDE DEF T
  <2> QED BY <1>4, <1>5, NatInductive
<1>7. Lacking(f[L], L)
  BY <1>1, <1>6
<1> QED BY <1>3, <1>7 DEF Lacking

(* When nothing is asked for nothing is read. *)
LEMMA NothingCopied ==
  ASSUME Inv, NEW offset
  PROVE  /\ GetData(0, offset).valid = TRUE
         /\ GetData(0, offset).left = 0
         /\ GetData(0, offset).text = <<>>
<1> DEFINE L == Len(blocks)
           acc == [text |-> <<>>, left |-> 0, offset |-> offset, valid |-> TRUE]
<1>1. L \in Nat \ {0}
  BY BehindEnds
<1>2. PICK f : Copies(0, offset, L, f) /\ GetData(0, offset) = f[L]
  BY <1>1, CopyLast
<1>3. \A b : Copy(acc, b) = acc
  BY DEF Copy
<1> DEFINE T == {i \in Nat : i <= L => f[i] = acc}
<1>4. 0 \in T
  BY <1>1, <1>2 DEF Copies
<1>5. ASSUME NEW i \in Nat, i \in T
      PROVE  i + 1 \in T
  <2> SUFFICES ASSUME i + 1 <= L PROVE f[i + 1] = acc
    OBVIOUS
  <2> HIDE DEF acc, L
  <2>1. i + 1 \in 0 .. L /\ i + 1 # 0 /\ (i + 1) - 1 = i /\ i <= L
    BY <1>1
  <2>2. f[i + 1] = Copy(f[i], blocks[i + 1])
    BY <1>2, <2>1 DEF Copies, L, acc
  <2>3. f[i] = acc
    BY <1>5, <2>1
  <2> QED BY <1>3, <2>2, <2>3
<1>6. Nat \subseteq T
  <2> HIDE DEF T
  <2> QED BY <1>4, <1>5, NatInductive
<1>7. f[L] = acc
  <2> HIDE DEF acc, L
  <2> QED BY <1>1, <1>6
<1> QED BY <1>2, <1>7

LEMMA ScanLost ==
  ASSUME NEW acc, NEW b,
         acc = [text |-> acc.text, delim |-> acc.delim, offset |-> acc.offset,
                found |-> acc.found, valid |-> acc.valid],
         acc.valid = FALSE \/ (~acc.found /\ ~IsEmpty(b) /\ ~(acc.offset < DataSize(b)))
  PROVE  LET new == Scan(acc, b) IN
         /\ new = [text |-> new.text, delim |-> new.delim, offset |-> new.offset,
                   found |-> new.found, valid |-> new.valid]
         /\ new.valid = FALSE
<1>1. CASE acc.found
  BY <1>1 DEF Scan
<1>2. CASE ~acc.found /\ IsEmpty(b)
  BY <1>2 DEF Scan
<1>3. CASE ~acc.found /\ ~IsEmpty(b)
  <2> DEFINE rest == SubSeq(DataOf(b), acc.offset + 1, DataSize(b))
             upTo == SelectInSeq(rest, LAMBDA byte : byte = acc.delim)
             piece == IF upTo = 0 THEN rest ELSE SubSeq(rest, 1, upTo - 1)
  <2>1. Scan(acc, b) = [acc EXCEPT !.text = @ \o piece, !.found = upTo > 0, !.offset = 0,
                                   !.valid = @ /\ acc.offset < DataSize(b)]
    BY <1>3 DEF Scan
  <2> HIDE DEF piece, upTo
  <2>2. (acc.valid /\ acc.offset < DataSize(b)) = FALSE
    BY <1>3
  <2>3. Scan(acc, b) = [text |-> acc.text \o piece, delim |-> acc.delim, offset |-> 0,
                        found |-> upTo > 0, valid |-> FALSE]
    BY <2>1, <2>2, ZenonT(40)
  <2> QED BY <2>3
<1> QED BY <1>1, <1>2, <1>3

(* A line that begins beyond the first block runs over everything. *)
LEMMA LineBeyond ==
  ASSUME Inv, totalDataSize > 0, NEW delim, NEW offset \in Nat, offset >= ContinuousDataSize
  PROVE  GetLine(delim, offset).valid = FALSE
<1> DEFINE L == Len(blocks)
<1>1. L \in Nat \ {0}
  BY BehindEnds
<1>2. /\ ContinuousDataSize = DataSize(blocks[1]) /\ DataSize(blocks[1]) \in Nat
      /\ DataSize(blocks[1]) > 0
  BY ContinuousSize, GoodReadable DEF DataReachable
<1>3. PICK f : Scans(delim, offset, L, f) /\ GetLine(delim, offset) = f[L]
  BY <1>1, ScanLast
<1>4. ~IsEmpty(blocks[1])
  BY <1>2 DEF IsEmpty, DataSize
<1> HIDE DEF L
<1> DEFINE Lost(acc) == /\ acc = [text |-> acc.text, delim |-> acc.delim, offset |-> acc.offset,
                                  found |-> acc.found, valid |-> acc.valid]
                        /\ acc.valid = FALSE
           T == {i \in Nat : i + 1 <= L => Lost(f[i + 1])}
<1>5. 0 \in T
  <2> DEFINE acc == [text |-> <<>>, delim |-> delim, offset |-> offset,
                     found |-> FALSE, valid |-> TRUE]
  <2>1. 0 + 1 = 1 /\ 1 \in 0 .. L /\ 0 \in 0 .. L /\ 1 # 0 /\ 1 - 1 = 0
    BY <1>1
  <2>2. f[0] = acc /\ f[1] = Scan(f[0], blocks[1])
    BY <1>3, <2>1 DEF Scans
  <2>3. ~(acc.offset < DataSize(blocks[1])) /\ acc.found = FALSE
        /\ acc = [text |-> acc.text, delim |-> acc.delim, offset |-> acc.offset,
                  found |-> acc.found, valid |-> acc.valid]
    BY <1>2
  <2>4. Lost(Scan(acc, blocks[1]))
    <3> HIDE DEF acc
    <3> QED BY <1>4, <2>3, ScanLost
  <2> HIDE DEF acc, Lost
  <2> QED BY <2>1, <2>2, <2>4
<1>6. ASSUME NEW i \in Nat, i \in T
      PROVE  i + 1 \in T
  <2>1. \A acc, b : Lost(acc) => Lost(Scan(acc, b))
    BY ScanLost
  <2> HIDE DEF Lost
  <2> SUFFICES ASSUME (i + 1) + 1 <= L PROVE Lost(f[(i + 1) + 1])
    OBVIOUS
  <2> DEFINE j == i + 1
  <2>2. j + 1 \in 0 .. L /\ j + 1 # 0 /\ (j + 1) - 1 = j /\ j <= L
    BY <1>1
  <2>3. f[j + 1] = Scan(f[j], blocks[j + 1])
    BY <1>3, <2>2 DEF Scans
  <2>4. Lost(f[j])
    BY <1>6, <2>2
  <2> QED BY <2>1, <2>3, <2>4
<1>7. Nat \subseteq T
  <2> HIDE DEF T
  <2> QED BY <1>5, <1>6, NatInductive
<1>8. L - 1 \in Nat /\ (L - 1) + 1 = L
  BY <1>1
<1>9. Lost(f[L])
  <2> HIDE DEF Lost
  <2> QED BY <1>7, <1>8
<1> QED BY <1>3, <1>9

(* Taking nothing from a buffer that is not empty changes nothing. *)
LEMMA PopNothing ==
  ASSUME Inv, totalDataSize > 0, ResizePop(0)
  PROVE  UNCHANGED vars
<1>1. Len(blocks) \in Nat \ {0} /\ blocks # <<>>
  BY BehindEnds, EmptySeq
<1> DEFINE acc == [blocks |-> blocks, left |-> 0, space |-> currSpace]
<1>2. PICK f : Releases(0, Len(blocks), f) /\ Release(0) = f[Len(blocks)]
  BY <1>1, ReleaseLast
<1>3. ReleaseBlock(acc) = acc
  BY DEF ReleaseBlock
<1> DEFINE T == {i \in Nat : i <= Len(blocks) => f[i] = acc}
<1>4. 0 \in T
  BY <1>1, <1>2 DEF Releases
<1>5. ASSUME NEW i \in Nat, i \in T
      PROVE  i + 1 \in T
  <2> SUFFICES ASSUME i + 1 <= Len(blocks) PROVE f[i + 1] = acc
    OBVIOUS
  <2> HIDE DEF acc
  <2>1. i + 1 \in 0 .. Len(blocks) /\ i + 1 # 0 /\ (i + 1) - 1 = i /\ i <= Len(blocks)
    BY <1>1
  <2>2. f[i + 1] = ReleaseBlock(f[i])
    BY <1>2, <2>1 DEF Releases
  <2>3. f[i] = acc
    BY <1>5, <2>1
  <2> QED BY <1>3, <2>2, <2>3
<1>6. Nat \subseteq T
  <2> HIDE DEF T
  <2> QED BY <1>4, <1>5, NatInductive
<1>7. Release(0) = acc
  <2> HIDE DEF acc
  <2> QED BY <1>1, <1>2, <1>6
<1>8. ~IsEmpty(Head(blocks))
  <2>1. DataSize(Head(blocks)) > 0
    BY GoodReadable DEF DataReachable, ContinuousDataSize
  <2> QED BY <2>1 DEF IsEmpty, DataSize
<1>9. totalDataSize \in Nat
  BY BlockAssumption DEF Inv, TypeOK
<1>10. blocks' = blocks /\ currSpace' = currSpace /\ totalDataSize' = totalDataSize - 0
  BY <1>7, <1>8 DEF ResizePop
<1> QED BY <1>9, <1>10 DEF vars

-----------------------------------------------------------------------------
(* The results *)

(* Every reachable buffer is a chain of full blocks and one with room. *)
THEOREM Invariance == Spec => []Inv
<1>1. Init => Inv
  BY InitInv
<1>2. Inv /\ [Next]_vars => Inv'
  BY NextStep
<1> QED BY <1>1, <1>2, PTL DEF Spec

(* The offsets of every block stay in it, currSpaceBlock_ in the chain, and *)
(* totalDataSize_ from 0 to the bound.                                     *)
THEOREM TypeCorrect == Spec => []TypeOK
<1>1. Inv => TypeOK
  BY DEF Inv
<1> QED BY <1>1, Invariance, PTL

(* read() is never given an empty space, which it would answer with 0, as  *)
(* at the end of the file.                                                 *)
THEOREM ReadsHaveRoom == Spec => []ReadHasRoom
<1>1. Inv => ReadHasRoom
  BY GoodReadable
<1> QED BY <1>1, Invariance, PTL

(* As long as bytes are left, currDataBlock_ has some, so that the handler *)
(* of a writable socket sends some.                                        *)
THEOREM DataIsReachable == Spec => []DataReachable
<1>1. Inv => DataReachable
  BY GoodReadable
<1> QED BY <1>1, Invariance, PTL

(* totalDataSize_ is the number of bytes in the blocks. *)
THEOREM TotalIsExact == Spec => []TotalAgrees
<1>1. Inv => TotalAgrees
  BY GoodReadable
<1> QED BY <1>1, Invariance, PTL

(* getdata never asks for more than a block has beyond its data, and what  *)
(* it returns is what is in the buffer there, whatever blocks it is in.    *)
THEOREM FieldsCopied == Spec => []FieldsReadable
<1>1. Inv => FieldsReadable
  BY FieldsAreReadable
<1> QED BY <1>1, Invariance, PTL

(* getline stops at the first delimiter behind the offset, in whatever     *)
(* block it is, never runs past the data, and finds none that is not there. *)
THEOREM LinesFound == Spec => []LinesReadable
<1>1. Inv => LinesReadable
  BY LinesAreReadable
<1> QED BY <1>1, Invariance, PTL

(* What each operation makes of the bytes in the buffer. *)
Operations ==
  /\ \A data \in Seq(Byte) : Receive(data) => Contents' = Contents \o data
  /\ \A header, field1, field2 \in Seq(Byte) :
       ToBytes(header, <<field1, field2>>) =>
         /\ Contents = <<>>
         /\ Contents' = header \o (field1 \o field2)
  /\ \A n \in Nat : Consume(n) => Contents' = SubSeq(Contents, n + 1, Len(Contents))
  /\ ClearAll => Contents' = <<>>

(* read() adds its bytes behind those in the buffer, toBytes leaves exactly *)
(* the length field and the fields of the message behind it, write() and   *)
(* the parser take bytes from the front, and nothing else happens to them. *)
THEOREM OperationsAreExact == Spec => [][Operations]_vars
<1>1. ASSUME Inv, Next PROVE Operations
  <2>1. ASSUME NEW data \in Seq(Byte), Receive(data)
        PROVE  Contents' = Contents \o data
    BY <1>1, <2>1, ReceiveStep
  <2>2. ASSUME NEW header \in Seq(Byte), NEW field1 \in Seq(Byte), NEW field2 \in Seq(Byte),
               ToBytes(header, <<field1, field2>>)
        PROVE  Contents = <<>> /\ Contents' = header \o (field1 \o field2)
    BY <1>1, <2>2, ToBytesStep
  <2>3. ASSUME NEW n \in Nat, Consume(n)
        PROVE  Contents' = SubSeq(Contents, n + 1, Len(Contents))
    BY <1>1, <2>3, ConsumeStep DEF Rest
  <2>4. ASSUME ClearAll PROVE Contents' = <<>>
    BY <1>1, <2>4, ClearAllStep
  <2> QED BY <2>1, <2>2, <2>3, <2>4 DEF Operations
<1>2. Inv /\ [Next]_vars => [Operations]_vars
  BY <1>1
<1> QED BY <1>2, Invariance, PTL DEF Spec

LEMMA PushOf ==
  ASSUME NEW q \in Seq(Byte), NEW data \in Seq(Byte), data # <<>>
  PROVE  /\ q \o data \in Seq(Byte)
         /\ Len(q \o data) > Len(q)
         /\ SubSeq(q \o data, 1, Len(q)) = q
<1> DEFINE r == q \o data
<1>1. /\ r \in Seq(Byte) /\ Len(r) = Len(q) + Len(data)
      /\ Len(q) \in Nat /\ Len(data) \in Nat \ {0}
  BY ConcatProperties, LenProperties, EmptySeq
<1>2. SubSeq(q \o data, 1, Len(q)) = q
  <2> DEFINE m == Len(q)
             one == 1
  <2>1. one \in 1 .. m + 1 /\ m \in one - 1 .. m /\ m = Len(q) /\ one = 1 /\ m \in Nat
    BY <1>1
  <2> HIDE DEF m, one
  <2>2. SubSeq(q \o data, one, m) = SubSeq(q, one, m)
    BY <2>1, SubSeqOfConcat1
  <2>3. SubSeq(q, 1, m) = q
    BY <2>1, SubSeqFull
  <2> QED BY <2>1, <2>2, <2>3
<1> HIDE DEF r
<1>3. Len(r) > Len(q)
  BY <1>1
<1> QED BY <1>1, <1>2, <1>3 DEF r

(* A BlockBuffer is a queue of bytes: growing, recycling and skipping      *)
(* blocks neither loses nor repeats nor reorders a byte, and the length    *)
(* field that toBytes writes last leaves the fields behind it alone.       *)
THEOREM IsQueue == Spec => QueueSpec
<1>1. Init => Queue!Init
  BY InitInv DEF Queue!Init
<1>2. ASSUME Inv, [Next]_vars
      PROVE  [Queue!Next]_Contents
  <2>1. Contents \in Seq(Byte)
    BY <1>2, ContentsType DEF Inv, GoodChain, Contents, ContentsOf
  <2>2. CASE Contents' = Contents
    BY <2>2
  <2>3. ASSUME NEW data \in Seq(Byte), data # <<>>, Contents' = Contents \o data
        PROVE  Queue!Push
    BY <2>1, <2>3, PushOf DEF Queue!Push
  <2>4. ASSUME NEW n \in 1 .. Len(Contents), Contents' = Rest(Contents, n)
        PROVE  Queue!Pop
    BY <2>4 DEF Queue!Pop, Rest
  <2>5. \/ Contents' = Contents
        \/ \E data \in Seq(Byte) : data # <<>> /\ Contents' = Contents \o data
        \/ \E n \in 1 .. Len(Contents) : Contents' = Rest(Contents, n)
    BY <1>2, NextStep
  <2> QED BY <2>2, <2>3, <2>4, <2>5 DEF Queue!Next
<1> QED BY <1>1, <1>2, Invariance, PTL DEF Spec, QueueSpec, Queue!Spec
=============================================================================
