---------------------------- MODULE SequenceLemmas ----------------------------
(* What Filter and FlattenSeq make of sequences, parts of sequences, and the *)
(* induction these lemmas rest on: over a set, so that no operator has to   *)
(* be a parameter.                                                          *)
EXTENDS SeqFilter, SequencesExt, FiniteSetTheorems, SequenceTheorems, WellFoundedInduction, TLAPS

(* A set with zero and all successors holds every natural number. *)
LEMMA NatInductive ==
  ASSUME NEW T, 0 \in T, \A n \in Nat : n \in T => n + 1 \in T
  PROVE  Nat \subseteq T
<1> SUFFICES ASSUME Nat \ T # {} PROVE FALSE
  OBVIOUS
<1>1. \E n \in Nat \ T : \A k \in Nat \ T : ~ (<<k, n>> \in OpToRel(<, Nat))
  BY WFMin, NatLessThanWellFounded, Zenon
<1>2. \E n \in Nat \ T : \A k \in Nat \ T : ~ (k < n)
  BY <1>1, Zenon DEF OpToRel
<1>3. PICK n \in Nat \ T : \A k \in Nat \ T : ~ (k < n)
  BY <1>2
<1>4. n # 0 /\ n - 1 \in Nat /\ n - 1 < n /\ (n - 1) + 1 = n
  BY <1>3
<1> QED BY <1>3, <1>4

(* A set with the empty sequence and all extensions holds every sequence. *)
LEMMA SeqInductive ==
  ASSUME NEW E, NEW T, <<>> \in T,
         \A q \in Seq(E), e \in E : q \in T => Append(q, e) \in T
  PROVE  Seq(E) \subseteq T
<1> DEFINE L == {n \in Nat : \A q \in Seq(E) : Len(q) = n => q \in T}
<1>1. 0 \in L
  BY EmptySeq
<1>2. ASSUME NEW n \in Nat, n \in L
      PROVE  n + 1 \in L
  <2> SUFFICES ASSUME NEW q \in Seq(E), Len(q) = n + 1 PROVE q \in T
    OBVIOUS
  <2>1. q # <<>>
    BY EmptySeq
  <2>2. PICK r \in Seq(E), e \in E : q = Append(r, e)
    BY <2>1, SequenceEmptyOrAppend
  <2>3. Len(r) = n
    BY <2>2, AppendProperties, LenProperties
  <2> QED BY <1>2, <2>2, <2>3
<1>3. Nat \subseteq L
  BY <1>1, <1>2, NatInductive
<1> QED BY <1>3, LenProperties

-----------------------------------------------------------------------------
(* f[i] is what is kept of the first i elements of q, for i up to n. *)
Keeps(q, S, n, f) ==
  f = [i \in 0 .. n |->
         IF i = 0 THEN <<>>
         ELSE IF q[i] \in S THEN Append(f[i - 1], q[i]) ELSE f[i - 1]]

(* The recursive function of Filter exists. *)
LEMMA KeepsExists ==
  ASSUME NEW q, NEW S, NEW n \in Nat
  PROVE  \E f : Keeps(q, S, n, f)
<1> DEFINE T == {k \in Nat : \E f : Keeps(q, S, k, f)}
<1>1. 0 \in T
  <2>1. Keeps(q, S, 0, [i \in 0 .. 0 |-> <<>>])
    BY DEF Keeps
  <2> QED BY <2>1
<1>2. ASSUME NEW k \in Nat, k \in T
      PROVE  k + 1 \in T
  <2>1. PICK f : Keeps(q, S, k, f)
    BY <1>2
  <2> DEFINE g == [i \in 0 .. k + 1 |->
                     IF i = 0 THEN <<>>
                     ELSE IF q[i] \in S THEN Append(f[i - 1], q[i]) ELSE f[i - 1]]
  <2>2. \A i \in 0 .. k : i \in 0 .. k + 1
    OBVIOUS
  <2>3. \A i \in 0 .. k : g[i] = f[i]
    BY <2>1, <2>2, Zenon DEF Keeps
  <2>4. \A i \in 0 .. k + 1 : i # 0 => i - 1 \in 0 .. k
    OBVIOUS
  <2>5. Keeps(q, S, k + 1, g)
    BY <2>3, <2>4, Zenon DEF Keeps
  <2> QED BY <2>5
<1>3. Nat \subseteq T
  BY <1>1, <1>2, NatInductive
<1> QED BY <1>3

(* It is determined by the elements it goes through. *)
LEMMA KeepsAgree ==
  ASSUME NEW q, NEW r, NEW S, NEW n \in Nat, NEW m \in Nat, n <= m,
         \A i \in 1 .. n : q[i] = r[i],
         NEW f, NEW g, Keeps(q, S, n, f), Keeps(r, S, m, g)
  PROVE  \A i \in 0 .. n : f[i] = g[i]
<1> DEFINE T == {k \in Nat : k <= n => f[k] = g[k]}
<1>1. 0 \in T
  BY DEF Keeps
<1>2. ASSUME NEW k \in Nat, k \in T
      PROVE  k + 1 \in T
  <2> SUFFICES ASSUME k + 1 <= n PROVE f[k + 1] = g[k + 1]
    OBVIOUS
  <2>1. /\ k + 1 \in 0 .. n /\ k + 1 \in 0 .. m /\ k + 1 \in 1 .. n
        /\ k + 1 # 0 /\ (k + 1) - 1 = k /\ k <= n
    OBVIOUS
  <2>2. f[k + 1] = IF q[k + 1] \in S THEN Append(f[k], q[k + 1]) ELSE f[k]
    BY <2>1 DEF Keeps
  <2>3. g[k + 1] = IF r[k + 1] \in S THEN Append(g[k], r[k + 1]) ELSE g[k]
    BY <2>1 DEF Keeps
  <2> QED BY <1>2, <2>1, <2>2, <2>3
<1>3. Nat \subseteq T
  BY <1>1, <1>2, NatInductive
<1> QED BY <1>3

(* Filter is the last value of any such function. *)
LEMMA FilterKeeps ==
  ASSUME NEW q, NEW S, Len(q) \in Nat
  PROVE  \E f : Keeps(q, S, Len(q), f) /\ Filter(q, S) = f[Len(q)]
<1> DEFINE f == CHOOSE f : Keeps(q, S, Len(q), f)
<1>1. Keeps(q, S, Len(q), f)
  BY KeepsExists
<1>2. Filter(q, S) = f[Len(q)]
  BY DEF Filter, Keeps
<1> QED BY <1>1, <1>2

-----------------------------------------------------------------------------
(* Nothing is kept of nothing. *)
LEMMA FilterEmpty ==
  ASSUME NEW S
  PROVE  Filter(<<>>, S) = <<>>
<1>1. Len(<<>>) = 0
  BY EmptySeq
<1>2. PICK f : Keeps(<<>>, S, 0, f) /\ Filter(<<>>, S) = f[0]
  BY <1>1, FilterKeeps
<1> QED BY <1>2 DEF Keeps

(* An element that is appended is kept when it is in the set. *)
LEMMA FilterAppend ==
  ASSUME NEW E, NEW q \in Seq(E), NEW e \in E, NEW S
  PROVE  Filter(Append(q, e), S) =
           IF e \in S THEN Append(Filter(q, S), e) ELSE Filter(q, S)
<1> DEFINE r == Append(q, e)
           n == Len(q)
<1>1. /\ n \in Nat /\ Len(r) = n + 1
      /\ \A i \in 1 .. n : q[i] = r[i]
      /\ r[n + 1] = e
  BY AppendProperties, LenProperties
<1>2. PICK f : Keeps(q, S, n, f) /\ Filter(q, S) = f[n]
  BY <1>1, FilterKeeps
<1>3. PICK g : Keeps(r, S, n + 1, g) /\ Filter(r, S) = g[n + 1]
  <2>1. Len(r) \in Nat
    BY <1>1
  <2> HIDE DEF r, n
  <2> QED BY <1>1, <2>1, FilterKeeps
<1> HIDE DEF r, n
<1>4. f[n] = g[n]
  <2>1. n + 1 \in Nat /\ n <= n + 1 /\ n \in 0 .. n
    BY <1>1
  <2>2. Keeps(q, S, n, f) /\ Keeps(r, S, n + 1, g)
    BY <1>2, <1>3
  <2> DEFINE m == n + 1
  <2> HIDE DEF m
  <2>3. Keeps(r, S, m, g) /\ m \in Nat /\ n <= m
    BY <2>1, <2>2 DEF m
  <2>4. \A i \in 0 .. n : f[i] = g[i]
    BY <1>1, <2>2, <2>3, KeepsAgree
  <2> QED BY <2>1, <2>4
<1>5. n + 1 \in 0 .. n + 1 /\ n + 1 # 0 /\ (n + 1) - 1 = n
  BY <1>1
<1>6. g[n + 1] = IF r[n + 1] \in S THEN Append(g[n], r[n + 1]) ELSE g[n]
  BY <1>3, <1>5 DEF Keeps
<1> QED BY <1>1, <1>2, <1>3, <1>4, <1>6 DEF r

(* What is kept are elements of the sequence that are in the set. *)
LEMMA FilterType ==
  ASSUME NEW E, NEW q \in Seq(E), NEW S
  PROVE  Filter(q, S) \in Seq(E \cap S)
<1> DEFINE T == {r \in Seq(E) : Filter(r, S) \in Seq(E \cap S)}
<1>1. <<>> \in T
  BY FilterEmpty, EmptySeq
<1>2. ASSUME NEW r \in Seq(E), NEW e \in E, r \in T
      PROVE  Append(r, e) \in T
  <2>1. Append(r, e) \in Seq(E)
    BY AppendProperties
  <2>2. e \in S => Append(Filter(r, S), e) \in Seq(E \cap S)
    BY <1>2, AppendProperties
  <2>3. Filter(Append(r, e), S) \in Seq(E \cap S)
    BY <1>2, <2>2, FilterAppend
  <2> QED BY <2>1, <2>3
<1>3. Seq(E) \subseteq T
  BY <1>1, <1>2, SeqInductive
<1> QED BY <1>3

(* What is kept is a sequence over the same set. *)
LEMMA FilterSeq ==
  ASSUME NEW E, NEW q \in Seq(E), NEW S
  PROVE  Filter(q, S) \in Seq(E)
<1>1. Filter(q, S) \in Seq(E \cap S)
  BY FilterType
<1>2. E \cap S \subseteq E
  OBVIOUS
<1> QED BY <1>1, <1>2, SeqMonotonic, Zenon

(* What is kept of two sequences is what is kept of each. *)
LEMMA FilterConcat ==
  ASSUME NEW E, NEW q \in Seq(E), NEW r \in Seq(E), NEW S
  PROVE  Filter(q \o r, S) = Filter(q, S) \o Filter(r, S)
<1> DEFINE T == {t \in Seq(E) : Filter(q \o t, S) = Filter(q, S) \o Filter(t, S)}
<1>0. Filter(q, S) \in Seq(E)
  BY FilterSeq
<1>1. <<>> \in T
  BY <1>0, FilterEmpty, ConcatEmptySeq, EmptySeq
<1>2. ASSUME NEW t \in Seq(E), NEW e \in E, t \in T
      PROVE  Append(t, e) \in T
  <2>1. /\ Append(t, e) \in Seq(E) /\ Append(t, e) = t \o <<e>>
        /\ <<e>> \in Seq(E) /\ q \o t \in Seq(E) /\ Filter(t, S) \in Seq(E)
    BY AppendProperties, AppendIsConcat, ConcatProperties, FilterSeq
  <2>2. q \o Append(t, e) = Append(q \o t, e)
    BY <2>1, AppendIsConcat, ConcatAssociative
  <2>3. e \in S => Filter(q, S) \o Append(Filter(t, S), e) =
                     Append(Filter(q, S) \o Filter(t, S), e)
    <3>1. Filter(q, S) \o Filter(t, S) \in Seq(E)
      BY <1>0, <2>1, ConcatProperties
    <3>2. Append(Filter(t, S), e) = Filter(t, S) \o <<e>>
      BY <2>1, AppendIsConcat
    <3>3. Append(Filter(q, S) \o Filter(t, S), e) = (Filter(q, S) \o Filter(t, S)) \o <<e>>
      BY <3>1, AppendIsConcat
    <3>4. \A u, v, w \in Seq(E) : (u \o v) \o w = u \o (v \o w)
      BY ConcatAssociative, SMTT(30)
    <3>5. (Filter(q, S) \o Filter(t, S)) \o <<e>> = Filter(q, S) \o (Filter(t, S) \o <<e>>)
      BY <1>0, <2>1, <3>4, Zenon
    <3> QED BY <3>2, <3>3, <3>5, Zenon
  <2>4. \A u \in Seq(E) :
          Filter(Append(u, e), S) = IF e \in S THEN Append(Filter(u, S), e) ELSE Filter(u, S)
    BY FilterAppend
  <2>5. Filter(q \o Append(t, e), S) = Filter(q, S) \o Filter(Append(t, e), S)
    BY <1>2, <2>1, <2>2, <2>3, <2>4
  <2> QED BY <2>1, <2>5
<1>3. Seq(E) \subseteq T
  BY <1>1, <1>2, SeqInductive
<1> QED BY <1>3

(* What is kept of one element. *)
LEMMA FilterOne ==
  ASSUME NEW E, NEW e \in E, NEW S
  PROVE  Filter(<<e>>, S) = IF e \in S THEN <<e>> ELSE <<>>
<1>1. <<e>> = Append(<<>>, e)
  OBVIOUS
<1>2. \A q \in Seq(E) :
        Filter(Append(q, e), S) = IF e \in S THEN Append(Filter(q, S), e) ELSE Filter(q, S)
  BY FilterAppend
<1> QED BY <1>1, <1>2, EmptySeq, FilterEmpty

(* The first element comes first, if it is kept. *)
LEMMA FilterHead ==
  ASSUME NEW E, NEW q \in Seq(E), q # <<>>, NEW S
  PROVE  Filter(q, S) =
           (IF Head(q) \in S THEN <<Head(q)>> ELSE <<>>) \o Filter(Tail(q), S)
<1>1. Head(q) \in E /\ Tail(q) \in Seq(E) /\ <<Head(q)>> \in Seq(E)
  BY HeadTailProperties
<1>2. q = <<Head(q)>> \o Tail(q)
  BY <1>1, HeadTailProperties, ConcatProperties, LenProperties, SeqEqual
<1>3. Filter(<<Head(q)>> \o Tail(q), S) = Filter(<<Head(q)>>, S) \o Filter(Tail(q), S)
  <2>1. \A u, v \in Seq(E) : Filter(u \o v, S) = Filter(u, S) \o Filter(v, S)
    BY FilterConcat
  <2> QED BY <1>1, <2>1
<1>4. Filter(<<Head(q)>>, S) = IF Head(q) \in S THEN <<Head(q)>> ELSE <<>>
  BY <1>1, FilterOne
<1> QED BY <1>2, <1>3, <1>4

-----------------------------------------------------------------------------
(* A sequence whose elements fall into finitely many classes is no longer  *)
(* than the classes would be if each held as many as it may.               *)
LEMMA LengthBound ==
  ASSUME NEW E, NEW K, IsFiniteSet(K), NEW class \in [E -> K],
         NEW q \in Seq(E), NEW b \in Nat,
         \A k \in K : Len(Filter(q, {e \in E : class[e] = k})) <= b
  PROVE  Len(q) <= Cardinality(K) * b
<1> DEFINE In(k) == {e \in E : class[e] = k}
           Rank(i) == Len(Filter(SubSeq(q, 1, i), In(class[q[i]])))
           place == [i \in 1 .. Len(q) |-> <<class[q[i]], Rank(i)>>]
<1>1. Len(q) \in Nat /\ \A i \in 1 .. Len(q) : q[i] \in E /\ class[q[i]] \in K
  BY LenProperties, ElementOfSeq
<1>2. ASSUME NEW i \in 0 .. Len(q), NEW j \in i + 1 .. Len(q), NEW S, q[j] \in S
      PROVE  /\ Len(Filter(SubSeq(q, 1, i), S)) \in Nat
             /\ Len(Filter(SubSeq(q, 1, j), S)) \in Nat
             /\ Len(Filter(SubSeq(q, 1, i), S)) < Len(Filter(SubSeq(q, 1, j), S))
  <2> DEFINE a == SubSeq(q, 1, i)
             m == SubSeq(q, i + 1, j - 1)
  <2>1. /\ a \in Seq(E) /\ m \in Seq(E) /\ a \o m \in Seq(E) /\ q[j] \in E
    <3>1. \A k \in 1 .. i : q[k] \in E
      BY <1>1
    <3>2. \A k \in i + 1 .. j - 1 : q[k] \in E
      BY <1>1
    <3>3. a \in Seq(E)
      BY <1>1, <3>1, SubSeqProperties
    <3>4. m \in Seq(E)
      BY <1>1, <3>2, SubSeqProperties
    <3> QED BY <1>1, <3>3, <3>4, ConcatProperties
  <2>2. SubSeq(q, 1, j) = Append(a \o m, q[j])
    <3>1. a \o m = SubSeq(q, 1, j - 1)
      BY <1>1, ConcatAdjacentSubSeq
    <3>2. SubSeq(q, 1, j) = SubSeq(q, 1, j - 1) \o <<q[j]>>
      BY <1>1, SubSeqRecursiveSecond
    <3> QED BY <2>1, <3>1, <3>2, AppendIsConcat
  <2>3. Filter(SubSeq(q, 1, j), S) = Append(Filter(a, S) \o Filter(m, S), q[j])
    <3>1. \A u \in Seq(E), e \in S \cap E :
            Filter(Append(u, e), S) = Append(Filter(u, S), e)
      BY FilterAppend
    <3>2. \A u, v \in Seq(E) : Filter(u \o v, S) = Filter(u, S) \o Filter(v, S)
      BY FilterConcat
    <3> HIDE DEF a, m
    <3> QED BY <1>2, <2>1, <2>2, <3>1, <3>2
  <2>4. Filter(a, S) \in Seq(E) /\ Filter(m, S) \in Seq(E)
    BY <2>1, FilterSeq
  <2>5. /\ Filter(a, S) \o Filter(m, S) \in Seq(E)
        /\ Len(Filter(a, S) \o Filter(m, S)) = Len(Filter(a, S)) + Len(Filter(m, S))
    BY <2>4, ConcatProperties
  <2>6. Len(Filter(SubSeq(q, 1, j), S)) = Len(Filter(a, S)) + Len(Filter(m, S)) + 1
    BY <2>1, <2>3, <2>5, AppendProperties
  <2>7. Len(Filter(a, S)) \in Nat /\ Len(Filter(m, S)) \in Nat
    BY <2>4, LenProperties
  <2> HIDE DEF a, m
  <2>8. /\ Len(Filter(a, S)) \in Nat
        /\ Len(Filter(SubSeq(q, 1, j), S)) \in Nat
        /\ Len(Filter(a, S)) < Len(Filter(SubSeq(q, 1, j), S))
    BY <2>6, <2>7
  <2> QED BY <2>8 DEF a
<1>3. ASSUME NEW i \in 1 .. Len(q)
      PROVE  Rank(i) \in 1 .. b
  <2> DEFINE S == In(class[q[i]])
  <2>1. q[i] \in S
    BY <1>1
  <2>2. Rank(i) \in Nat /\ Rank(i) > 0
    <3>1. 0 \in 0 .. Len(q) /\ i \in 0 + 1 .. Len(q)
      BY <1>1
    <3>2. Len(Filter(SubSeq(q, 1, 0), S)) < Rank(i) /\ Rank(i) \in Nat
          /\ Len(Filter(SubSeq(q, 1, 0), S)) \in Nat
      BY <1>2, <2>1, <3>1
    <3> HIDE DEF Rank, S
    <3> QED BY <3>2
  <2>3. Rank(i) <= Len(Filter(q, S))
    <3>1. /\ SubSeq(q, 1, i) \in Seq(E) /\ SubSeq(q, i + 1, Len(q)) \in Seq(E)
          /\ q = SubSeq(q, 1, i) \o SubSeq(q, i + 1, Len(q))
      <4>1. \A k \in 1 .. i : q[k] \in E
        BY <1>1
      <4>2. \A k \in i + 1 .. Len(q) : q[k] \in E
        BY <1>1
      <4>3. SubSeq(q, 1, Len(q)) = q
        BY SubSeqFull
      <4>4. SubSeq(q, 1, i) \o SubSeq(q, i + 1, Len(q)) = SubSeq(q, 1, Len(q))
        BY <1>1, ConcatAdjacentSubSeq
      <4>5. SubSeq(q, 1, i) \in Seq(E)
        BY <1>1, <4>1, SubSeqProperties
      <4>6. SubSeq(q, i + 1, Len(q)) \in Seq(E)
        BY <1>1, <4>2, SubSeqProperties
      <4> QED BY <4>3, <4>4, <4>5, <4>6
    <3> DEFINE u == SubSeq(q, 1, i)
               v == SubSeq(q, i + 1, Len(q))
    <3> HIDE DEF S, u, v
    <3>2. Filter(q, S) = Filter(u, S) \o Filter(v, S)
      <4>1. \A x, y \in Seq(E) : Filter(x \o y, S) = Filter(x, S) \o Filter(y, S)
        BY FilterConcat
      <4> QED BY <3>1, <4>1 DEF u, v
    <3>3. /\ Len(Filter(q, S)) = Len(Filter(u, S)) + Len(Filter(v, S))
          /\ Len(Filter(u, S)) \in Nat /\ Len(Filter(v, S)) \in Nat
      BY <3>1, <3>2, FilterSeq, ConcatProperties, LenProperties DEF u, v
    <3>4. Rank(i) = Len(Filter(u, S))
      BY DEF S, u
    <3> HIDE DEF Rank
    <3> QED BY <3>3, <3>4
  <2>4. Len(Filter(q, S)) <= b
    BY <1>1
  <2>5. Len(Filter(q, S)) \in Nat
    BY FilterSeq, LenProperties
  <2> HIDE DEF Rank, S
  <2> QED BY <2>2, <2>3, <2>4, <2>5
<1>4. place \in [1 .. Len(q) -> K \X (1 .. b)]
  BY <1>1, <1>3
<1>5. ASSUME NEW i \in 1 .. Len(q), NEW j \in 1 .. Len(q), i < j
      PROVE  place[i] # place[j]
  <2> SUFFICES ASSUME class[q[i]] = class[q[j]] PROVE Rank(i) # Rank(j)
    BY Zenon
  <2>1. q[j] \in In(class[q[j]]) /\ i \in 0 .. Len(q) /\ j \in i + 1 .. Len(q)
    BY <1>1, <1>5
  <2>2. Rank(i) < Rank(j) /\ Rank(i) \in Nat /\ Rank(j) \in Nat
    BY <1>2, <2>1
  <2> HIDE DEF Rank
  <2> QED BY <2>2
<1>6. IsInjective(place)
  <2>1. \A i, j \in 1 .. Len(q) : place[i] = place[j] => i = j
    <3> HIDE DEF place
    <3> QED BY <1>1, <1>5
  <2> QED BY <1>4, <2>1 DEF IsInjective
<1>7. /\ IsFiniteSet(K \X (1 .. b))
      /\ Cardinality(K \X (1 .. b)) = Cardinality(K) * b
  <2>1. IsFiniteSet(1 .. b) /\ Cardinality(1 .. b) = b
    BY FS_Interval
  <2> QED BY <2>1, FS_Product
<1>8. Cardinality(1 .. Len(q)) = Len(q)
  <2>1. \A n \in Nat : Cardinality(1 .. n) = n
    BY FS_Interval
  <2> QED BY <1>1, <2>1
<1>9. Cardinality(1 .. Len(q)) <= Cardinality(K \X (1 .. b))
  <2> HIDE DEF place
  <2>1. place \in Injection(1 .. Len(q), K \X (1 .. b))
    BY <1>4, <1>6 DEF Injection
  <2> QED BY <1>7, <2>1, FS_Injection
<1> QED BY <1>7, <1>8, <1>9

(* Two functions that start alike and go on alike are the same. *)
LEMMA SameRun ==
  ASSUME NEW a \in Int, NEW n \in Int, a <= n, NEW f, NEW g,
         f[a] = g[a],
         \A i \in a + 1 .. n : f[i - 1] = g[i - 1] => f[i] = g[i]
  PROVE  \A i \in a .. n : f[i] = g[i]
<1> DEFINE T == {k \in Nat : a + k <= n => f[a + k] = g[a + k]}
<1>1. 0 \in T
  <2>1. a + 0 = a
    OBVIOUS
  <2> QED BY <2>1
<1>2. ASSUME NEW k \in Nat, k \in T
      PROVE  k + 1 \in T
  <2> SUFFICES ASSUME a + (k + 1) <= n PROVE f[a + (k + 1)] = g[a + (k + 1)]
    OBVIOUS
  <2> DEFINE i == a + (k + 1)
  <2>1. i \in a + 1 .. n /\ i - 1 = a + k /\ a + k <= n
    OBVIOUS
  <2>2. f[a + k] = g[a + k]
    BY <1>2, <2>1
  <2> HIDE DEF i
  <2>3. f[i] = g[i]
    BY <2>1, <2>2
  <2> QED BY <2>3 DEF i
<1>3. Nat \subseteq T
  BY <1>1, <1>2, NatInductive
<1> SUFFICES ASSUME NEW i \in a .. n PROVE f[i] = g[i]
  OBVIOUS
<1>4. i - a \in Nat /\ a + (i - a) = i /\ i <= n
  OBVIOUS
<1>5. i - a \in T
  BY <1>3, <1>4
<1> QED BY <1>4, <1>5

-----------------------------------------------------------------------------
(* Sequences of sequences, one behind the other *)

(* f[i] is the first i sequences of q one behind the other. *)
Joins(q, n, f) == f = [i \in 1 .. n |-> IF i = 1 THEN q[i] ELSE f[i - 1] \o q[i]]

(* The recursive function of FlattenSeq exists. *)
LEMMA JoinsExists ==
  ASSUME NEW q, NEW n \in Nat
  PROVE  \E f : Joins(q, n, f)
<1> DEFINE T == {k \in Nat : \E f : Joins(q, k, f)}
<1>1. 0 \in T
  <2>1. Joins(q, 0, [i \in 1 .. 0 |-> q[i]])
    BY DEF Joins
  <2> QED BY <2>1
<1>2. ASSUME NEW k \in Nat, k \in T
      PROVE  k + 1 \in T
  <2>1. PICK f : Joins(q, k, f)
    BY <1>2
  <2> DEFINE g == [i \in 1 .. k + 1 |-> IF i = 1 THEN q[i] ELSE f[i - 1] \o q[i]]
  <2>2. \A i \in 1 .. k : i \in 1 .. k + 1
    OBVIOUS
  <2>3. \A i \in 1 .. k : g[i] = f[i]
    BY <2>1, <2>2, Zenon DEF Joins
  <2>4. \A i \in 1 .. k + 1 : i # 1 => i - 1 \in 1 .. k
    OBVIOUS
  <2>5. Joins(q, k + 1, g)
    BY <2>3, <2>4, Zenon DEF Joins
  <2> QED BY <2>5
<1>3. Nat \subseteq T
  BY <1>1, <1>2, NatInductive
<1> QED BY <1>3

(* It depends on the sequences it goes through only. *)
LEMMA JoinsAgree ==
  ASSUME NEW q, NEW r, NEW n \in Nat \ {0}, NEW m \in Nat, n <= m,
         \A i \in 1 .. n : q[i] = r[i],
         NEW f, NEW g, Joins(q, n, f), Joins(r, m, g)
  PROVE  f[n] = g[n]
<1>1. f[1] = g[1]
  <2>1. 1 \in 1 .. n /\ 1 \in 1 .. m
    OBVIOUS
  <2> QED BY <2>1 DEF Joins
<1>2. ASSUME NEW i \in 1 + 1 .. n, f[i - 1] = g[i - 1]
      PROVE  f[i] = g[i]
  <2>1. i \in 1 .. n /\ i \in 1 .. m /\ i # 1
    OBVIOUS
  <2>2. f[i] = f[i - 1] \o q[i]
    BY <2>1 DEF Joins
  <2>3. g[i] = g[i - 1] \o r[i]
    BY <2>1 DEF Joins
  <2> QED BY <1>2, <2>1, <2>2, <2>3
<1>3. 1 \in Int /\ n \in Int /\ 1 <= n /\ n \in 1 .. n
  OBVIOUS
<1>4. \A i \in 1 .. n : f[i] = g[i]
  <2> DEFINE a == 1
  <2>1. /\ a \in Int /\ f[a] = g[a] /\ a <= n
        /\ \A i \in a + 1 .. n : f[i - 1] = g[i - 1] => f[i] = g[i]
    BY <1>1, <1>2, <1>3
  <2> HIDE DEF a
  <2>2. \A i \in a .. n : f[i] = g[i]
    BY <1>3, <2>1, SameRun, SMTT(30)
  <2> QED BY <2>2 DEF a
<1> QED BY <1>3, <1>4

(* FlattenSeq is the last value of any such function. *)
LEMMA FlattenJoins ==
  ASSUME NEW q, Len(q) \in Nat \ {0}
  PROVE  \E f : Joins(q, Len(q), f) /\ FlattenSeq(q) = f[Len(q)]
<1> DEFINE f == CHOOSE f : Joins(q, Len(q), f)
<1>1. Joins(q, Len(q), f)
  BY JoinsExists
<1>2. FlattenSeq(q) = f[Len(q)]
  BY DEF FlattenSeq, Joins
<1> QED BY <1>1, <1>2

(* What is appended comes last. *)
LEMMA FlattenAppend ==
  ASSUME NEW E, NEW q \in Seq(Seq(E)), NEW e \in Seq(E)
  PROVE  FlattenSeq(Append(q, e)) = FlattenSeq(q) \o e
<1> DEFINE r == Append(q, e)
           n == Len(q)
<1>1. /\ n \in Nat /\ Len(r) = n + 1
      /\ \A i \in 1 .. n : r[i] = q[i]
      /\ r[n + 1] = e
  BY AppendProperties, LenProperties
<1>2. PICK g : Joins(r, n + 1, g) /\ FlattenSeq(r) = g[n + 1]
  <2>1. Len(r) \in Nat \ {0}
    BY <1>1
  <2> HIDE DEF r, n
  <2> QED BY <1>1, <2>1, FlattenJoins
<1> HIDE DEF r
<1>3. CASE n = 0
  <2>1. q = <<>>
    BY <1>3, EmptySeq
  <2>2. FlattenSeq(q) = q
    BY <1>3 DEF FlattenSeq
  <2>3. g[1] = r[1]
    BY <1>2, <1>3 DEF Joins
  <2>4. FlattenSeq(q) \o e = e
    BY <2>1, <2>2, ConcatEmptySeq
  <2> QED BY <1>1, <1>2, <1>3, <2>3, <2>4 DEF r
<1>4. CASE n # 0
  <2>1. PICK f : Joins(q, n, f) /\ FlattenSeq(q) = f[n]
    BY <1>1, <1>4, FlattenJoins
  <2> HIDE DEF n
  <2>2. g[n + 1] = g[n] \o r[n + 1]
    <3>1. n + 1 \in 1 .. n + 1 /\ n + 1 # 1 /\ (n + 1) - 1 = n
      BY <1>1, <1>4
    <3> QED BY <1>2, <3>1 DEF Joins
  <2>3. f[n] = g[n]
    <3> DEFINE m == n + 1
    <3>1. n \in Nat \ {0} /\ m \in Nat /\ n <= m
      BY <1>1, <1>4
    <3> HIDE DEF m
    <3>2. Joins(r, m, g)
      BY <1>2 DEF m
    <3> QED BY <1>1, <2>1, <3>1, <3>2, JoinsAgree
  <2> QED BY <1>1, <1>2, <2>1, <2>2, <2>3 DEF r
<1> QED BY <1>3, <1>4

(* Nothing comes of nothing. *)
LEMMA FlattenEmpty == FlattenSeq(<<>>) = <<>>
<1>1. Len(<<>>) = 0
  BY EmptySeq
<1> QED BY <1>1 DEF FlattenSeq

-----------------------------------------------------------------------------
(* Parts of sequences *)

(* What is left of a sequence without its first elements. *)
Rest(q, n) == SubSeq(q, n + 1, Len(q))

LEMMA RestProperties ==
  ASSUME NEW E, NEW q \in Seq(E), NEW n \in 0 .. Len(q)
  PROVE  /\ Rest(q, n) \in Seq(E) /\ Len(Rest(q, n)) = Len(q) - n
         /\ \A i \in 1 .. Len(q) - n : Rest(q, n)[i] = q[n + i]
<1> DEFINE r == SubSeq(q, n + 1, Len(q))
           m == n + 1
<1>1. /\ Len(q) \in Nat /\ m \in Int /\ \A i \in m .. Len(q) : q[i] \in E
  BY LenProperties, ElementOfSeq
<1>2. Len(q) - m + 1 = Len(q) - n /\ (m <= Len(q) <=> n < Len(q)) /\ n <= Len(q)
      /\ \A i \in 1 .. Len(q) - n : m + i - 1 = n + i
  BY <1>1
<1>3. /\ r \in Seq(E) /\ Len(r) = IF m <= Len(q) THEN Len(q) - m + 1 ELSE 0
      /\ \A i \in 1 .. Len(q) - m + 1 : r[i] = q[m + i - 1]
  <2> HIDE DEF m
  <2>1. SubSeq(q, m, Len(q)) \in Seq(E)
    BY <1>1, SubSeqProperties
  <2>2. Len(SubSeq(q, m, Len(q))) = IF m <= Len(q) THEN Len(q) - m + 1 ELSE 0
    BY <1>1, SubSeqProperties
  <2>3. \A i \in 1 .. Len(q) - m + 1 : SubSeq(q, m, Len(q))[i] = q[m + i - 1]
    BY <1>1, SubSeqProperties
  <2> QED BY <2>1, <2>2, <2>3 DEF m
<1> HIDE DEF r, m
<1>4. /\ r \in Seq(E) /\ Len(r) = Len(q) - n
      /\ \A i \in 1 .. Len(q) - n : r[i] = q[n + i]
  <2>1. Len(r) = Len(q) - n
    BY <1>1, <1>2, <1>3
  <2>2. \A i \in 1 .. Len(q) - n : r[i] = q[m + i - 1]
    BY ONLY <1>2, <1>3
  <2>3. \A i \in 1 .. Len(q) - n : r[i] = q[n + i]
    BY ONLY <1>2, <2>2
  <2> QED BY <1>3, <2>1, <2>3
<1> QED BY <1>4 DEF Rest, r

LEMMA RestNone ==
  ASSUME NEW E, NEW q \in Seq(E)
  PROVE  Rest(q, 0) = q
<1>1. Len(q) \in Nat
  BY LenProperties
<1>2. 0 + 1 = 1
  OBVIOUS
<1> QED BY <1>2, SubSeqFull DEF Rest

(* Taking twice. *)
LEMMA RestRest ==
  ASSUME NEW E, NEW q \in Seq(E), NEW m \in Nat, NEW n \in Nat, m + n <= Len(q)
  PROVE  Rest(Rest(q, m), n) = Rest(q, m + n)
<1> DEFINE r == Rest(q, m)
           x == Rest(r, n)
           k == m + n
           y == Rest(q, k)
<1>1. Len(q) \in Nat /\ m \in 0 .. Len(q) /\ k \in 0 .. Len(q)
  BY LenProperties
<1>2. /\ r \in Seq(E) /\ Len(r) = Len(q) - m
      /\ \A i \in 1 .. Len(q) - m : r[i] = q[m + i]
  BY <1>1, RestProperties
<1> HIDE DEF r
<1>3. n \in 0 .. Len(r)
  BY <1>1, <1>2
<1>4. /\ x \in Seq(E) /\ Len(x) = Len(r) - n
      /\ \A i \in 1 .. Len(r) - n : x[i] = r[n + i]
  BY <1>2, <1>3, RestProperties
<1> HIDE DEF k, x
<1>5. /\ y \in Seq(E) /\ Len(y) = Len(q) - k
      /\ \A i \in 1 .. Len(q) - k : y[i] = q[k + i]
  BY <1>1, RestProperties
<1> HIDE DEF y
<1>6. Len(x) = Len(y)
  BY <1>1, <1>2, <1>4, <1>5 DEF k
<1>7. ASSUME NEW i \in 1 .. Len(x)
      PROVE  x[i] = y[i]
  <2>1. /\ i \in 1 .. Len(r) - n /\ n + i \in 1 .. Len(q) - m /\ i \in 1 .. Len(q) - k
        /\ m + (n + i) = k + i
    BY <1>1, <1>2, <1>4 DEF k
  <2> QED BY <1>2, <1>4, <1>5, <2>1
<1>8. x = y
  BY <1>4, <1>5, <1>6, <1>7, SeqEqual
<1> QED BY <1>8 DEF x, y, r, k

(* What is taken comes from the first of two sequences. *)
LEMMA RestConcat ==
  ASSUME NEW E, NEW q \in Seq(E), NEW r \in Seq(E), NEW n \in 0 .. Len(q)
  PROVE  Rest(q \o r, n) = Rest(q, n) \o r
<1> DEFINE c == q \o r
           x == Rest(c, n)
           s == Rest(q, n)
           y == s \o r
<1>1. Len(q) \in Nat /\ Len(r) \in Nat
  BY LenProperties
<1>2. /\ c \in Seq(E) /\ Len(c) = Len(q) + Len(r)
      /\ \A i \in 1 .. Len(q) + Len(r) : c[i] = IF i <= Len(q) THEN q[i] ELSE r[i - Len(q)]
  BY ConcatProperties
<1> HIDE DEF c
<1>3. n \in 0 .. Len(c)
  BY <1>1, <1>2
<1>4. /\ x \in Seq(E) /\ Len(x) = Len(c) - n
      /\ \A i \in 1 .. Len(c) - n : x[i] = c[n + i]
  BY <1>2, <1>3, RestProperties
<1>5. /\ s \in Seq(E) /\ Len(s) = Len(q) - n
      /\ \A i \in 1 .. Len(q) - n : s[i] = q[n + i]
  BY RestProperties
<1> HIDE DEF s, x
<1>6. /\ y \in Seq(E) /\ Len(y) = Len(s) + Len(r)
      /\ \A i \in 1 .. Len(s) + Len(r) : y[i] = IF i <= Len(s) THEN s[i] ELSE r[i - Len(s)]
  BY <1>5, ConcatProperties
<1> HIDE DEF y
<1>7. Len(x) = Len(y)
  BY <1>1, <1>2, <1>4, <1>5, <1>6
<1>8. ASSUME NEW i \in 1 .. Len(x)
      PROVE  x[i] = y[i]
  <2>1. /\ i \in 1 .. Len(c) - n /\ i \in 1 .. Len(s) + Len(r)
        /\ n + i \in 1 .. Len(q) + Len(r)
        /\ (i <= Len(s) <=> n + i <= Len(q)) /\ i - Len(s) = (n + i) - Len(q)
        /\ (i <= Len(s) => i \in 1 .. Len(q) - n)
    BY <1>1, <1>2, <1>4, <1>5
  <2>2. x[i] = IF n + i <= Len(q) THEN q[n + i] ELSE r[(n + i) - Len(q)]
    BY <1>2, <1>4, <2>1
  <2>3. y[i] = IF i <= Len(s) THEN s[i] ELSE r[i - Len(s)]
    BY <1>6, <2>1
  <2>4. i <= Len(s) => s[i] = q[n + i]
    BY <1>5, <2>1
  <2> QED BY <2>1, <2>2, <2>3, <2>4
<1>9. x = y
  BY <1>4, <1>6, <1>7, <1>8, SeqEqual
<1> QED BY <1>9 DEF x, y, s, c

(* The k elements of a sequence behind the first o. *)
Part(q, o, k) == SubSeq(q, o + 1, o + k)

LEMMA PartProperties ==
  ASSUME NEW E, NEW q \in Seq(E), NEW o \in Nat, NEW k \in Nat, o + k <= Len(q)
  PROVE  /\ Part(q, o, k) \in Seq(E) /\ Len(Part(q, o, k)) = k
         /\ \A i \in 1 .. k : Part(q, o, k)[i] = q[o + i]
<1> DEFINE m == o + 1
           n == o + k
           r == SubSeq(q, m, n)
<1>1. /\ Len(q) \in Nat /\ m \in Int /\ n \in Int /\ \A i \in m .. n : q[i] \in E
  <2>1. Len(q) \in Nat
    BY LenProperties
  <2>2. \A i \in m .. n : i \in 1 .. Len(q)
    BY <2>1
  <2> QED BY <2>1, <2>2, ElementOfSeq
<1>2. n - m + 1 = k /\ (m <= n <=> k > 0) /\ \A i \in 1 .. k : m + i - 1 = o + i
  OBVIOUS
<1> HIDE DEF m, n
<1>3. /\ r \in Seq(E) /\ Len(r) = (IF m <= n THEN n - m + 1 ELSE 0)
      /\ \A i \in 1 .. n - m + 1 : r[i] = q[m + i - 1]
  BY <1>1, SubSeqProperties
<1> HIDE DEF r
<1>4. Len(r) = k
  BY <1>2, <1>3
<1>5. \A i \in 1 .. k : r[i] = q[o + i]
  BY <1>2, <1>3
<1> QED BY <1>3, <1>4, <1>5 DEF Part, r, m, n

LEMMA PartNone ==
  ASSUME NEW E, NEW q \in Seq(E)
  PROVE  Part(q, 0, 0) = <<>>
<1> DEFINE z == 0
<1>1. z \in Nat /\ z + z <= Len(q)
  BY LenProperties
<1> HIDE DEF z
<1>2. Part(q, z, z) \in Seq(E) /\ Len(Part(q, z, z)) = z
  BY <1>1, PartProperties
<1> QED BY <1>2, EmptySeq DEF z

(* A part that ends in the first of two sequences. *)
LEMMA PartOfFirst ==
  ASSUME NEW E, NEW d \in Seq(E), NEW r \in Seq(E), NEW o \in Nat, NEW k \in Nat,
         o + k <= Len(d)
  PROVE  Part(d \o r, o, k) = Part(d, o, k)
<1> DEFINE c == d \o r
           x == Part(c, o, k)
           y == Part(d, o, k)
<1>1. Len(d) \in Nat /\ Len(r) \in Nat
  BY LenProperties
<1>2. /\ c \in Seq(E) /\ Len(c) = Len(d) + Len(r)
      /\ \A i \in 1 .. Len(d) + Len(r) : c[i] = IF i <= Len(d) THEN d[i] ELSE r[i - Len(d)]
  BY ConcatProperties
<1> HIDE DEF c
<1>3. o + k <= Len(c)
  BY <1>1, <1>2
<1>4. x \in Seq(E) /\ Len(x) = k /\ \A i \in 1 .. k : x[i] = c[o + i]
  BY <1>2, <1>3, PartProperties, SMTT(30)
<1>5. y \in Seq(E) /\ Len(y) = k /\ \A i \in 1 .. k : y[i] = d[o + i]
  BY PartProperties
<1>6. \A i \in 1 .. k : c[o + i] = d[o + i]
  <2>1. \A i \in 1 .. k : o + i \in 1 .. Len(d) + Len(r) /\ o + i <= Len(d)
    BY <1>1
  <2> QED BY <1>2, <2>1
<1> HIDE DEF x, y
<1>7. x = y
  BY <1>4, <1>5, <1>6, SeqEqual
<1> QED BY <1>7 DEF x, y, c

(* A part that goes on in the second of two sequences. *)
LEMMA PartAcross ==
  ASSUME NEW E, NEW d \in Seq(E), NEW r \in Seq(E), NEW o \in 0 .. Len(d), NEW k \in Nat,
         Len(d) - o <= k, o + k <= Len(d) + Len(r)
  PROVE  Part(d \o r, o, k) = Part(d, o, Len(d) - o) \o Part(r, 0, k - (Len(d) - o))
<1> DEFINE c == d \o r
           n == Len(d) - o
           h == k - n
           x == Part(c, o, k)
           a == Part(d, o, n)
           b == Part(r, 0, h)
           y == a \o b
<1>1. Len(d) \in Nat /\ Len(r) \in Nat /\ o \in Nat
  BY LenProperties
<1>2. n \in Nat /\ h \in Nat /\ o + n = Len(d) /\ k = n + h /\ 0 + h <= Len(r) /\ o + n <= Len(d)
  BY <1>1
<1>3. /\ c \in Seq(E) /\ Len(c) = Len(d) + Len(r)
      /\ \A i \in 1 .. Len(d) + Len(r) : c[i] = IF i <= Len(d) THEN d[i] ELSE r[i - Len(d)]
  BY ConcatProperties
<1> HIDE DEF c, n, h
<1>4. o + k <= Len(c)
  BY <1>1, <1>3
<1>5. x \in Seq(E) /\ Len(x) = k /\ \A i \in 1 .. k : x[i] = c[o + i]
  BY <1>1, <1>3, <1>4, PartProperties
<1>6. a \in Seq(E) /\ Len(a) = n /\ \A i \in 1 .. n : a[i] = d[o + i]
  <2>1. \A u, v \in Nat : u + v <= Len(d) =>
          /\ Part(d, u, v) \in Seq(E) /\ Len(Part(d, u, v)) = v
          /\ \A i \in 1 .. v : Part(d, u, v)[i] = d[u + i]
    BY PartProperties
  <2> QED BY <1>1, <1>2, <2>1
<1>7. b \in Seq(E) /\ Len(b) = h /\ \A i \in 1 .. h : b[i] = r[i]
  <2> DEFINE z == 0
  <2>1. z \in Nat /\ z + h <= Len(r) /\ \A i \in 1 .. h : z + i = i
    BY <1>2
  <2> HIDE DEF z
  <2>2. /\ Part(r, z, h) \in Seq(E) /\ Len(Part(r, z, h)) = h
        /\ \A i \in 1 .. h : Part(r, z, h)[i] = r[z + i]
    <3>1. \A u, v \in Nat : u + v <= Len(r) =>
            /\ Part(r, u, v) \in Seq(E) /\ Len(Part(r, u, v)) = v
            /\ \A i \in 1 .. v : Part(r, u, v)[i] = r[u + i]
      BY PartProperties
    <3>2. h \in Nat /\ z + h <= Len(r)
      BY <1>2, <2>1
    <3> QED BY <2>1, <3>1, <3>2, Zenon
  <2>3. \A i \in 1 .. h : Part(r, z, h)[i] = r[i]
    BY <2>1, <2>2
  <2> QED BY <2>2, <2>3 DEF z
<1> HIDE DEF a, b, x
<1>8. /\ y \in Seq(E) /\ Len(y) = Len(a) + Len(b)
      /\ \A i \in 1 .. Len(a) + Len(b) : y[i] = IF i <= Len(a) THEN a[i] ELSE b[i - Len(a)]
  BY <1>6, <1>7, ConcatProperties
<1> HIDE DEF y
<1>9. \A i \in 1 .. k : x[i] = y[i]
  <2> SUFFICES ASSUME NEW i \in 1 .. k PROVE x[i] = y[i]
    OBVIOUS
  <2>1. o + i \in 1 .. Len(d) + Len(r) /\ (o + i <= Len(d) <=> i <= n)
        /\ (o + i) - Len(d) = i - n /\ i \in 1 .. Len(a) + Len(b)
    <3>1. Len(a) = n /\ Len(b) = h
      BY <1>6, <1>7
    <3>2. Len(d) + Len(r) \in Nat /\ o + i <= Len(d) + Len(r) /\ o + i >= 1
      BY <1>1
    <3>3. (o + i <= Len(d) <=> i <= n) /\ (o + i) - Len(d) = i - n /\ i \in 1 .. n + h
      BY <1>1, <1>2
    <3> QED BY <1>1, <3>1, <3>2, <3>3
  <2>2. CASE i <= n
    <3>1. i \in 1 .. n
      BY <2>2
    <3> QED BY <1>3, <1>5, <1>6, <1>8, <2>1, <2>2, <3>1
  <2>3. CASE ~(i <= n)
    <3>1. i - n \in 1 .. h
      BY <1>2, <2>3
    <3> QED BY <1>3, <1>5, <1>6, <1>7, <1>8, <2>1, <2>3, <3>1, ZenonT(40)
  <2> QED BY <2>2, <2>3
<1>10. Len(x) = Len(y)
  BY <1>2, <1>5, <1>6, <1>7, <1>8
<1>11. x = y
  BY <1>5, <1>8, <1>9, <1>10, SeqEqual
<1> QED BY <1>11 DEF x, y, a, b, c, h, n

(* A sequence around one of its elements. *)
LEMMA SplitAt ==
  ASSUME NEW E, NEW q \in Seq(E), NEW u \in 1 .. Len(q)
  PROVE  /\ SubSeq(q, 1, u - 1) \in Seq(E)
         /\ Len(SubSeq(q, 1, u - 1)) = u - 1
         /\ \A k \in 1 .. u - 1 : SubSeq(q, 1, u - 1)[k] = q[k]
         /\ Rest(q, u) \in Seq(E)
         /\ q = (SubSeq(q, 1, u - 1) \o <<q[u]>>) \o Rest(q, u)
<1>1. Len(q) \in Nat /\ u \in Nat \ {0} /\ u <= Len(q)
  BY LenProperties
<1> DEFINE z == 0
           k == u - 1
<1>2. k \in Nat /\ z \in Nat /\ z + k <= Len(q) /\ z + 1 = 1 /\ z + k = u - 1
      /\ \A i \in 1 .. k : z + i = i
  BY <1>1
<1> HIDE DEF z, k
<1>3. /\ Part(q, z, k) \in Seq(E) /\ Len(Part(q, z, k)) = k
      /\ \A i \in 1 .. k : Part(q, z, k)[i] = q[z + i]
  BY <1>2, PartProperties, ZenonT(40)
<1>4. /\ SubSeq(q, 1, u - 1) \in Seq(E)
      /\ Len(SubSeq(q, 1, u - 1)) = u - 1
      /\ \A i \in 1 .. u - 1 : SubSeq(q, 1, u - 1)[i] = q[i]
  <2>1. Part(q, z, k) = SubSeq(q, 1, u - 1)
    BY <1>2 DEF Part
  <2>2. \A i \in 1 .. k : Part(q, z, k)[i] = q[i]
    BY <1>2, <1>3
  <2> QED BY <1>3, <2>1, <2>2 DEF k
<1>5. Rest(q, u) \in Seq(E)
  <2>1. u \in 0 .. Len(q)
    BY <1>1
  <2> QED BY <2>1, RestProperties
<1>6. SubSeq(q, 1, u) = SubSeq(q, 1, u - 1) \o <<q[u]>>
  <2> DEFINE a == 1
  <2>1. a \in 1 .. Len(q) /\ u \in a .. Len(q)
    BY <1>1
  <2> HIDE DEF a
  <2>2. SubSeq(q, a, u) = SubSeq(q, a, u - 1) \o <<q[u]>>
    BY <2>1, SubSeqRecursiveSecond
  <2> QED BY <2>2 DEF a
<1>7. SubSeq(q, 1, u) \o SubSeq(q, u + 1, Len(q)) = q
  <2> DEFINE n == Len(q)
  <2>1. 1 \in 1 .. n + 1 /\ u \in 1 - 1 .. n /\ n \in u .. n /\ n = Len(q)
    BY <1>1
  <2> HIDE DEF n
  <2>2. SubSeq(q, 1, u) \o SubSeq(q, u + 1, n) = SubSeq(q, 1, n)
    BY <2>1, ConcatAdjacentSubSeq
  <2>3. SubSeq(q, 1, n) = q
    BY <2>1, SubSeqFull
  <2> QED BY <2>2, <2>3 DEF n
<1> QED BY <1>4, <1>5, <1>6, <1>7 DEF Rest

(* What is behind an element in a sequence. *)
LEMMA AfterElement ==
  ASSUME NEW E, NEW t \in Seq(E), NEW e \in E, NEW s \in Seq(E),
         NEW q, q = (t \o <<e>>) \o s
  PROVE  /\ e \in ToSet(q)
         /\ q = (t \o <<e>>) \o SubSeq(q, Len(t) + 2, Len(q))
<1> DEFINE h == t \o <<e>>
           n == Len(t) + 1
<1>0. q = h \o s
  OBVIOUS
<1>1. /\ h \in Seq(E) /\ Len(h) = n /\ Len(t) \in Nat /\ n \in Nat \ {0} /\ h[n] = e
  <2>1. h = Append(t, e)
    BY AppendIsConcat
  <2> QED BY <2>1, AppendProperties, LenProperties
<1> HIDE DEF h, n
<1>2. /\ q \in Seq(E) /\ Len(q) = n + Len(s) /\ Len(s) \in Nat
      /\ \A i \in 1 .. Len(h) + Len(s) : q[i] = IF i <= Len(h) THEN h[i] ELSE s[i - Len(h)]
  BY <1>0, <1>1, ConcatProperties, LenProperties
<1>3. n \in 1 .. Len(q) /\ q[n] = e
  <2>1. n \in 1 .. Len(h) + Len(s) /\ n <= Len(h) /\ n \in 1 .. n + Len(s)
    BY <1>1, <1>2
  <2> QED BY <1>1, <1>2, <2>1
<1>4. e \in ToSet(q)
  <2>1. DOMAIN q = 1 .. Len(q)
    BY <1>2, LenProperties
  <2> QED BY <1>3, <2>1 DEF ToSet
<1>5. Rest(q, n) = s
  <2>1. n \in 0 .. Len(h) /\ Len(h) - n = 0
    BY <1>1
  <2>2. Rest(q, n) = Rest(h, n) \o s
    <3>1. Rest(h \o s, n) = Rest(h, n) \o s
      BY <1>1, <2>1, RestConcat
    <3> QED BY <1>0, <3>1
  <2>3. Rest(h, n) \in Seq(E) /\ Len(Rest(h, n)) = 0
    BY <1>1, <2>1, RestProperties
  <2>4. Rest(h, n) = <<>>
    BY <2>3, EmptySeq
  <2> QED BY <2>2, <2>4, ConcatEmptySeq
<1>6. SubSeq(q, Len(t) + 2, Len(q)) = s
  <2>1. n + 1 = Len(t) + 2
    BY <1>1 DEF n
  <2> QED BY <1>5, <2>1 DEF Rest
<1>7. q = h \o SubSeq(q, Len(t) + 2, Len(q))
  BY <1>0, <1>6
<1> QED BY <1>4, <1>7 DEF h

(* What is behind the first of two sequences is the second. *)
LEMMA RestSecond ==
  ASSUME NEW E, NEW p \in Seq(E), NEW s \in Seq(E)
  PROVE  Rest(p \o s, Len(p)) = s
<1> DEFINE n == Len(p)
           none == Rest(p, n)
<1>1. n \in Nat /\ n \in 0 .. Len(p)
  BY LenProperties
<1>2. Rest(p \o s, n) = none \o s
  BY <1>1, RestConcat
<1>3. none \in Seq(E) /\ Len(none) = 0
  BY <1>1, RestProperties
<1> HIDE DEF none, n
<1>4. none = <<>>
  BY <1>3, EmptySeq
<1>5. <<>> \o s = s
  BY ConcatEmptySeq
<1> QED BY <1>2, <1>4, <1>5 DEF n

(* Facts about several sequences, in a form in which they are found. *)
Follow(q, o, p, s) == Rest(q, o) = p \o s
Alike(a, b, c, d) == a \o b = c \o d
Associates(a, b, c) == (a \o b) \o c = a \o (b \o c)

LEMMA Associative ==
  ASSUME NEW E, NEW a \in Seq(E), NEW b \in Seq(E), NEW c \in Seq(E)
  PROVE  Associates(a, b, c)
BY ConcatAssociative DEF Associates

LEMMA RestAfter ==
  ASSUME NEW E, NEW q \in Seq(E), NEW o \in 0 .. Len(q), NEW p \in Seq(E), NEW s \in Seq(E),
         Follow(q, o, p, s)
  PROVE  /\ Len(q) = o + Len(p) + Len(s)
         /\ Rest(q, o + Len(p)) = s
<1>1. Len(q) \in Nat /\ Len(p) \in Nat /\ Len(s) \in Nat /\ o \in Nat
  BY LenProperties
<1> USE DEF Follow
<1>2. Len(Rest(q, o)) = Len(q) - o
  BY RestProperties
<1>3. Len(p \o s) = Len(p) + Len(s)
  BY ConcatProperties
<1>4. Len(q) = o + Len(p) + Len(s)
  BY <1>1, <1>2, <1>3
<1>5. Rest(Rest(q, o), Len(p)) = Rest(q, o + Len(p))
  <2> DEFINE n == Len(p)
  <2>1. n \in Nat /\ o + n <= Len(q)
    BY <1>1, <1>4
  <2> HIDE DEF n
  <2> QED BY <1>1, <2>1, RestRest DEF n
<1>6. Rest(p \o s, Len(p)) = s
  BY RestSecond
<1> QED BY <1>4, <1>5, <1>6

(* Of two ways to cut a sequence, the one with the shorter first part. *)
LEMMA CutShorter ==
  ASSUME NEW E, NEW a \in Seq(E), NEW b \in Seq(E), NEW c \in Seq(E), NEW d \in Seq(E),
         Alike(a, b, c, d), Len(c) <= Len(a)
  PROVE  /\ \A i \in 1 .. Len(c) : a[i] = c[i]
         /\ Rest(a, Len(c)) \o b = d
         /\ a = c \o Rest(a, Len(c))
<1> DEFINE n == Len(c)
           r == Rest(a, n)
           x == a \o b
           y == c \o d
           z == c \o r
<1>1. Len(a) \in Nat /\ Len(b) \in Nat /\ n \in Nat /\ Len(d) \in Nat /\ n \in 0 .. Len(a)
  BY LenProperties
<1>2. /\ Len(x) = Len(a) + Len(b)
      /\ \A i \in 1 .. Len(a) + Len(b) : x[i] = IF i <= Len(a) THEN a[i] ELSE b[i - Len(a)]
  BY ConcatProperties
<1>3. /\ Len(y) = n + Len(d)
      /\ \A i \in 1 .. n + Len(d) : y[i] = IF i <= n THEN c[i] ELSE d[i - n]
  BY ConcatProperties
<1>4. r \in Seq(E) /\ Len(r) = Len(a) - n /\ \A i \in 1 .. Len(a) - n : r[i] = a[n + i]
  BY <1>1, RestProperties
<1>5. x = y
  BY DEF Alike
<1>6. Rest(x, n) = r \o b
  BY <1>1, RestConcat
<1>7. Rest(y, n) = d
  BY RestSecond
<1> HIDE DEF n, r, x, y, z
<1>8. \A i \in 1 .. n : a[i] = c[i]
  <2> SUFFICES ASSUME NEW i \in 1 .. n PROVE a[i] = c[i]
    OBVIOUS
  <2>1. i \in 1 .. Len(a) + Len(b) /\ i \in 1 .. n + Len(d) /\ i <= Len(a) /\ i <= n
    BY <1>1
  <2> QED BY <1>2, <1>3, <1>5, <2>1
<1>9. /\ Len(z) = n + Len(r) /\ z \in Seq(E)
      /\ \A i \in 1 .. n + Len(r) : z[i] = IF i <= n THEN c[i] ELSE r[i - n]
  BY <1>4, ConcatProperties DEF z, n
<1>10. \A i \in 1 .. Len(a) : z[i] = a[i]
  <2> SUFFICES ASSUME NEW i \in 1 .. Len(a) PROVE z[i] = a[i]
    OBVIOUS
  <2>1. i \in 1 .. n + Len(r)
    BY <1>1, <1>4
  <2>2. CASE i <= n
    <3>1. i \in 1 .. n
      BY <1>1, <2>2
    <3> QED BY <1>8, <1>9, <2>1, <2>2, <3>1
  <2>3. CASE ~(i <= n)
    <3>1. i - n \in 1 .. Len(a) - n /\ n + (i - n) = i
      BY <1>1, <2>3
    <3> QED BY <1>4, <1>9, <2>1, <2>3, <3>1
  <2> QED BY <2>2, <2>3
<1>11. Len(z) = Len(a)
  BY <1>1, <1>4, <1>9
<1>12. z = a
  BY <1>9, <1>10, <1>11, SeqEqual
<1> QED BY <1>5, <1>6, <1>7, <1>8, <1>12 DEF n, r, z

LEMMA PartIs ==
  ASSUME NEW E, NEW q \in Seq(E), NEW o \in 0 .. Len(q), NEW w \in Seq(E),
         NEW d \in Seq(E), NEW r \in Seq(E),
         Alike(Rest(q, o), w, d, r), o + Len(d) <= Len(q)
  PROVE  SubSeq(q, o + 1, o + Len(d)) = d
<1> DEFINE a == Rest(q, o)
           k == Len(d)
           y == Part(q, o, k)
<1>1. Len(q) \in Nat /\ k \in Nat /\ o \in Nat
  BY LenProperties
<1>2. a \in Seq(E) /\ Len(a) = Len(q) - o /\ \A i \in 1 .. Len(q) - o : a[i] = q[o + i]
  BY RestProperties
<1>3. y \in Seq(E) /\ Len(y) = k /\ \A i \in 1 .. k : y[i] = q[o + i]
  BY <1>1, PartProperties
<1>4. y = SubSeq(q, o + 1, o + Len(d))
  BY DEF Part
<1> HIDE DEF a, y, k
<1>5. \A i \in 1 .. k : a[i] = d[i]
  <2>1. Alike(a, w, d, r) /\ Len(d) <= Len(a)
    BY <1>1, <1>2 DEF a, k
  <2> QED BY <1>2, <2>1, CutShorter DEF k
<1>6. \A i \in 1 .. k : y[i] = d[i]
  <2>1. \A i \in 1 .. k : i \in 1 .. Len(q) - o
    BY <1>1 DEF k
  <2> QED BY <1>2, <1>3, <1>5, <2>1
<1>7. y = d
  BY <1>3, <1>6, SeqEqual DEF k
<1> QED BY <1>4, <1>7

(* What goes on as two parts goes on behind the first as the second. *)
LEMMA AlikeAfter ==
  ASSUME NEW E, NEW q \in Seq(E), NEW o \in 0 .. Len(q), NEW w \in Seq(E),
         NEW c \in Seq(E), NEW d \in Seq(E), NEW r \in Seq(E),
         Alike(Rest(q, o), w, c \o d, r)
  PROVE  /\ Alike(Rest(q, o), w, c, d \o r)
         /\ o + Len(c) <= Len(q) => Alike(Rest(q, o + Len(c)), w, d, r)
<1> DEFINE a == Rest(q, o)
           x == d \o r
           n == Len(c)
<1>1. Len(q) \in Nat /\ n \in Nat /\ o \in Nat
  BY LenProperties
<1>2. a \in Seq(E) /\ Len(a) = Len(q) - o /\ x \in Seq(E)
  BY RestProperties, ConcatProperties
<1>3. Alike(a, w, c, x)
  BY Associative, SMTT(30) DEF Associates, Alike
<1>4. ASSUME o + n <= Len(q)
      PROVE  Rest(a, n) = Rest(q, o + n)
  <2> HIDE DEF n
  <2> QED BY <1>1, <1>4, RestRest
<1> HIDE DEF a, x
<1>5. ASSUME o + n <= Len(q)
      PROVE  Rest(a, n) \o w = x
  <2>1. Len(c) <= Len(a)
    BY <1>1, <1>2, <1>5
  <2> QED BY <1>2, <1>3, <2>1, CutShorter
<1> QED BY <1>3, <1>4, <1>5 DEF a, x, n, Alike

LEMMA CutAt ==
  ASSUME NEW E, NEW q \in Seq(E), NEW n \in 0 .. Len(q)
  PROVE  /\ SubSeq(q, 1, n) \in Seq(E) /\ Len(SubSeq(q, 1, n)) = n
         /\ Rest(q, n) \in Seq(E) /\ Len(Rest(q, n)) = Len(q) - n
         /\ q = SubSeq(q, 1, n) \o Rest(q, n)
<1> DEFINE p == SubSeq(q, 1, n)
           r == Rest(q, n)
           z == p \o r
<1>1. Len(q) \in Nat /\ n \in Nat /\ \A i \in 1 .. Len(q) : q[i] \in E
  BY LenProperties, ElementOfSeq
<1>2. p \in Seq(E) /\ Len(p) = n /\ \A i \in 1 .. n : p[i] = q[i]
  BY <1>1
<1>3. r \in Seq(E) /\ Len(r) = Len(q) - n /\ \A i \in 1 .. Len(q) - n : r[i] = q[n + i]
  BY RestProperties
<1> HIDE DEF p, r
<1>4. /\ z \in Seq(E) /\ Len(z) = Len(p) + Len(r)
      /\ \A i \in 1 .. Len(p) + Len(r) : z[i] = IF i <= Len(p) THEN p[i] ELSE r[i - Len(p)]
  BY <1>2, <1>3, ConcatProperties
<1> HIDE DEF z
<1>5. \A i \in 1 .. Len(q) : q[i] = z[i]
  <2> SUFFICES ASSUME NEW i \in 1 .. Len(q) PROVE q[i] = z[i]
    OBVIOUS
  <2>1. i \in 1 .. Len(p) + Len(r)
    BY <1>1, <1>2, <1>3
  <2>2. CASE i <= n
    <3>1. i \in 1 .. n
      BY <1>1, <2>2
    <3> QED BY <1>2, <1>4, <2>1, <2>2, <3>1
  <2>3. CASE ~(i <= n)
    <3>1. i - n \in 1 .. Len(q) - n /\ n + (i - n) = i
      BY <1>1, <2>3
    <3> QED BY <1>2, <1>3, <1>4, <2>1, <2>3, <3>1
  <2> QED BY <2>2, <2>3
<1>6. Len(z) = Len(q)
  BY <1>1, <1>2, <1>3, <1>4
<1>7. q = z
  BY <1>4, <1>5, <1>6, SeqEqual
<1> QED BY <1>2, <1>3, <1>7 DEF p, r, z

LEMMA FirstIs ==
  ASSUME NEW E, NEW p \in Seq(E), NEW r \in Seq(E)
  PROVE  SubSeq(p \o r, 1, Len(p)) = p
<1> DEFINE z == p \o r
           n == Len(p)
           y == SubSeq(z, 1, n)
<1>1. n \in Nat /\ Len(r) \in Nat
  BY LenProperties
<1>2. /\ z \in Seq(E) /\ Len(z) = n + Len(r)
      /\ \A i \in 1 .. n + Len(r) : z[i] = IF i <= n THEN p[i] ELSE r[i - n]
  BY ConcatProperties
<1> HIDE DEF n, z
<1>3. n \in 0 .. Len(z) /\ \A i \in 1 .. Len(z) : z[i] \in E
  BY <1>1, <1>2, ElementOfSeq
<1>4. y \in Seq(E) /\ Len(y) = n /\ \A i \in 1 .. n : y[i] = z[i]
  BY <1>2, <1>3
<1> HIDE DEF y
<1>5. \A i \in 1 .. n : y[i] = p[i]
  BY <1>1, <1>2, <1>4
<1>6. y = p
  BY <1>4, <1>5, SeqEqual DEF n
<1> QED BY <1>6 DEF y, z, n
=============================================================================
