---------------------------- MODULE Framing_proofs ----------------------------
(* That the parser undoes what the printer does, and that the two ends of a *)
(* connection stay in step, for any messages and sizes.                    *)
EXTENDS Framing, SequenceLemmas

-----------------------------------------------------------------------------
(* Numbers *)

LEMMA DigitBytes ==
  /\ Digit \subseteq Byte /\ Digit \subseteq Nat
  /\ Bar \in Byte /\ Bar \notin Digit
  /\ Byte \subseteq Nat
BY DEF Digit, Byte, Bar, Other

(* f[i] is the number of the first i digits of d, for i up to n. *)
Values(d, n, f) ==
  f = [i \in 0 .. n |-> IF i = 0 THEN 0 ELSE 10 * f[i - 1] + d[i]]

(* The recursive function of Value exists. *)
LEMMA ValuesExists ==
  ASSUME NEW d, NEW n \in Nat
  PROVE  \E f : Values(d, n, f)
<1> DEFINE T == {k \in Nat : \E f : Values(d, k, f)}
<1>1. 0 \in T
  <2>1. Values(d, 0, [i \in 0 .. 0 |-> 0])
    BY DEF Values
  <2> QED BY <2>1
<1>2. ASSUME NEW k \in Nat, k \in T
      PROVE  k + 1 \in T
  <2>1. PICK f : Values(d, k, f)
    BY <1>2
  <2> DEFINE g == [i \in 0 .. k + 1 |-> IF i = 0 THEN 0 ELSE 10 * f[i - 1] + d[i]]
  <2>2. \A i \in 0 .. k : i \in 0 .. k + 1
    OBVIOUS
  <2>3. \A i \in 0 .. k : g[i] = f[i]
    BY <2>1, <2>2, Zenon DEF Values
  <2>4. \A i \in 0 .. k + 1 : i # 0 => i - 1 \in 0 .. k
    OBVIOUS
  <2>5. Values(d, k + 1, g)
    BY <2>3, <2>4, Zenon DEF Values
  <2> QED BY <2>5
<1>3. Nat \subseteq T
  BY <1>1, <1>2, NatInductive
<1> QED BY <1>3

(* Value is the last value of any such function. *)
LEMMA ValueLast ==
  ASSUME NEW d, Len(d) \in Nat
  PROVE  \E f : Values(d, Len(d), f) /\ Value(d) = f[Len(d)]
<1> DEFINE f == CHOOSE f : Values(d, Len(d), f)
<1>1. Values(d, Len(d), f)
  BY ValuesExists
<1>2. Value(d) = f[Len(d)]
  BY DEF Value, Values
<1> QED BY <1>1, <1>2

LEMMA ValueEmpty == Value(<<>>) = 0
<1>1. Len(<<>>) = 0
  BY EmptySeq
<1>2. PICK f : Values(<<>>, 0, f) /\ Value(<<>>) = f[0]
  BY <1>1, ValueLast
<1> QED BY <1>2 DEF Values

LEMMA ValueAppend ==
  ASSUME NEW E, NEW d \in Seq(E), NEW x \in E
  PROVE  Value(Append(d, x)) = 10 * Value(d) + x
<1> DEFINE e == Append(d, x)
           n == Len(d)
<1>1. /\ n \in Nat /\ Len(e) = n + 1
      /\ \A i \in 1 .. n : d[i] = e[i]
      /\ e[n + 1] = x
  BY AppendProperties, LenProperties
<1>2. PICK f : Values(d, n, f) /\ Value(d) = f[n]
  BY <1>1, ValueLast
<1> HIDE DEF e, n
<1>3. PICK g : Values(e, n + 1, g) /\ Value(e) = g[n + 1]
  BY <1>1, ValueLast
<1>4. f[0] = 0 /\ g[0] = 0
  <2>1. 0 \in 0 .. n /\ 0 \in 0 .. n + 1
    BY <1>1
  <2> QED BY <1>2, <1>3, <2>1 DEF Values
<1>5. \A i \in 0 + 1 .. n : f[i - 1] = g[i - 1] => f[i] = g[i]
  <2> SUFFICES ASSUME NEW i \in 0 + 1 .. n, f[i - 1] = g[i - 1] PROVE f[i] = g[i]
    OBVIOUS
  <2>1. i \in 0 .. n /\ i \in 0 .. n + 1 /\ i # 0 /\ i \in 1 .. n
    BY <1>1
  <2>2. f[i] = 10 * f[i - 1] + d[i]
    BY <1>2, <2>1 DEF Values
  <2>3. g[i] = 10 * g[i - 1] + e[i]
    BY <1>3, <2>1 DEF Values
  <2> QED BY <1>1, <2>1, <2>2, <2>3
<1>6. \A i \in 0 .. n : f[i] = g[i]
  <2> DEFINE z == 0
  <2>1. z \in Int /\ n \in Int /\ z <= n /\ f[z] = g[z]
        /\ \A i \in z + 1 .. n : f[i - 1] = g[i - 1] => f[i] = g[i]
    BY <1>1, <1>4, <1>5
  <2> HIDE DEF z
  <2>2. \A i \in z .. n : f[i] = g[i]
    BY <2>1, SameRun
  <2> QED BY <2>2 DEF z
<1>7. n + 1 \in 0 .. n + 1 /\ n + 1 # 0 /\ (n + 1) - 1 = n /\ n \in 0 .. n
  BY <1>1
<1>8. g[n + 1] = 10 * g[n] + e[n + 1]
  BY <1>3, <1>7 DEF Values
<1>9. g[n + 1] = 10 * f[n] + x
  BY <1>1, <1>6, <1>7, <1>8
<1>10. Value(e) = 10 * Value(d) + x
  BY <1>2, <1>3, <1>9, Zenon
<1> QED BY <1>10 DEF e

LEMMA ValueNat ==
  ASSUME NEW d \in Seq(Digit)
  PROVE  Value(d) \in Nat
<1> DEFINE T == {q \in Seq(Digit) : Value(q) \in Nat}
<1>1. <<>> \in T
  BY ValueEmpty, EmptySeq
<1>2. ASSUME NEW q \in Seq(Digit), NEW x \in Digit, q \in T
      PROVE  Append(q, x) \in T
  <2>1. x \in Nat
    BY DigitBytes
  <2>2. 10 * Value(q) + x \in Nat
    BY <1>2, <2>1
  <2> QED BY <2>2, ValueAppend, AppendProperties
<1>3. Seq(Digit) \subseteq T
  <2> HIDE DEF T
  <2> QED BY <1>1, <1>2, SeqInductive
<1> QED BY <1>3

Zeros(n) == [i \in 1 .. n |-> 0]

LEMMA ZerosValue ==
  ASSUME NEW n \in Nat
  PROVE  Zeros(n) \in Seq(Digit) /\ Len(Zeros(n)) = n /\ Value(Zeros(n)) = 0
<1>1. \A k \in Nat : Zeros(k) \in Seq(Digit) /\ Len(Zeros(k)) = k
  BY DEF Zeros, Digit
<1> DEFINE T == {k \in Nat : Value(Zeros(k)) = 0}
<1>2. 0 \in T
  <2>1. Zeros(0) = <<>>
    BY <1>1, EmptySeq
  <2> QED BY <2>1, ValueEmpty
<1>3. ASSUME NEW k \in Nat, k \in T
      PROVE  k + 1 \in T
  <2> DEFINE z == Zeros(k)
  <2>1. z \in Seq(Digit) /\ Len(z) = k /\ 0 \in Digit /\ \A i \in 1 .. k : z[i] = 0
    BY <1>1 DEF Digit, Zeros
  <2>2. Zeros(k + 1) \in Seq(Digit) /\ Len(Zeros(k + 1)) = k + 1
        /\ \A i \in 1 .. k + 1 : Zeros(k + 1)[i] = 0
    <3>1. k + 1 \in Nat
      OBVIOUS
    <3> QED BY <1>1, <3>1 DEF Zeros
  <2> HIDE DEF z
  <2> DEFINE y == Append(z, 0)
  <2>3. y \in Seq(Digit) /\ Len(y) = k + 1
        /\ \A i \in 1 .. k + 1 : y[i] = IF i = k + 1 THEN 0 ELSE z[i]
    BY <2>1, AppendProperties
  <2> HIDE DEF y
  <2>4. \A i \in 1 .. k + 1 : y[i] = 0
    BY <2>1, <2>3
  <2>5. Zeros(k + 1) = y
    BY <2>2, <2>3, <2>4, SeqEqual
  <2>6. Value(y) = 10 * Value(z) + 0
    BY <2>1, ValueAppend DEF y
  <2> QED BY <1>3, <2>5, <2>6 DEF z
<1>4. Nat \subseteq T
  <2> HIDE DEF T
  <2> QED BY <1>2, <1>3, NatInductive
<1> QED BY <1>1, <1>4

(* Zeros before a number make no difference. *)
LEMMA ValuePadded ==
  ASSUME NEW d \in Seq(Digit), NEW n \in Nat
  PROVE  Value(Zeros(n) \o d) = Value(d)
<1> DEFINE z == Zeros(n)
           T == {q \in Seq(Digit) : Value(z \o q) = Value(q)}
<1>1. z \in Seq(Digit) /\ Value(z) = 0
  BY ZerosValue
<1> HIDE DEF z
<1>2. <<>> \in T
  BY <1>1, ValueEmpty, EmptySeq, ConcatEmptySeq
<1>3. ASSUME NEW q \in Seq(Digit), NEW x \in Digit, q \in T
      PROVE  Append(q, x) \in T
  <2> DEFINE zq == z \o q
  <2>1. zq \in Seq(Digit) /\ Append(q, x) \in Seq(Digit)
    BY <1>1, ConcatProperties, AppendProperties
  <2>2. z \o Append(q, x) = Append(zq, x)
    <3> DEFINE one == <<x>>
    <3>1. one \in Seq(Digit) /\ Append(q, x) = q \o one /\ Append(zq, x) = zq \o one
      BY <2>1, AppendIsConcat
    <3> HIDE DEF one
    <3>2. (z \o q) \o one = z \o (q \o one)
      BY <1>1, <3>1, ConcatAssociative
    <3> QED BY <3>1, <3>2
  <2> HIDE DEF zq
  <2>3. Value(Append(zq, x)) = 10 * Value(zq) + x /\ Value(Append(q, x)) = 10 * Value(q) + x
    BY <2>1, ValueAppend
  <2>4. Value(zq) = Value(q)
    BY <1>3 DEF zq
  <2>5. Value(z \o Append(q, x)) = Value(Append(q, x))
    BY <2>2, <2>3, <2>4
  <2> QED BY <2>1, <2>5
<1>4. Seq(Digit) \subseteq T
  <2> HIDE DEF T
  <2> QED BY <1>2, <1>3, SeqInductive
<1> QED BY <1>4 DEF z

(* f[k] is the decimal form of k, for k up to n. *)
Decimals(n, f) ==
  f = [k \in 0 .. n |-> IF k < 10 THEN <<k>> ELSE Append(f[k \div 10], k % 10)]

(* The recursive function of Decimal exists. *)
LEMMA DecimalsExists ==
  ASSUME NEW n \in Nat
  PROVE  \E f : Decimals(n, f)
<1> DEFINE T == {m \in Nat : \E f : Decimals(m, f)}
<1>1. 0 \in T
  <2>1. Decimals(0, [k \in 0 .. 0 |-> <<k>>])
    BY DEF Decimals
  <2> QED BY <2>1
<1>2. ASSUME NEW m \in Nat, m \in T
      PROVE  m + 1 \in T
  <2>1. PICK f : Decimals(m, f)
    BY <1>2
  <2> DEFINE g == [k \in 0 .. m + 1 |->
                     IF k < 10 THEN <<k>> ELSE Append(f[k \div 10], k % 10)]
  <2>2. \A k \in 0 .. m : k \in 0 .. m + 1
    OBVIOUS
  <2>3. \A k \in 0 .. m : g[k] = f[k]
    BY <2>1, <2>2, Zenon DEF Decimals
  <2>4. \A k \in 0 .. m + 1 : ~(k < 10) => k \div 10 \in 0 .. m
    OBVIOUS
  <2>5. Decimals(m + 1, g)
    BY <2>3, <2>4, Zenon DEF Decimals
  <2> QED BY <2>5
<1>3. Nat \subseteq T
  BY <1>1, <1>2, NatInductive
<1> QED BY <1>3

(* to_string gives digits, at least one, and the number can be read again. *)
LEMMA DecimalOf ==
  ASSUME NEW n \in Nat
  PROVE  /\ Decimal(n) \in Seq(Digit)
         /\ Len(Decimal(n)) \in Nat \ {0}
         /\ Value(Decimal(n)) = n
<1> DEFINE f == CHOOSE f : Decimals(n, f)
<1>1. Decimals(n, f)
  BY DecimalsExists
<1>2. Decimal(n) = f[n]
  BY DEF Decimal, Decimals
<1> HIDE DEF f
<1> DEFINE Good(d, k) == d \in Seq(Digit) /\ d # <<>> /\ Value(d) = k
           T == {m \in Nat : \A k \in 0 .. m : k <= n => Good(f[k], k)}
<1>3. ASSUME NEW k \in 0 .. n, k < 10
      PROVE  Good(f[k], k)
  <2>1. f[k] = <<k>> /\ k \in Digit
    BY <1>1, <1>3 DEF Decimals, Digit
  <2>2. <<k>> = Append(<<>>, k) /\ <<k>> \in Seq(Digit) /\ <<k>> # <<>> /\ <<>> \in Seq(Digit)
    BY <2>1
  <2>3. Value(<<k>>) = 10 * 0 + k
    BY <2>1, <2>2, ValueAppend, ValueEmpty
  <2>4. 10 * 0 + k = k
    OBVIOUS
  <2> QED BY <2>1, <2>2, <2>3, <2>4
<1>4. ASSUME NEW k \in 0 .. n, ~(k < 10), Good(f[k \div 10], k \div 10)
      PROVE  Good(f[k], k)
  <2> DEFINE d == f[k \div 10]
             x == k % 10
  <2>1. f[k] = Append(d, x)
    BY <1>1, <1>4 DEF Decimals
  <2>2. x \in Digit /\ 10 * (k \div 10) + x = k
    BY DEF Digit
  <2>3. d \in Seq(Digit) /\ Value(d) = k \div 10
    BY <1>4
  <2> HIDE DEF d, x
  <2>4. Value(Append(d, x)) = 10 * Value(d) + x
    BY <2>2, <2>3, ValueAppend
  <2>5. Append(d, x) \in Seq(Digit) /\ Append(d, x) # <<>>
    BY <2>2, <2>3, AppendProperties
  <2> QED BY <2>1, <2>2, <2>3, <2>4, <2>5
<1> HIDE DEF Good
<1>5. 0 \in T
  BY <1>3
<1>6. ASSUME NEW m \in Nat, m \in T
      PROVE  m + 1 \in T
  <2> SUFFICES ASSUME m + 1 <= n PROVE Good(f[m + 1], m + 1)
    BY <1>6
  <2>1. CASE m + 1 < 10
    BY <1>3, <2>1
  <2>2. CASE ~(m + 1 < 10)
    <3> DEFINE h == (m + 1) \div 10
    <3>1. h \in 0 .. m /\ h <= n
      BY <2>2
    <3>2. Good(f[h], h)
      <4> HIDE DEF h
      <4> QED BY <1>6, <3>1
    <3>3. m + 1 \in 0 .. n
      OBVIOUS
    <3> QED BY <1>4, <2>2, <3>2, <3>3
  <2> QED BY <2>1, <2>2
<1>7. Nat \subseteq T
  <2> HIDE DEF T
  <2> QED BY <1>5, <1>6, NatInductive
<1>8. Good(f[n], n)
  BY <1>7
<1>9. Len(f[n]) \in Nat \ {0}
  BY <1>8, EmptySeq DEF Good
<1> QED BY <1>2, <1>8, <1>9 DEF Good

(* The length field has its digits, and they are the length. *)
LEMMA PadOf ==
  ASSUME NEW n \in Nat, Len(Decimal(n)) <= NumDigits
  PROVE  /\ Pad(n) \in Seq(Digit)
         /\ Len(Pad(n)) = NumDigits
         /\ Value(Pad(n)) = n
<1> DEFINE d == Decimal(n)
           z == Zeros(NumDigits - Len(d))
<1>1. d \in Seq(Digit) /\ Len(d) \in Nat /\ Value(d) = n /\ NumDigits \in Nat
  BY DecimalOf, FramingAssumption
<1>2. NumDigits - Len(d) \in Nat
  BY <1>1
<1> HIDE DEF d
<1>3. z \in Seq(Digit) /\ Len(z) = NumDigits - Len(d) /\ Value(z \o d) = Value(d)
  BY <1>1, <1>2, ZerosValue, ValuePadded
<1> HIDE DEF z
<1>4. z \o d \in Seq(Digit) /\ Len(z \o d) = Len(z) + Len(d)
  BY <1>1, <1>3, ConcatProperties
<1>5. Pad(n) = z \o d
  BY DEF Pad, Zeros, z, d
<1> QED BY <1>1, <1>3, <1>4, <1>5

(* The greatest number of a set that has one and is bounded. *)
LEMMA MaxOf ==
  ASSUME NEW n \in Nat, NEW N \in SUBSET (0 .. n), N # {}
  PROVE  Max(N) \in N /\ \A k \in N : k <= Max(N)
<1> DEFINE T == {m \in Nat : \/ \A k \in N : k > m
                             \/ \E x \in N : \A k \in N : k <= m => k <= x}
<1>1. 0 \in T
  BY Zenon, SMT
<1>2. ASSUME NEW m \in Nat, m \in T
      PROVE  m + 1 \in T
  <2>1. CASE m + 1 \in N
    <3>1. \A k \in N : k <= m + 1 => k <= m + 1
      OBVIOUS
    <3> QED BY <2>1, <3>1
  <2>2. CASE m + 1 \notin N
    <3>1. \A k \in N : k \in Nat /\ k # m + 1
      BY <2>2
    <3>2. \A k \in N : k > m => k > m + 1
      BY <3>1
    <3>3. \A k \in N : k <= m + 1 => k <= m
      BY <3>1
    <3> QED BY <1>2, <3>2, <3>3
  <2> QED BY <2>1, <2>2
<1>3. Nat \subseteq T
  <2> HIDE DEF T
  <2> QED BY <1>1, <1>2, NatInductive
<1>4. n \in T
  <2> HIDE DEF T
  <2> QED BY <1>3
<1>5. \E x \in N : \A k \in N : x >= k
  <2>1. \A k \in N : k \in Nat /\ k <= n /\ ~(k > n)
    OBVIOUS
  <2>2. \A x, k \in N : k <= x => x >= k
    BY <2>1
  <2>3. \E x \in N : \A k \in N : k <= n => k <= x
    BY <1>4, <2>1, Zenon
  <2> QED BY <2>1, <2>2, <2>3, Zenon
<1>6. Max(N) \in N /\ \A k \in N : Max(N) >= k
  BY <1>5, Zenon DEF Max
<1>7. \A k \in N : k \in Nat
  OBVIOUS
<1> DEFINE x == Max(N)
<1> HIDE DEF T, x
<1>8. x \in N /\ \A k \in N : x >= k
  BY <1>6 DEF x
<1>9. \A k \in N : k <= x
  BY <1>7, <1>8
<1> QED BY <1>8, <1>9 DEF x

LEMMA LeadingDigitsOf ==
  ASSUME NEW t \in Seq(Byte)
  PROVE  /\ LeadingDigits(t) \in Seq(Digit)
         /\ t \in Seq(Digit) => LeadingDigits(t) = t
<1> DEFINE n == Len(t)
           First(k) == SubSeq(t, 1, k)
           N == {k \in 0 .. n : ToSet(First(k)) \subseteq Digit}
           m == Max(N)
<1>1. n \in Nat /\ \A i \in 1 .. n : t[i] \in Byte
  BY LenProperties, ElementOfSeq
<1>2. ASSUME NEW k \in 0 .. n
      PROVE  First(k) \in Seq(Byte) /\ Len(First(k)) = k /\ \A i \in 1 .. k : First(k)[i] = t[i]
  BY <1>1
<1> HIDE DEF First
<1>3. 0 \in N
  <2>1. 0 \in 0 .. n
    BY <1>1
  <2>2. Len(First(0)) = 0 /\ First(0) \in Seq(Byte)
    BY <1>2, <2>1
  <2>3. ToSet(First(0)) = {}
    BY <2>2 DEF ToSet
  <2> QED BY <2>1, <2>3
<1>4. m \in N /\ \A k \in N : k <= m
  <2>1. N \in SUBSET (0 .. n) /\ N # {}
    BY <1>3
  <2> HIDE DEF N, n
  <2> QED BY <1>1, <2>1, MaxOf
<1>5. LeadingDigits(t) = First(m)
  BY DEF LeadingDigits, First
<1> HIDE DEF m
<1>6. First(m) \in Seq(Digit)
  <2> DEFINE q == First(m)
  <2>1. m \in 0 .. n /\ ToSet(q) \subseteq Digit
    BY <1>4
  <2>2. q \in Seq(Byte) /\ Len(q) = m
    BY <1>2, <2>1
  <2> HIDE DEF q, N
  <2>3. \A i \in 1 .. Len(q) : q[i] \in Digit
    BY <2>1, <2>2 DEF ToSet
  <2>4. q \in Seq(Digit)
    BY <2>2, <2>3, <1>1
  <2> QED BY <2>4 DEF q
<1>7. ASSUME t \in Seq(Digit) PROVE First(m) = t
  <2>1. \A i \in 1 .. n : t[i] \in Digit
    BY <1>7, ElementOfSeq
  <2>2. n \in 0 .. n
    BY <1>1
  <2> DEFINE q == First(n)
  <2>3. q \in Seq(Byte) /\ Len(q) = n /\ \A i \in 1 .. n : q[i] = t[i]
    BY <1>2, <2>2
  <2> HIDE DEF q
  <2>4. ToSet(q) \subseteq Digit
    BY <2>1, <2>3 DEF ToSet
  <2>5. n \in N
    BY <2>2, <2>4 DEF q
  <2>6. m \in 0 .. n /\ n <= m
    BY <1>4, <2>5
  <2>7. m = n
    BY <1>1, <2>6
  <2>8. q = t
    BY <2>3, SeqEqual
  <2> QED BY <2>7, <2>8 DEF q
<1> QED BY <1>5, <1>6, <1>7

(* What stoul returns, of anything and of digits that are an unsigned int. *)
LEMMA NumberOf ==
  ASSUME NEW t \in Seq(Byte)
  PROVE  /\ Value(LeadingDigits(t)) \in Nat
         /\ Number(t) \in Nat
         /\ t \in Seq(Digit) /\ t # <<>> /\ Value(t) < LengthModulus =>
              /\ IsNumber(t) /\ Number(t) = Value(t)
              /\ Value(LeadingDigits(t)) = Value(t)
<1> DEFINE v == Value(LeadingDigits(t))
<1>1. v \in Nat
  BY LeadingDigitsOf, ValueNat
<1>2. LengthModulus \in Nat \ {0}
  BY FramingAssumption
<1> HIDE DEF v
<1>3. v % LengthModulus \in Nat
  BY <1>1, <1>2
<1>4. v < LengthModulus => v % LengthModulus = v /\ v < LengthModulus * LengthModulus
  BY <1>1, <1>2
<1>5. t \in Seq(Digit) => LeadingDigits(t) = t
  BY LeadingDigitsOf
<1> QED BY <1>1, <1>3, <1>4, <1>5 DEF v, Number, IsNumber

-----------------------------------------------------------------------------
(* Fields *)

(* Decimal forms have no bar. *)
LEMMA NoBar ==
  ASSUME NEW d \in Seq(Digit)
  PROVE  d \in Seq(Byte) /\ \A k \in 1 .. Len(d) : d[k] # Bar
<1>1. d \in Seq(Byte)
  BY DigitBytes, SeqMonotonic
<1>2. \A k \in 1 .. Len(d) : d[k] \in Digit
  BY ElementOfSeq
<1> QED BY <1>1, <1>2, DigitBytes

LEMMA FieldOf ==
  ASSUME NEW d \in Seq(Byte)
  PROVE  LET n == Decimal(Len(d)) IN
         /\ n \in Seq(Byte) /\ Len(n) \in Nat \ {0}
         /\ Field(d) = (n \o <<Bar>>) \o d
         /\ Field(d) \in Seq(Byte)
         /\ Len(Field(d)) = Len(n) + 1 + Len(d)
<1> DEFINE n == Decimal(Len(d))
           bar == <<Bar>>
<1>1. Len(d) \in Nat
  BY LenProperties
<1>2. n \in Seq(Byte) /\ Len(n) \in Nat \ {0}
  BY <1>1, DecimalOf, NoBar
<1>3. bar \in Seq(Byte) /\ Len(bar) = 1
  BY DigitBytes
<1> HIDE DEF n, bar
<1>4. n \o bar \in Seq(Byte) /\ Len(n \o bar) = Len(n) + 1
  BY <1>2, <1>3, ConcatProperties, SMTT(30)
<1> DEFINE nb == n \o bar
<1> HIDE DEF nb
<1>5. nb \o d \in Seq(Byte) /\ Len(nb \o d) = Len(nb) + Len(d)
  BY <1>4, ConcatProperties DEF nb
<1>6. Field(d) = nb \o d
  BY DEF Field, nb, n, bar
<1> QED BY <1>2, <1>4, <1>5, <1>6 DEF nb, n, bar

(* The first bar of a text is in one place. *)
LEMMA FirstBar ==
  ASSUME NEW t \in Seq(Byte), NEW u \in Seq(Byte), NEW r \in Seq(Byte), NEW s \in Seq(Byte),
         \A k \in 1 .. Len(t) : t[k] # Bar,
         \A k \in 1 .. Len(u) : u[k] # Bar,
         (t \o <<Bar>>) \o r = (u \o <<Bar>>) \o s
  PROVE  t = u /\ r = s
<1> DEFINE bar == <<Bar>>
<1>1. bar \in Seq(Byte) /\ Len(bar) = 1 /\ bar[1] = Bar
  BY DigitBytes
<1> HIDE DEF bar
<1>2. ASSUME NEW v \in Seq(Byte), NEW w \in Seq(Byte)
      PROVE  LET c == (v \o bar) \o w IN
             /\ Len(v) \in Nat /\ Len(w) \in Nat
             /\ Len(c) = Len(v) + 1 + Len(w)
             /\ \A k \in 1 .. Len(v) : c[k] = v[k]
             /\ c[Len(v) + 1] = Bar
  <2> DEFINE vb == v \o bar
             c == vb \o w
  <2>1. /\ Len(v) \in Nat /\ Len(w) \in Nat
        /\ vb \in Seq(Byte) /\ Len(vb) = Len(v) + 1
        /\ \A k \in 1 .. Len(v) + 1 : vb[k] = IF k <= Len(v) THEN v[k] ELSE bar[k - Len(v)]
    <3> DEFINE l == Len(v)
    <3>1. l \in Nat /\ Len(w) \in Nat
      BY LenProperties
    <3>2. vb \in Seq(Byte) /\ Len(vb) = Len(v) + Len(bar)
          /\ \A k \in 1 .. Len(v) + Len(bar) :
               vb[k] = IF k <= Len(v) THEN v[k] ELSE bar[k - Len(v)]
      BY <1>1, ConcatProperties
    <3> HIDE DEF vb
    <3> QED BY <1>1, <3>1, <3>2
  <2>2. (Len(v) + 1) - Len(v) = 1 /\ ~(Len(v) + 1 <= Len(v)) /\ Len(v) + 1 \in 1 .. Len(v) + 1
    BY <2>1
  <2>3. vb[Len(v) + 1] = Bar /\ \A k \in 1 .. Len(v) : vb[k] = v[k]
    BY <1>1, <2>1, <2>2
  <2> HIDE DEF vb
  <2>4. /\ Len(c) = Len(vb) + Len(w)
        /\ \A k \in 1 .. Len(vb) + Len(w) : c[k] = IF k <= Len(vb) THEN vb[k] ELSE w[k - Len(vb)]
    BY <2>1, ConcatProperties
  <2> HIDE DEF c
  <2>5. \A k \in 1 .. Len(v) + 1 : c[k] = vb[k]
    BY <2>1, <2>4
  <2> QED BY <2>1, <2>2, <2>3, <2>4, <2>5 DEF c, vb
<1> DEFINE c == (t \o bar) \o r
           d == (u \o bar) \o s
<1>3. c = d
  BY DEF bar
<1>4. /\ Len(t) \in Nat /\ Len(r) \in Nat /\ Len(c) = Len(t) + 1 + Len(r)
      /\ \A k \in 1 .. Len(t) : c[k] = t[k]
      /\ c[Len(t) + 1] = Bar
  BY <1>2
<1>5. /\ Len(u) \in Nat /\ Len(s) \in Nat /\ Len(d) = Len(u) + 1 + Len(s)
      /\ \A k \in 1 .. Len(u) : d[k] = u[k]
      /\ d[Len(u) + 1] = Bar
  BY <1>2
<1> HIDE DEF c, d
<1>6. ~(Len(t) < Len(u))
  <2> SUFFICES ASSUME Len(t) < Len(u) PROVE FALSE
    OBVIOUS
  <2>1. Len(t) + 1 \in 1 .. Len(u)
    BY <1>4, <1>5
  <2> QED BY <1>3, <1>4, <1>5, <2>1
<1>7. ~(Len(u) < Len(t))
  <2> SUFFICES ASSUME Len(u) < Len(t) PROVE FALSE
    OBVIOUS
  <2>1. Len(u) + 1 \in 1 .. Len(t)
    BY <1>4, <1>5
  <2> QED BY <1>3, <1>4, <1>5, <2>1
<1>8. Len(t) = Len(u)
  BY <1>4, <1>5, <1>6, <1>7
<1>9. t = u
  BY <1>3, <1>4, <1>5, <1>8, SeqEqual
<1>10. r = s
  <2> DEFINE tb == t \o bar
  <2>1. tb \in Seq(Byte)
    BY <1>1, ConcatProperties
  <2>2. tb \o r = tb \o s
    BY <1>3, <1>9 DEF c, d
  <2> DEFINE n == Len(tb)
             e == tb \o r
             f == tb \o s
  <2> HIDE DEF tb
  <2>3. n \in Nat
    BY <2>1, LenProperties
  <2>4. \A k \in 1 .. n + Len(r) : e[k] = IF k <= n THEN tb[k] ELSE r[k - n]
    BY <2>1, ConcatProperties
  <2>5. \A k \in 1 .. n + Len(s) : f[k] = IF k <= n THEN tb[k] ELSE s[k - n]
    BY <2>1, ConcatProperties
  <2>6. Len(r) = Len(s)
    BY <1>3, <1>4, <1>5, <1>8
  <2>7. e = f
    BY <2>2
  <2> HIDE DEF n, e, f
  <2>8. \A k \in 1 .. Len(r) : r[k] = s[k]
    <3> SUFFICES ASSUME NEW k \in 1 .. Len(r) PROVE r[k] = s[k]
      OBVIOUS
    <3>1. n + k \in 1 .. n + Len(r) /\ ~(n + k <= n) /\ (n + k) - n = k
      BY <1>4, <2>3
    <3>2. e[n + k] = r[k] /\ f[n + k] = s[k]
      BY <2>4, <2>5, <2>6, <3>1
    <3> QED BY <2>7, <3>2
  <2> QED BY <2>6, <2>8, SeqEqual
<1> QED BY <1>9, <1>10

-----------------------------------------------------------------------------
(* The two buffers.  What BlockBuffer_proofs proves of a BlockBuffer holds  *)
(* of sendBuffer_ and of recvBuffer_.                                      *)

SP == INSTANCE BlockBuffer_proofs WITH
        blocks <- sendBlocks, currSpace <- sendSpace, totalDataSize <- sendSize
RP == INSTANCE BlockBuffer_proofs WITH
        blocks <- recvBlocks, currSpace <- recvSpace, totalDataSize <- recvSize

LEMMA HeaderLength ==
  /\ HeaderSize = Len(Decimal(NumDigits)) + 1 + NumDigits
  /\ HeaderSize \in Nat \ {0}
  /\ Len(Decimal(NumDigits)) \in Nat \ {0}
<1>1. Len(Decimal(0)) = 1 /\ NumDigits \in Nat \ {0}
  <2> DEFINE f == CHOOSE f : Decimals(0, f)
  <2>1. Decimals(0, f)
    BY DecimalsExists
  <2>2. Decimal(0) = f[0]
    BY DEF Decimal, Decimals
  <2> HIDE DEF f
  <2>3. f[0] = <<0>>
    BY <2>1 DEF Decimals
  <2> QED BY <2>2, <2>3, FramingAssumption
<1>2. Pad(0) \in Seq(Digit) /\ Len(Pad(0)) = NumDigits
  <2>1. 1 <= NumDigits /\ 0 \in Nat
    BY FramingAssumption
  <2>2. Len(Decimal(0)) <= NumDigits
    BY <1>1, <2>1, Zenon
  <2> QED BY <2>1, <2>2, PadOf
<1>3. Len(Decimal(NumDigits)) \in Nat \ {0}
  BY <1>1, DecimalOf
<1> DEFINE p == Pad(0)
<1>4. p \in Seq(Byte) /\ Len(p) = NumDigits
  BY <1>2, NoBar
<1> HIDE DEF p
<1>5. Len(Field(p)) = Len(Decimal(Len(p))) + 1 + Len(p)
  BY <1>4, FieldOf
<1> QED BY <1>1, <1>3, <1>4, <1>5 DEF HeaderSize, p

LEMMA BlockConstants == SP!BlockAssumption /\ RP!BlockAssumption
BY HeaderLength, FramingAssumption
   DEF SP!BlockAssumption, RP!BlockAssumption, Garbage, Byte, Digit, Bar, Other

LEMMA SendContents ==
  /\ S!Contents = SP!Contents /\ S!Contents' = SP!Contents'
  /\ R!Contents = RP!Contents /\ R!Contents' = RP!Contents'
BY DEF S!Contents, SP!Contents, S!FlattenSeq, SP!FlattenSeq, S!DataOf, SP!DataOf,
       S!DataSize, SP!DataSize, S!Null, SP!Null,
       R!Contents, RP!Contents, R!FlattenSeq, RP!FlattenSeq, R!DataOf, RP!DataOf,
       R!DataSize, RP!DataSize, R!Null, RP!Null

LEMMA BufferInit ==
  /\ S!Init => SP!Inv /\ S!Contents = <<>>
  /\ R!Init => RP!Inv /\ R!Contents = <<>>
<1>1. S!Init => SP!Init
  BY DEF S!Init, SP!Init, S!NewBlock, SP!NewBlock, S!Null, SP!Null
<1>2. R!Init => RP!Init
  BY DEF R!Init, RP!Init, R!NewBlock, RP!NewBlock, R!Null, RP!Null
<1>3. SP!Init => SP!Inv /\ SP!Contents = <<>>
  BY BlockConstants, SP!InitInv
<1>4. RP!Init => RP!Inv /\ RP!Contents = <<>>
  BY BlockConstants, RP!InitInv
<1> QED BY <1>1, <1>2, <1>3, <1>4, SendContents

LEMMA BufferFacts ==
  /\ SP!Inv => /\ S!TypeOK /\ S!Contents \in Seq(Byte)
               /\ sendSize = Len(S!Contents) /\ sendSize \in Nat
  /\ RP!Inv => /\ R!TypeOK /\ R!Contents \in Seq(Byte)
               /\ recvSize = Len(R!Contents) /\ recvSize \in Nat
<1>1. SP!Inv => SP!Contents \in Seq(Byte)
  BY BlockConstants, SP!BehindEnds
<1>2. RP!Inv => RP!Contents \in Seq(Byte)
  BY BlockConstants, RP!BehindEnds
<1>3. SP!Inv => S!TypeOK /\ sendSize = Len(SP!Contents)
  BY DEF SP!Inv, SP!TypeOK, S!TypeOK, SP!Block, S!Block, SP!Null, S!Null
<1>4. RP!Inv => R!TypeOK /\ recvSize = Len(RP!Contents)
  BY DEF RP!Inv, RP!TypeOK, R!TypeOK, RP!Block, R!Block, RP!Null, R!Null
<1> QED BY <1>1, <1>2, <1>3, <1>4, SendContents, LenProperties

LEMMA BuffersSame ==
  /\ UNCHANGED <<sendBlocks, sendSpace, sendSize>> /\ SP!Inv =>
       SP!Inv' /\ S!Contents' = S!Contents
  /\ UNCHANGED recvBuffer /\ RP!Inv => RP!Inv' /\ R!Contents' = R!Contents
<1>1. ASSUME UNCHANGED <<sendBlocks, sendSpace, sendSize>>, SP!Inv
      PROVE  SP!Inv' /\ SP!Contents' = SP!Contents
  <2>1. [SP!Next]_SP!vars
    BY <1>1 DEF SP!vars
  <2>2. SP!Inv'
    BY <1>1, <2>1, BlockConstants, SP!NextStep
  <2>3. SP!Contents' = SP!Contents
    BY <1>1 DEF SP!Contents, SP!DataOf, SP!DataSize, SP!Null, SP!FlattenSeq
  <2> QED BY <2>2, <2>3
<1>2. ASSUME UNCHANGED recvBuffer, RP!Inv
      PROVE  RP!Inv' /\ RP!Contents' = RP!Contents
  <2>1. [RP!Next]_RP!vars
    BY <1>2 DEF RP!vars, recvBuffer
  <2>2. RP!Inv'
    BY <1>2, <2>1, BlockConstants, RP!NextStep
  <2>3. RP!Contents' = RP!Contents
    BY <1>2 DEF recvBuffer, RP!Contents, RP!DataOf, RP!DataSize, RP!Null, RP!FlattenSeq
  <2> QED BY <2>2, <2>3
<1> QED BY <1>1, <1>2, SendContents

(* The steps of sendBuffer_. *)
LEMMA SendPrint ==
  ASSUME SP!Inv, NEW header \in Seq(Byte), NEW f1 \in Seq(Byte), NEW f2 \in Seq(Byte),
         S!ToBytes(header, <<f1, f2>>)
  PROVE  SP!Inv' /\ S!Contents = <<>> /\ S!Contents' = header \o (f1 \o f2)
<1>1. \A chain, i : S!SpaceUpTo(chain, i) = SP!SpaceUpTo(chain, i)
  BY DEF S!SpaceUpTo, SP!SpaceUpTo, S!SpaceSize, SP!SpaceSize
<1>2. \A chain, offset : S!Locate(chain, offset) = SP!Locate(chain, offset)
  BY <1>1, Zenon DEF S!Locate, SP!Locate
<1>3. \A b, data, at : S!Overwrite(b, data, at) = SP!Overwrite(b, data, at)
  BY DEF S!Overwrite, SP!Overwrite
<1>4. S!NewBlock = SP!NewBlock
  BY DEF S!NewBlock, SP!NewBlock, S!Null, SP!Null
<1>5. \A chain, data, offset : S!AppendAt(chain, data, offset) = SP!AppendAt(chain, data, offset)
  <2> TAKE chain, data, offset
  <2> DEFINE place == S!Locate(chain, offset)
             new == S!NewBlock
             full == (place.at + Len(data)) \div BlockSize
             w == [k \in 1 .. full + 1 |->
                     S!Overwrite(IF k = 1 THEN chain[place.block] ELSE new,
                                 data, place.at - (k - 1) * BlockSize)]
             v == [k \in 1 .. full + 1 |->
                     SP!Overwrite(IF k = 1 THEN chain[place.block] ELSE new,
                                  data, place.at - (k - 1) * BlockSize)]
             Whole(x) == SubSeq(chain, 1, place.block - 1) \o x
                    \o (IF full = 0 THEN SubSeq(chain, place.block + 1, Len(chain)) ELSE <<>>)
  <2>1. S!AppendAt(chain, data, offset) = Whole(w)
    BY DEF S!AppendAt
  <2>2. SP!AppendAt(chain, data, offset) = Whole(v)
    <3>1. place = SP!Locate(chain, offset) /\ new = SP!NewBlock
      BY <1>2, <1>4
    <3> HIDE DEF place, new
    <3> QED BY <3>1, Zenon DEF SP!AppendAt
  <2>3. w = v
    <3> HIDE DEF place, new, full
    <3> QED BY <1>3
  <2> HIDE DEF w, v
  <2> QED BY <2>1, <2>2, <2>3
<1>6. \A chain, n : S!ResizePush(chain, n) <=> SP!ResizePush(chain, n)
  BY DEF S!SpaceSize, SP!SpaceSize, S!ResizePush, SP!ResizePush, S!Claim, SP!Claim,
         S!ClaimBlock, SP!ClaimBlock, S!BlockPush, SP!BlockPush, S!IsFull, SP!IsFull,
         S!NewBlock, SP!NewBlock, S!Null, SP!Null, S!Min, SP!Min
<1>7. SP!ToBytes(header, <<f1, f2>>)
  BY <1>5, <1>6, Zenon DEF S!ToBytes, SP!ToBytes
<1>8. SP!Inv' /\ SP!Contents = <<>> /\ SP!Contents' = header \o (f1 \o f2)
  BY <1>7, BlockConstants, SP!ToBytesStep
<1> QED BY <1>8, SendContents

LEMMA SendConsume ==
  ASSUME SP!Inv, NEW n, S!Consume(n)
  PROVE  /\ SP!Inv' /\ n \in 1 .. Len(S!Contents)
         /\ S!Contents' = Rest(S!Contents, n)
<1>1. S!Release(n) = SP!Release(n)
  BY DEF S!Release, SP!Release, S!ReleaseBlock, SP!ReleaseBlock,
         S!NextBlock, SP!NextBlock, S!BlockPop, SP!BlockPop, S!DataSize, SP!DataSize,
         S!Null, SP!Null, S!Min, SP!Min
<1>2. SP!Consume(n)
  BY <1>1 DEF S!Consume, SP!Consume, S!ResizePop, SP!ResizePop, S!NextBlock, SP!NextBlock,
              S!IsEmpty, SP!IsEmpty, S!Null, SP!Null
<1>3. /\ SP!Inv' /\ n \in 1 .. Len(SP!Contents)
      /\ SP!Contents' = SP!Rest(SP!Contents, n)
  BY <1>2, BlockConstants, SP!ConsumeStep
<1> QED BY <1>3, SendContents DEF Rest, SP!Rest

(* The steps of recvBuffer_. *)
LEMMA RecvReceive ==
  ASSUME RP!Inv, NEW data \in Seq(Byte), R!Receive(data)
  PROVE  RP!Inv' /\ R!Contents' = R!Contents \o data
<1>1. RP!Receive(data)
  <2>1. \A chain, n : R!ResizePush(chain, n) <=> RP!ResizePush(chain, n)
    BY DEF R!SpaceSize, RP!SpaceSize, R!ResizePush, RP!ResizePush, R!Claim, RP!Claim,
           R!ClaimBlock, RP!ClaimBlock, R!BlockPush, RP!BlockPush, R!IsFull, RP!IsFull,
           R!NewBlock, RP!NewBlock, R!Null, RP!Null, R!Min, RP!Min
  <2>2. \A b, d, at : R!Overwrite(b, d, at) = RP!Overwrite(b, d, at)
    BY DEF R!Overwrite, RP!Overwrite
  <2> DEFINE chain == [recvBlocks EXCEPT ![recvSpace] = R!Overwrite(@, data, @.space)]
  <2>3. chain = [recvBlocks EXCEPT ![recvSpace] = RP!Overwrite(@, data, @.space)]
    BY <2>2
  <2>4. R!ResizePush(chain, Len(data))
    BY DEF R!Receive
  <2> HIDE DEF chain
  <2>5. RP!ResizePush(chain, Len(data))
    BY <2>1, <2>4
  <2>6. Len(data) \in 1 .. RP!ContinuousSpaceSize /\ recvSize + Len(data) <= MaxBytes
    BY DEF R!Receive, R!ContinuousSpaceSize, RP!ContinuousSpaceSize, R!SpaceSize, RP!SpaceSize
  <2> QED BY <2>3, <2>5, <2>6 DEF RP!Receive
<1>2. RP!Inv' /\ RP!Contents' = RP!Contents \o data
  BY <1>1, BlockConstants, RP!ReceiveStep
<1> QED BY <1>2, SendContents

LEMMA RecvPop ==
  ASSUME RP!Inv, recvSize > 0, NEW n \in 0 .. recvSize, R!ResizePop(n)
  PROVE  RP!Inv' /\ R!Contents' = Rest(R!Contents, n)
<1>1. R!Release(n) = RP!Release(n)
  BY DEF R!Release, RP!Release, R!ReleaseBlock, RP!ReleaseBlock,
         R!NextBlock, RP!NextBlock, R!BlockPop, RP!BlockPop, R!DataSize, RP!DataSize,
         R!Null, RP!Null, R!Min, RP!Min
<1>2. RP!ResizePop(n)
  BY <1>1 DEF R!ResizePop, RP!ResizePop, R!NextBlock, RP!NextBlock,
              R!IsEmpty, RP!IsEmpty, R!Null, RP!Null
<1>3. CASE n = 0
  <2>1. UNCHANGED RP!vars
    BY <1>2, <1>3, BlockConstants, RP!PopNothing
  <2>2. UNCHANGED recvBuffer
    BY <2>1 DEF RP!vars, recvBuffer
  <2>3. RP!Inv' /\ R!Contents' = R!Contents
    BY <2>2, BuffersSame
  <2>4. R!Contents \in Seq(Byte)
    BY BufferFacts
  <2> DEFINE c == R!Contents
  <2> HIDE DEF c
  <2>5. Rest(c, 0) = c
    BY <2>4, RestNone DEF c
  <2> QED BY <1>3, <2>3, <2>5 DEF c
<1>4. CASE n # 0
  <2>1. RP!Consume(n)
    BY <1>2, <1>4, BufferFacts DEF RP!Consume
  <2>2. RP!Inv' /\ RP!Contents' = RP!Rest(RP!Contents, n)
    BY <2>1, BlockConstants, RP!ConsumeStep
  <2> QED BY <2>2, SendContents DEF Rest, RP!Rest
<1> QED BY <1>3, <1>4

LEMMA RecvClear ==
  ASSUME RP!Inv, R!ClearAll
  PROVE  RP!Inv' /\ R!Contents' = <<>>
<1>1. RP!ClearAll
  BY DEF R!ClearAll, RP!ClearAll, R!NewBlock, RP!NewBlock, R!Null, RP!Null
<1>2. RP!Inv' /\ RP!Contents' = <<>>
  BY <1>1, BlockConstants, RP!ClearAllStep
<1> QED BY <1>2, SendContents
-----------------------------------------------------------------------------
(* Reading recvBuffer_ *)

LEMMA SameLine ==
  ASSUME NEW delim, NEW o
  PROVE  R!GetLine(delim, o) = RP!GetLine(delim, o)
BY DEF R!GetLine, RP!GetLine, R!Scan, RP!Scan, R!IsEmpty, RP!IsEmpty, R!DataOf, RP!DataOf,
       R!DataSize, RP!DataSize, R!Null, RP!Null, R!SelectInSeq, RP!SelectInSeq, R!Min, RP!Min

LEMMA SameData ==
  ASSUME NEW k, NEW o
  PROVE  R!GetData(k, o) = RP!GetData(k, o)
BY DEF R!GetData, RP!GetData, R!Copy, RP!Copy, R!DataOf, RP!DataOf,
       R!DataSize, RP!DataSize, R!Null, RP!Null

LEMMA RecvLine ==
  ASSUME RP!Inv, recvSize > 0, NEW o \in Nat, R!GetLine(Bar, o).valid # FALSE
  PROVE  /\ R!GetLine(Bar, o).valid = TRUE
         /\ R!GetLine(Bar, o).found \in BOOLEAN
         /\ R!GetLine(Bar, o).text \in Seq(Byte)
         /\ \A k \in 1 .. Len(R!GetLine(Bar, o).text) : R!GetLine(Bar, o).text[k] # Bar
         /\ R!GetLine(Bar, o).found =>
              \E s \in Seq(Byte) :
                Rest(R!Contents, o) = (R!GetLine(Bar, o).text \o <<Bar>>) \o s
         /\ ~R!GetLine(Bar, o).found => Rest(R!Contents, o) = R!GetLine(Bar, o).text
<1>1. R!GetLine(Bar, o) = RP!GetLine(Bar, o)
  BY SameLine
<1>2. RP!ContinuousDataSize \in Nat
  BY BlockConstants, RP!ContinuousSize
<1>3. o < RP!ContinuousDataSize
  <2>1. ~(o >= RP!ContinuousDataSize)
    BY <1>1, BlockConstants, RP!LineBeyond
  <2> QED BY <1>2, <2>1
<1>4. RP!Rest(RP!Contents, o) = Rest(R!Contents, o)
  BY SendContents DEF Rest, RP!Rest
<1> DEFINE line == RP!GetLine(Bar, o)
<1>5. /\ line.valid = TRUE /\ line.found \in BOOLEAN
      /\ line.text \in Seq(Byte)
      /\ \A k \in 1 .. Len(line.text) : line.text[k] # Bar
      /\ line.found => \E s \in Seq(Byte) :
                         RP!Rest(RP!Contents, o) = (line.text \o <<Bar>>) \o s
      /\ ~line.found => RP!Rest(RP!Contents, o) = line.text
  BY <1>3, BlockConstants, DigitBytes, RP!LineScanned
<1> HIDE DEF line
<1> QED BY <1>1, <1>4, <1>5, Zenon DEF line

LEMMA RecvData ==
  ASSUME RP!Inv, NEW k \in Nat, NEW o \in Nat, R!GetData(k, o).valid # FALSE
  PROVE  /\ k = 0 => /\ R!GetData(k, o).valid = TRUE
                     /\ R!GetData(k, o).left = 0
                     /\ R!GetData(k, o).text = <<>>
         /\ k # 0 /\ o + k <= Len(R!Contents) =>
              /\ R!GetData(k, o).valid = TRUE
              /\ R!GetData(k, o).left = 0
              /\ R!GetData(k, o).text = SubSeq(R!Contents, o + 1, o + k)
              /\ SubSeq(R!Contents, o + 1, o + k) \in Seq(Byte)
         /\ k # 0 /\ o + k > Len(R!Contents) => R!GetData(k, o).left > 0
<1>1. R!GetData(k, o) = RP!GetData(k, o)
  BY SameData
<1>2. RP!ContinuousDataSize \in Nat
  BY BlockConstants, RP!ContinuousSize
<1> DEFINE data == RP!GetData(k, o)
<1>3. k = 0 => data.valid = TRUE /\ data.left = 0 /\ data.text = <<>>
  BY BlockConstants, RP!NothingCopied
<1>4. ASSUME k # 0 PROVE o <= RP!ContinuousDataSize
  <2>1. ~(o > RP!ContinuousDataSize)
    BY <1>1, <1>4, BlockConstants, RP!FieldBeyond
  <2> QED BY <1>2, <2>1
<1>5. recvSize = Len(RP!Contents)
  BY BufferFacts, SendContents
<1>6. k # 0 /\ o + k <= recvSize =>
        /\ data.valid = TRUE /\ data.left = 0
        /\ data.text = SubSeq(RP!Contents, o + 1, o + k)
        /\ SubSeq(RP!Contents, o + 1, o + k) \in Seq(Byte)
  BY <1>4, BlockConstants, RP!FieldCopied
<1>7. k # 0 /\ o + k > recvSize => data.left > 0
  BY <1>4, BlockConstants, RP!FieldIncomplete
<1> HIDE DEF data
<1> QED BY <1>1, <1>3, <1>5, <1>6, <1>7, SendContents DEF data

(* What DataField makes of the field of d at an offset, in a buffer that    *)
(* holds what was sent from there on as far as it has come.                *)
FieldThere(o, d) ==
  [length |-> Len(d), text |-> d, next |-> o + Len(Field(d)), outcome |-> "there"]

Barless(t) == \A k \in 1 .. Len(t) : t[k] # Bar
Line(q, t, s) == q = (t \o <<Bar>>) \o s

(* A text that goes on as the field of d. *)
LEMMA FieldAhead ==
  ASSUME NEW q \in Seq(Byte), NEW W \in Seq(Byte), NEW d \in Seq(Byte), NEW post \in Seq(Byte),
         Alike(q, W, Field(d), post),
         NEW t \in Seq(Byte), Barless(t)
  PROVE  /\ q = t => ~(Len(Field(d)) <= Len(q))
         /\ \A s \in Seq(Byte) : Line(q, t, s) =>
                t = Decimal(Len(d)) /\ Alike(s, W, d, post)
<1> DEFINE n == Decimal(Len(d))
           bar == <<Bar>>
           nb == n \o bar
           x == d \o post
<1>1. bar \in Seq(Byte) /\ Len(bar) = 1 /\ bar[1] = Bar
  BY DigitBytes
<1>2. /\ n \in Seq(Byte) /\ Len(n) \in Nat \ {0}
      /\ Field(d) = nb \o d /\ Len(Field(d)) = Len(n) + 1 + Len(d)
  BY FieldOf
<1>3. \A k \in 1 .. Len(n) : n[k] # Bar
  <2>1. n \in Seq(Digit)
    BY DecimalOf, LenProperties
  <2> QED BY <2>1, NoBar
<1> HIDE DEF n, bar
<1>4. /\ nb \in Seq(Byte) /\ Len(nb) = Len(n) + Len(bar)
      /\ \A k \in 1 .. Len(n) + Len(bar) : nb[k] = IF k <= Len(n) THEN n[k] ELSE bar[k - Len(n)]
  BY <1>1, <1>2, ConcatProperties
<1> HIDE DEF nb
<1>5. nb[Len(n) + 1] = Bar
  <2> DEFINE k == Len(n) + 1
  <2>1. k \in 1 .. Len(n) + Len(bar) /\ ~(k <= Len(n)) /\ k - Len(n) = 1
    BY <1>1, <1>2
  <2> HIDE DEF k
  <2> QED BY <1>1, <1>4, <2>1 DEF k
<1>6. x \in Seq(Byte)
  BY ConcatProperties
<1>7. q \o W = nb \o x
  <2>1. Associates(nb, d, post)
    BY <1>4, Associative
  <2> QED BY <1>2, <2>1 DEF Associates, Alike, x
<1> HIDE DEF x
<1>8. ASSUME q = t, Len(Field(d)) <= Len(q)
      PROVE  FALSE
  <2>1. Len(d) \in Nat /\ Len(q) \in Nat
    BY LenProperties
  <2>2. Len(nb) <= Len(q) /\ Len(n) + 1 \in 1 .. Len(nb) /\ Len(n) + 1 \in 1 .. Len(q)
    BY <1>1, <1>2, <1>4, <1>8, <2>1
  <2>3. q[Len(n) + 1] = nb[Len(n) + 1]
    <3>1. Alike(q, W, nb, x) /\ nb \in Seq(Byte)
      BY <1>4, <1>7 DEF Alike
    <3> QED BY <1>6, <2>2, <3>1, CutShorter
  <2>4. t[Len(n) + 1] # Bar
    BY <1>8, <2>2 DEF Barless
  <2> QED BY <1>5, <1>8, <2>3, <2>4
<1>9. ASSUME NEW s \in Seq(Byte), q = (t \o bar) \o s
      PROVE  t = n /\ s \o W = x
  <2> DEFINE tb == t \o bar
             r == s \o W
  <2>1. tb \in Seq(Byte) /\ r \in Seq(Byte)
    BY <1>1, ConcatProperties
  <2> HIDE DEF tb
  <2>2. Associates(tb, s, W)
    BY <2>1, Associative
  <2>3. (t \o bar) \o r = (n \o bar) \o x
    BY <1>7, <1>9, <2>2 DEF Associates, tb, nb
  <2> HIDE DEF r
  <2>4. t = n /\ r = x
    <3>1. \A k \in 1 .. Len(t) : t[k] # Bar
      BY DEF Barless
    <3> QED BY <1>2, <1>3, <1>6, <1>9, <2>1, <2>3, <3>1, FirstBar DEF bar
  <2> QED BY <2>4 DEF r
<1>10. ASSUME NEW s \in Seq(Byte), Line(q, t, s)
       PROVE  t = Decimal(Len(d)) /\ Alike(s, W, d, post)
  <2>1. q = (t \o bar) \o s
    BY <1>10 DEF Line, bar
  <2>2. t = n /\ s \o W = x
    BY <1>9, <2>1
  <2> QED BY <2>2 DEF n, x, Alike
<1> QED BY <1>8, <1>10

LEMMA FieldRead ==
  ASSUME RP!Inv, recvSize > 0, NEW o \in Nat, o <= Len(R!Contents),
         NEW W \in Seq(Byte), NEW d \in Seq(Byte), NEW post \in Seq(Byte),
         Len(d) < LengthModulus,
         Alike(Rest(R!Contents, o), W, Field(d), post),
         DataField(o).outcome # "undefined"
  PROVE  /\ o + Len(Field(d)) <= Len(R!Contents) => DataField(o) = FieldThere(o, d)
         /\ o + Len(Field(d)) > Len(R!Contents) => DataField(o).outcome # "there"
<1> DEFINE C == R!Contents
           q == Rest(C, o)
           n == Decimal(Len(d))
           bar == <<Bar>>
           line == R!GetLine(Bar, o)
           t == line.text
           count == Number(t)
           start == o + Len(t) + 1
           data == R!GetData(count, start)
<1>1. C \in Seq(Byte) /\ recvSize = Len(C) /\ Len(C) \in Nat /\ Len(d) \in Nat
  BY BufferFacts, LenProperties
<1>2. /\ DataField(o).length = count /\ DataField(o).text = data.text
      /\ DataField(o).next = start + count
      /\ DataField(o).outcome =
           CASE ~line.valid -> "undefined"
             [] line.valid /\ ~(line.found /\ IsNumber(t)) -> "missing"
             [] OTHER -> IF ~data.valid THEN "undefined"
                         ELSE IF data.left > 0 THEN "missing" ELSE "there"
      /\ DataField(o) = [length |-> count, text |-> data.text, next |-> start + count,
                         outcome |-> DataField(o).outcome]
  BY DEF DataField
<1>3. line.valid # FALSE
  BY <1>2
<1>4. /\ line.valid = TRUE /\ line.found \in BOOLEAN
      /\ t \in Seq(Byte)
      /\ \A k \in 1 .. Len(t) : t[k] # Bar
      /\ line.found => \E s \in Seq(Byte) : q = (t \o bar) \o s
      /\ ~line.found => q = t
  BY <1>3, RecvLine
<1> HIDE DEF C, line, t, count, start, data
<1>5. q \in Seq(Byte) /\ Len(q) = Len(C) - o /\ \A k \in 1 .. Len(C) - o : q[k] = C[o + k]
  <2>1. o \in 0 .. Len(C)
    BY <1>1 DEF C
  <2> QED BY <1>1, <2>1, RestProperties
<1>6. /\ n \in Seq(Byte) /\ Len(n) \in Nat \ {0}
      /\ Field(d) = (n \o bar) \o d /\ Field(d) \in Seq(Byte)
      /\ Len(Field(d)) = Len(n) + 1 + Len(d)
  BY FieldOf
<1>7. n \in Seq(Digit) /\ Value(n) = Len(d)
  BY <1>1, DecimalOf
<1>8. Alike(q, W, Field(d), post)
  BY DEF C
<1> HIDE DEF q, n, bar
<1>9. q \in Seq(Byte) /\ t \in Seq(Byte) /\ Barless(t)
  BY <1>4, <1>5 DEF Barless
<1>12. q = t => ~(Len(Field(d)) <= Len(q))
  BY <1>8, <1>9, FieldAhead
<1>13. ASSUME NEW s \in Seq(Byte), Line(q, t, s)
       PROVE  t = Decimal(Len(d)) /\ Alike(s, W, d, post)
  BY <1>8, <1>9, <1>13, FieldAhead
<1>10. CASE ~line.found
  <2>1. DataField(o).outcome = "missing"
    BY <1>2, <1>4, <1>10
  <2>2. ~(Len(Field(d)) <= Len(q))
    BY <1>4, <1>10, <1>12
  <2>3. ~(o + Len(Field(d)) <= Len(C))
    <3>1. Len(Field(d)) \in Nat
      BY <1>1, <1>6
    <3> QED BY <1>1, <1>5, <2>2, <3>1
  <2> QED BY <2>1, <2>3 DEF C
<1>11. CASE line.found
  <2>1. PICK s \in Seq(Byte) : q = (t \o bar) \o s
    BY <1>4, <1>11
  <2>2. t = n /\ Alike(s, W, d, post)
    <3>1. Line(q, t, s)
      BY <2>1 DEF Line, bar
    <3> QED BY <1>13, <3>1 DEF n
  <2>3. IsNumber(t) /\ count = Len(d)
    <3>1. n # <<>>
      BY <1>6, EmptySeq
    <3> QED BY <1>6, <1>7, <2>2, <3>1, NumberOf DEF count
  <2> DEFINE tb == t \o bar
             k == Len(d)
  <2>4. tb \in Seq(Byte) /\ Len(tb) = Len(n) + 1
    <3>1. bar \in Seq(Byte) /\ Len(bar) = 1
      BY DigitBytes DEF bar
    <3> QED BY <1>6, <2>2, <3>1, ConcatProperties
  <2>5. start = o + Len(tb) /\ start \in Nat /\ start + k = o + Len(Field(d)) /\ k \in Nat
    BY <1>1, <1>6, <2>2, <2>4 DEF start
  <2> HIDE DEF tb, k
  <2>6. Len(C) = start + Len(s) /\ Rest(C, start) = s /\ start \in 0 .. Len(C)
    <3>1. o \in 0 .. Len(C) /\ Follow(C, o, tb, s)
      BY <1>1, <2>1 DEF q, C, tb, Follow
    <3>2. Len(C) = o + Len(tb) + Len(s) /\ Rest(C, o + Len(tb)) = s
      <4>1. C \in Seq(Byte) /\ tb \in Seq(Byte)
        BY <1>1, <2>4
      <4> QED BY <3>1, <4>1, RestAfter
    <3>3. Len(s) \in Nat
      BY LenProperties
    <3> QED BY <1>1, <2>4, <2>5, <3>2, <3>3
  <2>7. data.valid # FALSE /\ DataField(o).outcome = IF data.left > 0 THEN "missing" ELSE "there"
    BY <1>2, <1>4, <1>11, <2>3
  <2>8. DataField(o) = [length |-> Len(d), text |-> data.text, next |-> o + Len(Field(d)),
                        outcome |-> DataField(o).outcome]
    <3>1. start + count = o + Len(Field(d))
      BY <2>3, <2>5 DEF k
    <3> QED BY <1>2, <2>3, <3>1
  <2>9. data = R!GetData(k, start)
    BY <2>3 DEF data, k
  <2>10. CASE k = 0
    <3>1. data.left = 0 /\ data.text = <<>>
      BY <2>5, <2>7, <2>9, <2>10, RecvData
    <3>2. d = <<>>
      BY <2>10, EmptySeq DEF k
    <3>3. DataField(o).outcome = "there"
      BY <2>7, <3>1
    <3>4. o + Len(Field(d)) <= Len(C)
      BY <1>1, <2>5, <2>6, <2>10
    <3>5. ~(o + Len(Field(d)) > Len(C))
      BY <1>1, <2>5, <3>4
    <3> QED BY <2>8, <3>1, <3>2, <3>3, <3>4, <3>5 DEF FieldThere, C
  <2>11. CASE k # 0 /\ start + k <= Len(C)
    <3>1. data.left = 0 /\ data.text = SubSeq(C, start + 1, start + k)
      BY <1>1, <2>5, <2>7, <2>9, <2>11, RecvData DEF C
    <3>2. SubSeq(C, start + 1, start + k) = d
      <4>1. Alike(Rest(C, start), W, d, post)
        BY <2>2, <2>6
      <4> QED BY <1>1, <2>6, <2>11, <4>1, PartIs DEF k
    <3>3. DataField(o).outcome = "there"
      BY <2>7, <3>1
    <3>4. o + Len(Field(d)) <= Len(C)
      BY <2>5, <2>11
    <3>5. ~(o + Len(Field(d)) > Len(C))
      BY <1>1, <2>5, <3>4
    <3> QED BY <2>8, <3>1, <3>2, <3>3, <3>4, <3>5 DEF FieldThere, C
  <2>12. CASE k # 0 /\ ~(start + k <= Len(C))
    <3>1. start + k > Len(C)
      BY <1>1, <2>5, <2>12
    <3>2. data.left > 0
      BY <1>1, <2>5, <2>7, <2>9, <2>12, <3>1, RecvData DEF C
    <3>3. DataField(o).outcome # "there"
      BY <2>7, <3>2
    <3> QED BY <2>5, <2>12, <3>3 DEF C
  <2> QED BY <2>10, <2>11, <2>12
<1> QED BY <1>4, <1>10, <1>11
-----------------------------------------------------------------------------
(* Messages *)

LengthField(m) == Field(Pad(BodySize(m)))
TypeField(m) == Field(<<m.type>>)
ContentField(m) == Field(Content(m))
Body(m) == TypeField(m) \o ContentField(m)

LEMMA MessageOf ==
  ASSUME NEW m \in Sendable
  PROVE  /\ m \in Message /\ m.type \in Digit
         /\ Content(m) = m.content /\ m.content \in Seq(Byte)
         /\ m.type = TTest => Len(m.content) = TestSize
         /\ BodySize(m) \in Nat /\ BodySize(m) < LengthModulus
         /\ BodySize(m) = Len(TypeField(m)) + Len(ContentField(m))
         /\ HeaderSize + BodySize(m) < LengthModulus
         /\ TypeField(m) \in Seq(Byte) /\ ContentField(m) \in Seq(Byte)
         /\ Body(m) \in Seq(Byte) /\ Len(Body(m)) = BodySize(m)
         /\ Len(Decimal(BodySize(m))) <= NumDigits
         /\ LengthField(m) \in Seq(Byte) /\ Len(LengthField(m)) = HeaderSize
         /\ Bytes(m) = LengthField(m) \o Body(m) /\ Bytes(m) \in Seq(Byte)
         /\ Len(Bytes(m)) = HeaderSize + BodySize(m)
<1> DEFINE c == m.content
           p == Pad(BodySize(m))
           F0 == LengthField(m)
           F1 == TypeField(m)
           F2 == ContentField(m)
           B == Body(m)
<1>1. /\ m \in Message /\ m.type \in Digit /\ c \in Seq(Byte)
      /\ m.type = TTest => Len(c) = TestSize
      /\ Len(Decimal(BodySize(m))) <= NumDigits
      /\ Len(Bytes(m)) < LengthModulus
  BY DEF Sendable, Message
<1>2. Content(m) = c
  <2>1. SubSeq(c, 1, Len(c)) = c
    BY <1>1
  <2> QED BY <1>1, <2>1 DEF Content
<1>3. F2 \in Seq(Byte) /\ Len(F2) \in Nat
  BY <1>1, <1>2, FieldOf, LenProperties DEF ContentField
<1>4. F1 \in Seq(Byte) /\ Len(F1) \in Nat
  <2> DEFINE t == <<m.type>>
  <2>1. t \in Seq(Byte)
    <3> DEFINE x == m.type
    <3>1. x \in Byte
      BY <1>1, DigitBytes
    <3> HIDE DEF x
    <3>2. <<x>> \in Seq(Byte)
      BY <3>1
    <3> QED BY <3>2 DEF x
  <2> HIDE DEF t
  <2>2. F1 = Field(t)
    BY DEF TypeField, t
  <2> QED BY <2>1, <2>2, FieldOf, LenProperties
<1>5. BodySize(m) = Len(F1) + Len(F2)
  BY DEF BodySize, Fields, TypeField, ContentField
<1>6. p \in Seq(Byte) /\ Len(p) = NumDigits
  <2>1. BodySize(m) \in Nat
    BY <1>3, <1>4, <1>5
  <2> QED BY <1>1, <2>1, PadOf, NoBar
<1> HIDE DEF p
<1>7. F0 \in Seq(Byte) /\ Len(F0) = HeaderSize
  BY <1>6, FieldOf, HeaderLength DEF LengthField, p
<1> HIDE DEF F1, F2
<1>8. B \in Seq(Byte) /\ Len(B) = Len(F1) + Len(F2)
  <2>1. B = F1 \o F2
    BY DEF Body, F1, F2
  <2> QED BY <1>3, <1>4, <2>1, ConcatProperties
<1>9. Bytes(m) = F0 \o B
  BY DEF Bytes, Fields, LengthField, Body, TypeField, ContentField
<1> HIDE DEF F0, B
<1>10. Bytes(m) \in Seq(Byte) /\ Len(Bytes(m)) = Len(F0) + Len(B)
  BY <1>7, <1>8, <1>9, ConcatProperties
<1>11. /\ Len(Bytes(m)) = HeaderSize + BodySize(m)
       /\ HeaderSize + BodySize(m) < LengthModulus
       /\ BodySize(m) \in Nat /\ BodySize(m) < LengthModulus
  <2> DEFINE b == BodySize(m)
  <2>1. HeaderSize \in Nat /\ LengthModulus \in Nat /\ b \in Nat
    BY <1>3, <1>4, <1>5, HeaderLength, FramingAssumption
  <2>2. Len(Bytes(m)) = HeaderSize + b
    BY <1>5, <1>7, <1>8, <1>10
  <2> HIDE DEF b
  <2>3. HeaderSize + b < LengthModulus /\ b < LengthModulus
    BY <1>1, <2>1, <2>2
  <2> QED BY <2>1, <2>2, <2>3 DEF b
<1> QED BY <1>1, <1>2, <1>3, <1>4, <1>5, <1>7, <1>8, <1>9, <1>10, <1>11 DEF F0, F1, F2, B

(* recvBuffer_ begins with m, as far as that has come: what is on its way   *)
(* behind it completes m and goes on.                                      *)
Coming(m, w, post) == Alike(R!Contents, w, Bytes(m), post)

LEMMA LengthRead ==
  ASSUME RP!Inv, recvSize > 0, NEW m \in Sendable,
         NEW w \in Seq(Byte), NEW post \in Seq(Byte), Coming(m, w, post),
         Length.outcome # "undefined"
  PROVE  /\ HasLength <=> HeaderSize <= recvSize
         /\ HasLength => /\ MsgLen = Len(Bytes(m))
                         /\ Length.next = HeaderSize
<1> DEFINE q == R!Contents
           p == Pad(BodySize(m))
           n == BodySize(m)
           x == Body(m) \o post
<1>1. q \in Seq(Byte) /\ recvSize = Len(q) /\ Len(q) \in Nat
  BY BufferFacts
<1>2. /\ p \in Seq(Digit) /\ p \in Seq(Byte) /\ Len(p) = NumDigits /\ Value(p) = n
      /\ n \in Nat /\ n < LengthModulus
      /\ LengthField(m) = Field(p) /\ Len(Field(p)) = HeaderSize
      /\ HeaderSize + n < LengthModulus
      /\ Len(Bytes(m)) = HeaderSize + n
  BY MessageOf, PadOf, NoBar DEF LengthField
<1>3. Alike(Rest(q, 0), w, Field(p), x) /\ x \in Seq(Byte)
  <2>1. Body(m) \in Seq(Byte) /\ LengthField(m) \in Seq(Byte) /\ Bytes(m) = LengthField(m) \o Body(m)
    BY MessageOf
  <2>2. Rest(q, 0) = q /\ 0 \in 0 .. Len(q)
    BY <1>1, RestNone
  <2> HIDE DEF q
  <2>3. Alike(Rest(q, 0), w, LengthField(m) \o Body(m), post)
    BY <2>1, <2>2 DEF Coming, q
  <2>4. Alike(Rest(q, 0), w, LengthField(m), x)
    BY <1>1, <2>1, <2>2, <2>3, AlikeAfter DEF x
  <2> QED BY <1>2, <2>1, <2>4, ConcatProperties
<1> HIDE DEF q, p, n, x
<1>4. /\ HeaderSize <= Len(q) => DataField(0) = FieldThere(0, p)
      /\ HeaderSize > Len(q) => DataField(0).outcome # "there"
  <2>1. NumDigits < LengthModulus /\ 0 <= Len(q) /\ 0 \in Nat /\ HeaderSize \in Nat
    BY <1>1, FramingAssumption, HeaderLength
  <2>2. DataField(0).outcome # "undefined"
    BY DEF Length
  <2>3. /\ 0 + HeaderSize <= Len(q) => DataField(0) = FieldThere(0, p)
        /\ 0 + HeaderSize > Len(q) => DataField(0).outcome # "there"
    BY <1>2, <1>3, <2>1, <2>2, FieldRead DEF q
  <2> QED BY <2>1, <2>3
<1>5. ASSUME HeaderSize > Len(q)
      PROVE  ~HasLength
  BY <1>4, <1>5 DEF HasLength, Length
<1>6. ASSUME HeaderSize <= Len(q)
      PROVE  /\ HasLength /\ Length.next = HeaderSize
             /\ MsgLen = Len(Bytes(m))
  <2>1. Length.text = p /\ Length.outcome = "there" /\ Length.next = 0 + HeaderSize
    BY <1>2, <1>4, <1>6 DEF Length, FieldThere
  <2>2. IsNumber(p) /\ Number(p) = n
    <3>1. p # <<>>
      BY <1>2, EmptySeq, FramingAssumption
    <3> QED BY <1>2, <3>1, NumberOf
  <2>3. MsgLen = (HeaderSize + n) % LengthModulus
    BY <1>2, <2>1, <2>2, HeaderLength DEF MsgLen
  <2>4. HeaderSize \in Nat /\ 0 + HeaderSize = HeaderSize
    BY HeaderLength
  <2>5. MsgLen = HeaderSize + n
    <3> DEFINE k == HeaderSize + n
    <3>1. k \in Nat /\ k < LengthModulus /\ LengthModulus \in Nat
      BY <1>2, <2>4, FramingAssumption
    <3>2. MsgLen = k % LengthModulus
      BY <2>3
    <3> HIDE DEF k
    <3>3. k % LengthModulus = k
      BY <3>1
    <3> QED BY <3>2, <3>3 DEF k
  <2> QED BY <1>2, <2>1, <2>2, <2>4, <2>5 DEF HasLength
<1>7. HeaderSize <= Len(q) \/ HeaderSize > Len(q)
  BY <1>1, HeaderLength
<1>8. ~(HeaderSize <= Len(q) /\ HeaderSize > Len(q))
  BY <1>1, HeaderLength
<1> QED BY <1>1, <1>5, <1>6, <1>7, <1>8

LEMMA TypeRead ==
  ASSUME RP!Inv, recvSize > 0, NEW m \in Sendable,
         NEW w \in Seq(Byte), NEW post \in Seq(Byte), Coming(m, w, post),
         HasMessage, Type.outcome # "undefined"
  PROVE  /\ HasType /\ TypeNumber = m.type
         /\ Type.next = HeaderSize + Len(TypeField(m))
<1> DEFINE q == R!Contents
           t == <<m.type>>
           x == ContentField(m) \o post
           y == Body(m)
           h == HeaderSize
<1>1. q \in Seq(Byte) /\ recvSize = Len(q) /\ Len(q) \in Nat
  BY BufferFacts
<1>2. /\ m.type \in Digit /\ TypeField(m) = Field(t)
      /\ TypeField(m) \in Seq(Byte) /\ ContentField(m) \in Seq(Byte)
      /\ y = TypeField(m) \o ContentField(m) /\ y \in Seq(Byte)
      /\ Bytes(m) = LengthField(m) \o y
      /\ LengthField(m) \in Seq(Byte) /\ Len(LengthField(m)) = h
      /\ Len(Bytes(m)) = h + Len(TypeField(m)) + Len(ContentField(m))
      /\ Len(TypeField(m)) \in Nat /\ Len(ContentField(m)) \in Nat /\ h \in Nat
  <2>1. Len(TypeField(m)) \in Nat /\ Len(ContentField(m)) \in Nat /\ h \in Nat
    BY MessageOf, HeaderLength, LenProperties
  <2>2. TypeField(m) = Field(t) /\ y = TypeField(m) \o ContentField(m)
    BY DEF TypeField, Body
  <2>3. Len(Bytes(m)) = h + BodySize(m)
        /\ BodySize(m) = Len(TypeField(m)) + Len(ContentField(m))
    BY MessageOf
  <2> HIDE DEF h, y
  <2>4. Len(Bytes(m)) = h + Len(TypeField(m)) + Len(ContentField(m))
    BY <2>1, <2>3
  <2> QED BY <2>1, <2>2, <2>4, MessageOf DEF h, y
<1>3. t \in Seq(Digit) /\ t \in Seq(Byte) /\ Len(t) = 1 /\ t # <<>> /\ Value(t) = m.type
  <2> DEFINE e == m.type
  <2>1. e \in Digit /\ e \in Nat
    BY <1>2, DigitBytes
  <2> HIDE DEF e
  <2>2. <<e>> \in Seq(Digit) /\ Len(<<e>>) = 1 /\ <<e>> # <<>> /\ <<e>> = Append(<<>>, e)
        /\ <<>> \in Seq(Digit)
    BY <2>1
  <2>3. Value(<<e>>) = 10 * 0 + e
    BY <2>1, <2>2, ValueAppend, ValueEmpty
  <2>4. Value(<<e>>) = e
    BY <2>1, <2>3
  <2> QED BY <2>2, <2>4, NoBar DEF e
<1>4. h <= Len(q) /\ HasLength /\ Length.next = h /\ Len(Bytes(m)) <= Len(q)
  <2>1. HasLength /\ Length.outcome # "undefined" /\ recvSize >= MsgLen
    BY DEF HasMessage, HasLength
  <2>2. MsgLen = Len(Bytes(m)) /\ Length.next = h
    BY <2>1, LengthRead
  <2>3. Len(Bytes(m)) <= Len(q)
    BY <1>1, <2>1, <2>2
  <2>4. h <= Len(Bytes(m)) /\ Len(Bytes(m)) \in Nat
    <3> DEFINE a == Len(TypeField(m))
               b == Len(ContentField(m))
               c == Len(Bytes(m))
    <3>1. a \in Nat /\ b \in Nat /\ h \in Nat /\ c = h + a + b
      BY <1>2
    <3> HIDE DEF a, b, c, h
    <3> QED BY <3>1 DEF c
  <2> DEFINE c == Len(Bytes(m))
  <2> HIDE DEF c, h, q
  <2>5. h <= Len(q)
    <3>1. c \in Nat /\ h \in Nat /\ c <= Len(q) /\ h <= c
      BY <1>2, <2>3, <2>4 DEF c
    <3> QED BY <1>1, <3>1
  <2> QED BY <2>1, <2>2, <2>3, <2>5
<1> HIDE DEF q, t, x, y, h
<1>5. Alike(Rest(q, h), w, y, post)
  <2>1. Rest(q, 0) = q /\ 0 \in 0 .. Len(q)
    BY <1>1, RestNone
  <2>2. Alike(Rest(q, 0), w, LengthField(m) \o y, post)
    BY <1>2, <2>1 DEF Coming, q
  <2>3. Alike(Rest(q, 0 + h), w, y, post)
    <3>1. 0 + h <= Len(q)
      BY <1>2, <1>4
    <3> QED BY <1>1, <1>2, <2>1, <2>2, <3>1, AlikeAfter
  <2>4. 0 + h = h
    BY <1>2
  <2> QED BY <2>3, <2>4
<1>6. Alike(Rest(q, h), w, Field(t), x) /\ x \in Seq(Byte) /\ Field(t) \in Seq(Byte)
  <2>1. h \in 0 .. Len(q)
    BY <1>1, <1>2, <1>4
  <2>2. Alike(Rest(q, h), w, TypeField(m), x)
    BY <1>1, <1>2, <1>5, <2>1, AlikeAfter DEF x
  <2> QED BY <1>2, <2>2, ConcatProperties DEF x
<1>7. DataField(h) = FieldThere(h, t)
  <2>1. DataField(h).outcome # "undefined"
    BY <1>4 DEF Type
  <2>2. Len(t) < LengthModulus
    BY <1>3, FramingAssumption
  <2>3. h + Len(Field(t)) <= Len(q)
    BY <1>1, <1>2, <1>4
  <2> QED BY <1>2, <1>3, <1>4, <1>6, <2>1, <2>2, <2>3, FieldRead DEF q
<1>8. Type.text = t /\ Type.outcome = "there" /\ Type.next = h + Len(Field(t))
  BY <1>4, <1>7 DEF Type, FieldThere
<1>9. IsNumber(t) /\ Value(LeadingDigits(t)) = m.type
  <2>1. m.type < LengthModulus * LengthModulus
    <3> DEFINE e == m.type
               b == BodySize(m)
    <3>1. e \in 0 .. 9 /\ b \in Nat /\ HeaderSize + b < LengthModulus
      BY <1>2, MessageOf DEF Digit
    <3>2. HeaderSize > 2 /\ HeaderSize \in Nat /\ LengthModulus \in Nat
      BY HeaderLength, FramingAssumption
    <3> HIDE DEF e, b
    <3>3. LengthModulus > 3
      BY <3>1, <3>2
    <3>4. LengthModulus * LengthModulus > 9
      <4>1. LengthModulus * LengthModulus >= 4 * LengthModulus
        BY <3>2, <3>3
      <4> QED BY <3>2, <3>3, <4>1
    <3> QED BY <3>1, <3>2, <3>4 DEF e
  <2>2. LeadingDigits(t) = t
    BY <1>3, LeadingDigitsOf
  <2> QED BY <1>3, <2>1, <2>2 DEF IsNumber
<1> QED BY <1>2, <1>8, <1>9 DEF HasType, TypeNumber, h

LEMMA ContentRead ==
  ASSUME RP!Inv, recvSize > 0, NEW m \in Sendable,
         NEW w \in Seq(Byte), NEW post \in Seq(Byte), Coming(m, w, post),
         HasMessage, Type.outcome # "undefined", Parsed.outcome # "undefined"
  PROVE  /\ Parsed.outcome = "there"
         /\ Parsed.text = m.content
         /\ Parsed.length = Len(m.content)
<1> DEFINE q == R!Contents
           c == m.content
           l0 == LengthField(m)
           l1 == TypeField(m)
           f == ContentField(m)
           y == Body(m)
           h == HeaderSize
           o == HeaderSize + Len(TypeField(m))
<1>1. q \in Seq(Byte) /\ recvSize = Len(q) /\ Len(q) \in Nat
  BY BufferFacts
<1>2. /\ l0 \in Seq(Byte) /\ l1 \in Seq(Byte) /\ f \in Seq(Byte) /\ y \in Seq(Byte)
      /\ y = l1 \o f /\ Bytes(m) = l0 \o y /\ Len(l0) = h
      /\ c \in Seq(Byte) /\ f = Field(c)
      /\ h \in Nat /\ Len(l1) \in Nat /\ Len(f) \in Nat /\ Len(c) \in Nat
  <2>1. y = l1 \o f
    BY DEF Body
  <2>2. h \in Nat /\ Len(l1) \in Nat /\ Len(f) \in Nat /\ Len(c) \in Nat
    BY MessageOf, HeaderLength, LenProperties
  <2>3. f = Field(c)
    BY MessageOf DEF ContentField
  <2> HIDE DEF y, l1, l0, f, c, h
  <2> QED BY <2>1, <2>2, <2>3, MessageOf DEF y, l1, l0, f, c, h
<1>3. Len(Bytes(m)) = h + Len(l1) + Len(f) /\ Len(f) < LengthModulus
  <2> DEFINE b == BodySize(m)
  <2>1. /\ Len(Bytes(m)) = h + b /\ b = Len(l1) + Len(f) /\ b < LengthModulus
        /\ LengthModulus \in Nat
    BY MessageOf, FramingAssumption
  <2> HIDE DEF b, l1, f, h
  <2> QED BY <1>2, <2>1
<1>4. Len(c) < LengthModulus
  <2>1. Len(f) = Len(Decimal(Len(c))) + 1 + Len(c) /\ Len(Decimal(Len(c))) \in Nat
    BY <1>2, FieldOf
  <2> DEFINE k == Len(Decimal(Len(c)))
             n == Len(c)
             u == Len(f)
  <2>2. u = k + 1 + n /\ k \in Nat /\ n \in Nat /\ u < LengthModulus /\ LengthModulus \in Nat
    BY <1>2, <1>3, <2>1, FramingAssumption
  <2> HIDE DEF k, n, u
  <2>3. n < LengthModulus
    BY <2>2
  <2> QED BY <2>3 DEF n
<1>5. Len(Bytes(m)) <= Len(q)
  <2>1. HasLength /\ Length.outcome # "undefined" /\ recvSize >= MsgLen
    BY DEF HasMessage, HasLength
  <2>2. MsgLen = Len(Bytes(m))
    BY <2>1, LengthRead
  <2>3. Len(Bytes(m)) \in Nat
    BY MessageOf, LenProperties
  <2> HIDE DEF q
  <2> QED BY <1>1, <2>1, <2>2, <2>3
<1> HIDE DEF q, c, l0, l1, f, y, h
<1>6. o + Len(f) <= Len(q) /\ o \in Nat /\ o = h + Len(l1) /\ o <= Len(q) /\ h <= Len(q)
  <2> DEFINE a == Len(l1)
             b == Len(f)
             n == Len(q)
  <2>1. a \in Nat /\ b \in Nat /\ h \in Nat /\ n \in Nat /\ h + a + b <= n /\ o = h + a
    BY <1>1, <1>2, <1>3, <1>5 DEF h, l1
  <2> HIDE DEF a, b, n, o
  <2>2. o + b <= n /\ o \in Nat /\ o <= n /\ h <= n
    BY <2>1
  <2> QED BY <2>1, <2>2 DEF a, b, n
<1> HIDE DEF o
<1>7. Alike(Rest(q, h), w, l1 \o f, post)
  <2>1. Rest(q, 0) = q /\ 0 \in 0 .. Len(q)
    BY <1>1, RestNone
  <2>2. Alike(Rest(q, 0), w, l0 \o y, post)
    BY <1>2, <2>1 DEF Coming, q
  <2>3. Alike(Rest(q, 0 + h), w, y, post)
    <3>1. 0 + h <= Len(q)
      BY <1>2, <1>6
    <3> QED BY <1>1, <1>2, <2>1, <2>2, <3>1, AlikeAfter
  <2>4. 0 + h = h
    BY <1>2
  <2> QED BY <1>2, <2>3, <2>4
<1>8. Alike(Rest(q, o), w, Field(c), post)
  <2>1. h \in 0 .. Len(q) /\ h + Len(l1) <= Len(q)
    BY <1>1, <1>2, <1>6
  <2>2. Alike(Rest(q, h + Len(l1)), w, f, post)
    BY <1>1, <1>2, <1>7, <2>1, AlikeAfter
  <2> QED BY <1>2, <1>6, <2>2
<1>9. Type.next = o
  BY TypeRead DEF o
<1>10. DataField(o) = FieldThere(o, c)
  <2>1. DataField(o).outcome # "undefined"
    BY <1>9 DEF Parsed
  <2>2. o + Len(Field(c)) <= Len(q)
    BY <1>2, <1>6
  <2> QED BY <1>2, <1>4, <1>6, <1>8, <2>1, <2>2, FieldRead DEF q
<1> QED BY <1>9, <1>10 DEF Parsed, FieldThere, c

(* The whole of fromBytes on what toBytes made. *)
LEMMA MessageRead ==
  ASSUME RP!Inv, recvSize > 0, NEW m \in Sendable,
         NEW w \in Seq(Byte), NEW post \in Seq(Byte), Coming(m, w, post),
         HasMessage, ~IsUndefined
  PROVE  /\ MsgLen = Len(Bytes(m)) /\ Len(Bytes(m)) <= Len(R!Contents)
         /\ HasContent <=> m.type \in {TEcho, TTest}
         /\ HasContent => [type |-> TypeNumber, content |-> Parsed.text] = m
<1>1. HasLength /\ Length.outcome # "undefined" /\ recvSize >= MsgLen
  BY DEF HasMessage, HasLength
<1>2. MsgLen = Len(Bytes(m))
  BY <1>1, LengthRead
<1>3. Len(Bytes(m)) <= Len(R!Contents)
  <2>1. Len(Bytes(m)) \in Nat
    BY MessageOf, LenProperties
  <2> QED BY <1>1, <1>2, <2>1, BufferFacts
<1>4. Type.outcome # "undefined"
  BY DEF IsUndefined
<1>5. HasType /\ TypeNumber = m.type
  BY <1>4, TypeRead
<1>6. IsKnown <=> m.type \in {TEcho, TTest}
  BY <1>5 DEF IsKnown
<1>7. ASSUME IsKnown
      PROVE  /\ HasContent
             /\ Parsed.text = m.content
  <2>1. Parsed.outcome # "undefined"
    BY <1>7 DEF IsUndefined
  <2>2. /\ Parsed.outcome = "there" /\ Parsed.text = m.content
        /\ Parsed.length = Len(m.content)
    BY <1>4, <2>1, ContentRead
  <2>3. m.type = TTest => Len(m.content) > 0
    <3>1. TestSize > 0
      BY FramingAssumption
    <3> QED BY <3>1, MessageOf
  <2> QED BY <1>5, <1>7, <2>2, <2>3 DEF HasContent
<1>8. HasContent => IsKnown
  BY DEF HasContent
<1>9. m = [type |-> m.type, content |-> m.content]
  BY MessageOf DEF Message
<1> QED BY <1>2, <1>3, <1>5, <1>6, <1>7, <1>8, <1>9
-----------------------------------------------------------------------------
(* Texts of several messages *)

LEMMA TextEmpty == Text(<<>>) = <<>>
<1> DEFINE d == [i \in DOMAIN <<>> |-> Bytes(<<>>[i])]
<1>1. d \in Seq(Seq(Byte)) /\ Len(d) = 0
  BY EmptySeq
<1>2. Text(<<>>) = FlattenSeq(d)
  BY DEF Text
<1> HIDE DEF d
<1>3. d = <<>>
  BY <1>1, EmptySeq
<1> QED BY <1>2, <1>3, FlattenEmpty

LEMMA BytesSeq ==
  ASSUME NEW q \in Seq(Sendable)
  PROVE  /\ [i \in DOMAIN q |-> Bytes(q[i])] \in Seq(Seq(Byte))
         /\ Len([i \in DOMAIN q |-> Bytes(q[i])]) = Len(q)
<1>1. Len(q) \in Nat /\ DOMAIN q = 1 .. Len(q)
  BY LenProperties
<1>2. \A i \in 1 .. Len(q) : Bytes(q[i]) \in Seq(Byte)
  BY ElementOfSeq, MessageOf
<1> QED BY <1>1, <1>2

LEMMA TextAppend ==
  ASSUME NEW q \in Seq(Sendable), NEW m \in Sendable
  PROVE  Text(Append(q, m)) = Text(q) \o Bytes(m)
<1> DEFINE e == Append(q, m)
           b == Bytes(m)
           B == [i \in DOMAIN q |-> Bytes(q[i])]
           D == [i \in DOMAIN e |-> Bytes(e[i])]
           F == Append(B, b)
<1>1. /\ e \in Seq(Sendable) /\ Len(e) = Len(q) + 1 /\ Len(q) \in Nat
      /\ \A i \in 1 .. Len(q) : e[i] = q[i]
      /\ e[Len(q) + 1] = m
  BY AppendProperties, LenProperties
<1>2. B \in Seq(Seq(Byte)) /\ Len(B) = Len(q) /\ \A i \in 1 .. Len(q) : B[i] = Bytes(q[i])
  BY BytesSeq, LenProperties
<1>3. D \in Seq(Seq(Byte)) /\ Len(D) = Len(e) /\ \A i \in 1 .. Len(e) : D[i] = Bytes(e[i])
  <2>1. D \in Seq(Seq(Byte)) /\ Len(D) = Len(e)
    <3> HIDE DEF e
    <3> QED BY <1>1, BytesSeq
  <2>2. DOMAIN e = 1 .. Len(e)
    BY <1>1, LenProperties
  <2> QED BY <2>1, <2>2
<1>4. b \in Seq(Byte)
  BY MessageOf
<1>5. Text(e) = FlattenSeq(D) /\ Text(q) = FlattenSeq(B)
  BY DEF Text
<1> HIDE DEF e, b, B, D
<1>6. /\ F \in Seq(Seq(Byte)) /\ Len(F) = Len(B) + 1
      /\ \A i \in 1 .. Len(B) : F[i] = B[i]
      /\ F[Len(B) + 1] = b
  BY <1>2, <1>4, AppendProperties
<1>7. FlattenSeq(F) = FlattenSeq(B) \o b
  BY <1>2, <1>4, FlattenAppend
<1> HIDE DEF F
<1>8. \A i \in 1 .. Len(e) : D[i] = F[i]
  <2> SUFFICES ASSUME NEW i \in 1 .. Len(e) PROVE D[i] = F[i]
    OBVIOUS
  <2>1. CASE i \in 1 .. Len(q)
    BY <1>1, <1>2, <1>3, <1>6, <2>1
  <2>2. CASE i = Len(q) + 1
    BY <1>1, <1>2, <1>3, <1>6, <2>2 DEF b
  <2> QED BY <1>1, <2>1, <2>2
<1>9. D = F
  BY <1>1, <1>2, <1>3, <1>6, <1>8, SeqEqual
<1> QED BY <1>5, <1>9, <1>7 DEF e, b

LEMMA TextSeq ==
  ASSUME NEW q \in Seq(Sendable)
  PROVE  Text(q) \in Seq(Byte) /\ SizeOf(q) \in Nat
<1> DEFINE T == {p \in Seq(Sendable) : Text(p) \in Seq(Byte)}
<1>1. <<>> \in T
  BY TextEmpty, EmptySeq
<1>2. ASSUME NEW p \in Seq(Sendable), NEW m \in Sendable, p \in T
      PROVE  Append(p, m) \in T
  <2>1. Text(Append(p, m)) = Text(p) \o Bytes(m) /\ Bytes(m) \in Seq(Byte)
    BY TextAppend, MessageOf
  <2>2. Text(p) \o Bytes(m) \in Seq(Byte)
    BY <1>2, <2>1, ConcatProperties
  <2> QED BY <2>1, <2>2, AppendProperties
<1>3. Seq(Sendable) \subseteq T
  <2> HIDE DEF T
  <2> QED BY <1>1, <1>2, SeqInductive
<1>4. Text(q) \in Seq(Byte)
  BY <1>3
<1> QED BY <1>4, LenProperties DEF SizeOf

LEMMA TextConcat ==
  ASSUME NEW p \in Seq(Sendable), NEW q \in Seq(Sendable)
  PROVE  Text(p \o q) = Text(p) \o Text(q)
<1> DEFINE T == {r \in Seq(Sendable) : Text(p \o r) = Text(p) \o Text(r)}
<1>1. <<>> \in T
  <2>1. p \o <<>> = p /\ Text(p) \o <<>> = Text(p)
    BY TextSeq, ConcatEmptySeq
  <2> QED BY <2>1, TextEmpty, EmptySeq
<1>2. ASSUME NEW r \in Seq(Sendable), NEW m \in Sendable, r \in T
      PROVE  Append(r, m) \in T
  <2> DEFINE a == Append(r, m)
             pr == p \o r
             b == Bytes(m)
             one == <<m>>
  <2>1. p \o a = Append(pr, m) /\ pr \in Seq(Sendable)
    <3>1. pr \in Seq(Sendable) /\ one \in Seq(Sendable) /\ a = r \o one
      BY ConcatProperties, AppendIsConcat
    <3>2. Append(pr, m) = pr \o one
      <4> HIDE DEF pr, one
      <4> QED BY <3>1, AppendIsConcat DEF one
    <3> HIDE DEF one
    <3>3. Associates(p, r, one)
      BY <3>1, Associative
    <3> QED BY <3>1, <3>2, <3>3 DEF Associates
  <2>2. Text(a) = Text(r) \o b
    BY TextAppend
  <2>3. Text(Append(pr, m)) = Text(pr) \o b
    BY <2>1, TextAppend
  <2>4. Text(p) \in Seq(Byte) /\ Text(r) \in Seq(Byte) /\ b \in Seq(Byte)
    BY TextSeq, MessageOf
  <2> HIDE DEF a, pr, b
  <2>5. Associates(Text(p), Text(r), b)
    BY <2>4, Associative
  <2>6. Text(pr) = Text(p) \o Text(r)
    BY <1>2 DEF pr
  <2>7. Text(p \o a) = Text(p) \o Text(a)
    BY <2>1, <2>2, <2>3, <2>5, <2>6 DEF Associates
  <2>8. a \in Seq(Sendable)
    BY AppendProperties DEF a
  <2> QED BY <2>7, <2>8 DEF a
<1>3. Seq(Sendable) \subseteq T
  <2> HIDE DEF T
  <2> QED BY <1>1, <1>2, SeqInductive
<1> QED BY <1>3

(* The first of several messages, and the others. *)
LEMMA TextCons ==
  ASSUME NEW q \in Seq(Sendable), q # <<>>
  PROVE  /\ Head(q) \in Sendable /\ Tail(q) \in Seq(Sendable)
         /\ Text(q) = Bytes(Head(q)) \o Text(Tail(q))
         /\ \A p \in Seq(Sendable) : p \o q = Append(p, Head(q)) \o Tail(q)
<1> DEFINE m == Head(q)
           t == Tail(q)
           one == <<m>>
<1>1. m \in Sendable /\ t \in Seq(Sendable)
  BY HeadTailProperties
<1>2. one \in Seq(Sendable)
  <2> HIDE DEF m
  <2> QED BY <1>1
<1>3. q = one \o t
  BY HeadTailProperties
<1> HIDE DEF m, t
<1>4. one = Append(<<>>, m) /\ <<>> \in Seq(Sendable)
  BY <1>1, EmptySeq
<1>5. Text(one) = Bytes(m)
  <2>1. Text(one) = <<>> \o Bytes(m)
    BY <1>1, <1>4, TextAppend, TextEmpty
  <2> QED BY <1>1, <2>1, MessageOf, ConcatEmptySeq
<1> HIDE DEF one
<1>6. Text(q) = Bytes(m) \o Text(t)
  BY <1>1, <1>2, <1>3, <1>5, TextConcat
<1>7. ASSUME NEW p \in Seq(Sendable)
      PROVE  p \o q = Append(p, m) \o t
  <2>1. Associates(p, one, t)
    BY <1>1, <1>2, Associative
  <2>2. Append(p, m) = p \o one
    BY <1>1, AppendIsConcat DEF one
  <2> QED BY <1>3, <2>1, <2>2 DEF Associates
<1> QED BY <1>1, <1>6, <1>7 DEF m, t

LEMMA SizeConcat ==
  ASSUME NEW p \in Seq(Sendable), NEW q \in Seq(Sendable)
  PROVE  SizeOf(p \o q) = SizeOf(p) + SizeOf(q)
BY TextConcat, TextSeq, ConcatProperties DEF SizeOf

-----------------------------------------------------------------------------
(* The stream.  Unless it was cleared, what is in recvBuffer_, on the wire  *)
(* and in sendBuffer_ is the text of the messages that were printed and    *)
(* not yet parsed, from the beginning of one of them.                      *)

Ahead == wire \o S!Contents

Split(done, todo) ==
  /\ printed = done \o todo
  /\ R!Contents \o Ahead = Text(todo)
  /\ delivered = Supported(done)

Flow == ~cleared => \E done, todo \in Seq(Sendable) : Split(done, todo)

IInv ==
  /\ toSend \in Seq(Sendable)
  /\ printed \in Seq(Sendable)
  /\ SP!Inv
  /\ wire \in Seq(Byte)
  /\ RP!Inv
  /\ delivered \in Seq(Message)
  /\ phase \in {"read", "extract", "undefined"}
  /\ cleared \in BOOLEAN
  /\ Flow

LEMMA SendableMessages == Sendable \subseteq Message /\ Seq(Sendable) \subseteq Seq(Message)
<1>1. Sendable \subseteq Message
  BY DEF Sendable
<1> QED BY <1>1, SeqMonotonic

LEMMA AheadSeq ==
  ASSUME IInv
  PROVE  /\ R!Contents \in Seq(Byte) /\ Len(R!Contents) = recvSize
         /\ S!Contents \in Seq(Byte) /\ Len(S!Contents) = sendSize
         /\ recvSize \in Nat /\ sendSize \in Nat
         /\ Ahead \in Seq(Byte) /\ Len(Ahead) = Len(wire) + sendSize
         /\ Len(wire) \in Nat
<1>1. /\ R!Contents \in Seq(Byte) /\ Len(R!Contents) = recvSize
      /\ S!Contents \in Seq(Byte) /\ Len(S!Contents) = sendSize
      /\ recvSize \in Nat /\ sendSize \in Nat
  BY BufferFacts DEF IInv
<1>2. wire \in Seq(Byte)
  BY DEF IInv
<1> QED BY <1>1, <1>2, ConcatProperties, LenProperties DEF Ahead

(* In step, recvBuffer_ begins with the first message not yet parsed. *)
LEMMA FirstComing ==
  ASSUME IInv, recvSize > 0, NEW done \in Seq(Sendable), NEW todo \in Seq(Sendable),
         Split(done, todo)
  PROVE  /\ todo # <<>> /\ Head(todo) \in Sendable /\ Tail(todo) \in Seq(Sendable)
         /\ Text(Tail(todo)) \in Seq(Byte)
         /\ Coming(Head(todo), Ahead, Text(Tail(todo)))
<1>1. /\ R!Contents \in Seq(Byte) /\ Len(R!Contents) = recvSize /\ recvSize \in Nat
      /\ Ahead \in Seq(Byte) /\ Len(Ahead) \in Nat
  BY AheadSeq, LenProperties
<1>2. todo # <<>>
  <2> SUFFICES ASSUME todo = <<>> PROVE FALSE
    OBVIOUS
  <2>1. R!Contents \o Ahead = <<>>
    BY TextEmpty DEF Split
  <2> DEFINE q == R!Contents
             x == q \o Ahead
  <2> HIDE DEF q
  <2>2. Len(x) = Len(q) + Len(Ahead)
    BY <1>1, ConcatProperties DEF q
  <2>3. Len(x) = 0
    BY <2>1, EmptySeq DEF q
  <2> DEFINE k == Len(q)
             n == Len(Ahead)
  <2>4. k \in Nat /\ n \in Nat /\ 0 = k + n /\ k = recvSize
    BY <1>1, <2>2, <2>3 DEF q
  <2> HIDE DEF k, n
  <2> QED BY <2>4
<1>3. /\ Head(todo) \in Sendable /\ Tail(todo) \in Seq(Sendable)
      /\ Text(todo) = Bytes(Head(todo)) \o Text(Tail(todo))
  BY <1>2, TextCons
<1> QED BY <1>2, <1>3, TextSeq DEF Split, Coming, Alike
LEMMA InitInv == Init => IInv
<1> SUFFICES ASSUME Init PROVE IInv
  OBVIOUS
<1>1. /\ toSend \in Seq(Sendable) /\ printed = <<>> /\ wire = <<>> /\ delivered = <<>>
      /\ phase = "read" /\ cleared = FALSE
  BY FramingAssumption DEF Init
<1>2. SP!Inv /\ RP!Inv /\ S!Contents = <<>> /\ R!Contents = <<>>
  BY BufferInit DEF Init
<1> DEFINE e == <<>>
<1>3. /\ e \in Seq(Sendable) /\ e \in Seq(Message) /\ e \in Seq(Byte) /\ e \o e = e
  BY EmptySeq, ConcatEmptySeq
<1>4. Supported(e) = e /\ Text(e) = e
  BY FilterEmpty, TextEmpty DEF Supported
<1>5. Split(e, e)
  BY <1>1, <1>2, <1>3, <1>4 DEF Split, Ahead
<1>6. Flow
  <2> HIDE DEF e
  <2> QED BY <1>3, <1>5 DEF Flow
<1> QED BY <1>1, <1>2, <1>3, <1>6 DEF IInv

(* toBytes puts the text of the message behind all others. *)
LEMMA PrintStep ==
  ASSUME IInv, PrintMessage
  PROVE  IInv'
<1> DEFINE m == Head(toSend)
           f0 == LengthField(m)
           f1 == TypeField(m)
           f2 == ContentField(m)
           x == S!Contents'
<1>1. /\ toSend \in Seq(Sendable) /\ printed \in Seq(Sendable)
      /\ toSend # <<>> /\ toSend' = Tail(toSend) /\ printed' = Append(printed, m)
      /\ UNCHANGED <<wire, recvBuffer, delivered, phase, cleared>>
      /\ SP!Inv /\ RP!Inv
  BY DEF IInv, PrintMessage
<1>2. m \in Sendable /\ toSend' \in Seq(Sendable) /\ printed' \in Seq(Sendable)
  <2>1. m \in Sendable /\ Tail(toSend) \in Seq(Sendable)
    BY <1>1, HeadTailProperties
  <2> HIDE DEF m
  <2> QED BY <1>1, <2>1, AppendProperties
<1>3. /\ f0 \in Seq(Byte) /\ f1 \in Seq(Byte) /\ f2 \in Seq(Byte)
      /\ Bytes(m) = f0 \o (f1 \o f2) /\ Bytes(m) \in Seq(Byte)
  <2> HIDE DEF m
  <2>1. Body(m) = f1 \o f2
    BY DEF Body
  <2> QED BY <1>2, <2>1, MessageOf
<1>4. S!ToBytes(f0, <<f1, f2>>)
  BY DEF PrintMessage, LengthField, TypeField, ContentField, Fields
<1>5. SP!Inv' /\ S!Contents = <<>> /\ x = Bytes(m)
  <2> HIDE DEF f0, f1, f2
  <2>1. SP!Inv' /\ S!Contents = <<>> /\ S!Contents' = f0 \o (f1 \o f2)
    BY <1>1, <1>3, <1>4, SendPrint
  <2> QED BY <1>3, <2>1
<1>6. RP!Inv' /\ R!Contents' = R!Contents
  BY <1>1, BuffersSame
<1> HIDE DEF m, f0, f1, f2, x
<1>7. ASSUME NEW done \in Seq(Sendable), NEW todo \in Seq(Sendable), Split(done, todo)
      PROVE  /\ printed' = done \o Append(todo, m)
             /\ R!Contents' \o Ahead' = Text(Append(todo, m))
  <2> DEFINE a == Append(todo, m)
             b == Bytes(m)
             q == R!Contents
  <2>1. printed' = done \o a
    <3> DEFINE one == <<m>>
               p == done \o todo
    <3>1. one \in Seq(Sendable) /\ p \in Seq(Sendable) /\ a = todo \o one
      BY <1>2, ConcatProperties, AppendIsConcat
    <3>2. Append(p, m) = p \o one
      <4> HIDE DEF p
      <4> QED BY <1>2, <3>1, AppendIsConcat
    <3> HIDE DEF one, a
    <3>3. Associates(done, todo, one)
      BY <3>1, Associative
    <3> QED BY <1>1, <1>7, <3>1, <3>2, <3>3 DEF Split, Associates
  <2>2. Text(a) = Text(todo) \o b
    BY <1>2, TextAppend
  <2>3. q \in Seq(Byte) /\ wire \in Seq(Byte) /\ b \in Seq(Byte)
    BY <1>3, AheadSeq DEF IInv
  <2>4. Ahead = wire /\ Ahead' = wire \o b
    <3>1. wire \o <<>> = wire
      BY <2>3, ConcatEmptySeq
    <3> QED BY <1>1, <1>5, <3>1 DEF Ahead, x
  <2> HIDE DEF a, b, q
  <2>5. q \o wire = Text(todo)
    BY <1>7, <2>4 DEF Split, q
  <2>6. Associates(q, wire, b)
    BY <2>3, Associative
  <2>7. R!Contents' \o Ahead' = Text(a)
    BY <1>6, <2>2, <2>4, <2>5, <2>6 DEF Associates, q
  <2> QED BY <2>1, <2>7 DEF a
<1>8. Flow'
  <2> SUFFICES ASSUME ~cleared PROVE \E done, todo \in Seq(Sendable) : Split(done, todo)'
    BY <1>1 DEF Flow
  <2>1. PICK done \in Seq(Sendable), todo \in Seq(Sendable) : Split(done, todo)
    BY DEF IInv, Flow
  <2>2. PICK more \in Seq(Sendable) : more = Append(todo, m)
    BY <1>2, AppendProperties
  <2>3. Split(done, more)'
    BY <1>1, <1>7, <2>1, <2>2 DEF Split
  <2> QED BY <2>3
<1> QED BY <1>1, <1>2, <1>5, <1>6, <1>8 DEF IInv

(* A step that moves bytes along leaves the text as it is. *)
LEMMA FlowMoves ==
  ASSUME IInv, R!Contents' \o Ahead' = R!Contents \o Ahead,
         UNCHANGED <<printed, delivered, cleared>>
  PROVE  Flow'
<1> SUFFICES ASSUME ~cleared PROVE \E done, todo \in Seq(Sendable) : Split(done, todo)'
  BY DEF Flow
<1>1. PICK done \in Seq(Sendable), todo \in Seq(Sendable) : Split(done, todo)
  BY DEF IInv, Flow
<1>2. Split(done, todo)'
  BY <1>1 DEF Split
<1> QED BY <1>2

LEMMA WriteStep ==
  ASSUME IInv, Write
  PROVE  IInv'
<1>1. PICK k \in 1 .. S!ContinuousDataSize :
        wire' = wire \o SubSeq(S!Contents, 1, k) /\ S!Consume(k)
  BY DEF Write
<1>2. UNCHANGED <<toSend, printed, recvBuffer, delivered, phase, cleared>>
  BY DEF Write
<1>3. SP!Inv /\ RP!Inv /\ wire \in Seq(Byte) /\ S!Contents \in Seq(Byte)
  BY AheadSeq DEF IInv
<1> DEFINE q == S!Contents
           p == SubSeq(q, 1, k)
           r == Rest(q, k)
<1>4. SP!Inv' /\ k \in 1 .. Len(q) /\ S!Contents' = r
  BY <1>1, <1>3, SendConsume
<1>5. RP!Inv' /\ R!Contents' = R!Contents
  BY <1>2, <1>3, BuffersSame
<1>6. p \in Seq(Byte) /\ r \in Seq(Byte) /\ q = p \o r
  <2>1. k \in 0 .. Len(q)
    <3> HIDE DEF q
    <3> QED BY <1>4
  <2> QED BY <1>3, <2>1, CutAt
<1>7. wire' = wire \o p
  BY <1>1
<1> HIDE DEF q, p, r
<1>8. Ahead' = Ahead
  <2>1. Associates(wire, p, r)
    BY <1>3, <1>6, Associative
  <2> QED BY <1>4, <1>6, <1>7, <2>1 DEF Ahead, Associates, q
<1>9. wire' \in Seq(Byte)
  BY <1>3, <1>6, <1>7, ConcatProperties
<1>10. Flow'
  BY <1>2, <1>5, <1>8, FlowMoves
<1> QED BY <1>2, <1>4, <1>5, <1>9, <1>10 DEF IInv

LEMMA ReadStep ==
  ASSUME IInv, Read
  PROVE  IInv'
<1>1. PICK k \in 1 .. Len(wire) :
        R!Receive(SubSeq(wire, 1, k)) /\ wire' = SubSeq(wire, k + 1, Len(wire))
  BY DEF Read
<1>2. UNCHANGED <<toSend, printed, sendBlocks, sendSpace, sendSize, delivered, phase, cleared>>
  BY DEF Read, sender
<1> DEFINE p == SubSeq(wire, 1, k)
           r == Rest(wire, k)
           q == R!Contents
<1>3. SP!Inv /\ RP!Inv /\ wire \in Seq(Byte) /\ S!Contents \in Seq(Byte) /\ q \in Seq(Byte)
  BY AheadSeq DEF IInv
<1>4. p \in Seq(Byte) /\ r \in Seq(Byte) /\ wire = p \o r
  <2>1. k \in 0 .. Len(wire)
    BY <1>3, LenProperties
  <2> QED BY <1>3, <2>1, CutAt
<1>5. wire' = r
  BY <1>1 DEF Rest
<1>6. RP!Inv' /\ R!Contents' = q \o p
  BY <1>1, <1>3, <1>4, RecvReceive
<1>7. SP!Inv' /\ S!Contents' = S!Contents
  BY <1>2, <1>3, BuffersSame
<1> DEFINE s == S!Contents
           rs == r \o s
<1>8. R!Contents' \o Ahead' = R!Contents \o Ahead
  <2> HIDE DEF p, r, q, s
  <2>1. Associates(p, r, s) /\ rs \in Seq(Byte)
    BY <1>3, <1>4, Associative, ConcatProperties DEF s
  <2> HIDE DEF rs
  <2>2. Associates(q, p, rs)
    BY <1>3, <1>4, <2>1, Associative
  <2>3. Ahead = p \o rs
    BY <1>4, <2>1 DEF Ahead, Associates, s, rs
  <2>4. Ahead' = rs
    BY <1>5, <1>7 DEF Ahead, s, rs
  <2> QED BY <1>6, <2>2, <2>3, <2>4 DEF Associates, q
<1>9. Flow'
  BY <1>2, <1>8, FlowMoves
<1> QED BY <1>2, <1>4, <1>5, <1>6, <1>7, <1>9 DEF IInv

(* Only the phase changes. *)
LEMMA PhaseStep ==
  ASSUME IInv, UNCHANGED <<sender, wire, recvBuffer, delivered, cleared>>,
         phase' \in {"read", "extract", "undefined"}
  PROVE  IInv'
<1>1. /\ UNCHANGED <<toSend, printed, sendBlocks, sendSpace, sendSize>>
      /\ UNCHANGED <<wire, delivered, cleared>> /\ UNCHANGED recvBuffer
  BY DEF sender
<1>2. /\ SP!Inv' /\ S!Contents' = S!Contents
      /\ RP!Inv' /\ R!Contents' = R!Contents
  BY <1>1, BuffersSame DEF IInv
<1>3. Flow'
  BY <1>1, <1>2, FlowMoves DEF Ahead
<1> QED BY <1>1, <1>2, <1>3 DEF IInv

(* Out of step anything may be read, but it is bytes, and no more of them   *)
(* are taken than there are.                                               *)
LEMMA FieldAny ==
  ASSUME RP!Inv, recvSize > 0, NEW o \in Nat, DataField(o).outcome = "there"
  PROVE  DataField(o).text \in Seq(Byte) /\ DataField(o).next \in Nat
<1> DEFINE line == R!GetLine(Bar, o)
           t == line.text
           count == Number(t)
           start == o + Len(t) + 1
           data == R!GetData(count, start)
<1>1. /\ DataField(o).text = data.text /\ DataField(o).next = start + count
      /\ "there" = CASE ~line.valid -> "undefined"
                     [] line.valid /\ ~(line.found /\ IsNumber(t)) -> "missing"
                     [] OTHER -> IF ~data.valid THEN "undefined"
                                 ELSE IF data.left > 0 THEN "missing" ELSE "there"
  BY DEF DataField
<1>2. line.valid # FALSE
  BY <1>1
<1>3. line.valid = TRUE /\ t \in Seq(Byte)
  BY <1>2, RecvLine
<1> HIDE DEF line, t, count, start, data
<1>4. data.valid # FALSE /\ ~(data.left > 0)
  BY <1>1, <1>3
<1>5. count \in Nat
  BY <1>3, NumberOf DEF count
<1>6. start \in Nat /\ start + count \in Nat
  BY <1>3, <1>5, LenProperties DEF start
<1>7. data.text \in Seq(Byte)
  <2>1. Len(R!Contents) \in Nat
    BY BufferFacts
  <2> DEFINE k == count
             d == R!GetData(k, start)
             u == SubSeq(R!Contents, start + 1, start + k)
  <2>2. /\ k = 0 => d.text = <<>>
        /\ k # 0 /\ start + k <= Len(R!Contents) => d.text = u /\ u \in Seq(Byte)
        /\ k # 0 /\ start + k > Len(R!Contents) => d.left > 0
    BY <1>4, <1>5, <1>6, RecvData DEF data
  <2> HIDE DEF d, u
  <2>3. start + k <= Len(R!Contents) \/ start + k > Len(R!Contents)
    BY <1>6, <2>1
  <2>4. d = data
    BY DEF d, data
  <2> QED BY <1>4, <2>2, <2>3, <2>4, EmptySeq
<1> QED BY <1>1, <1>6, <1>7

LEMMA MessageAny ==
  ASSUME RP!Inv, recvSize > 0, HasMessage
  PROVE  /\ MsgLen \in 0 .. recvSize
         /\ HasContent => [type |-> TypeNumber, content |-> Parsed.text] \in Message
<1>1. /\ Length.outcome = "there" /\ recvSize >= MsgLen
      /\ Length = DataField(0) /\ 0 \in Nat
  BY DEF HasMessage, HasLength, Length
<1>2. Length.text \in Seq(Byte) /\ Length.next \in Nat
  BY <1>1, FieldAny
<1>3. MsgLen \in Nat
  <2> DEFINE t == Length.text
             a == Len(Decimal(Len(t)))
             b == Len(t)
             c == Number(t)
  <2>1. a \in Nat /\ b \in Nat /\ c \in Nat
    BY <1>2, LenProperties, DecimalOf, NumberOf
  <2>2. MsgLen = (a + 1 + b + c) % LengthModulus
    BY DEF MsgLen
  <2> HIDE DEF a, b, c
  <2> QED BY <2>1, <2>2, FramingAssumption
<1>4. MsgLen \in 0 .. recvSize
  BY <1>1, <1>3, BufferFacts
<1>5. ASSUME HasContent
      PROVE  [type |-> TypeNumber, content |-> Parsed.text] \in Message
  <2>1. /\ Type.outcome = "there" /\ TypeNumber \in {TEcho, TTest}
        /\ Parsed.outcome = "there"
    BY <1>5 DEF HasContent, IsKnown, HasType
  <2>2. Type.next \in Nat
    BY <1>2, <2>1, FieldAny DEF Type
  <2>3. Parsed.text \in Seq(Byte)
    BY <2>1, <2>2, FieldAny DEF Parsed
  <2>4. TypeNumber \in Digit
    BY <2>1 DEF TEcho, TTest, Digit
  <2> QED BY <2>3, <2>4 DEF Message
<1> QED BY <1>4, <1>5

(* A whole message is taken from recvBuffer_, and delivered if it is of a   *)
(* known type.                                                             *)
Extracted == [type |-> TypeNumber, content |-> Parsed.text]

LEMMA PopStep ==
  ASSUME IInv, recvSize > 0, HasMessage, ~IsUndefined, R!ResizePop(MsgLen),
         UNCHANGED <<sender, wire, cleared>>,
         HasContent => delivered' = Append(delivered, Extracted),
         ~HasContent => delivered' = delivered,
         phase' \in {"read", "extract"}
  PROVE  IInv'
<1>1. /\ RP!Inv /\ SP!Inv /\ delivered \in Seq(Message)
      /\ UNCHANGED <<toSend, printed, sendBlocks, sendSpace, sendSize>>
      /\ UNCHANGED <<wire, cleared>>
  BY DEF IInv, sender
<1>2. MsgLen \in 0 .. recvSize /\ (HasContent => Extracted \in Message)
  BY <1>1, MessageAny DEF Extracted
<1>3. RP!Inv' /\ R!Contents' = Rest(R!Contents, MsgLen)
  BY <1>1, <1>2, RecvPop
<1>4. SP!Inv' /\ S!Contents' = S!Contents
  BY <1>1, BuffersSame
<1>5. delivered' \in Seq(Message)
  <2> DEFINE r == Extracted
  <2>1. HasContent => r \in Message
    BY <1>2
  <2> HIDE DEF r
  <2> QED BY <1>1, <2>1, AppendProperties DEF r
<1>6. Flow'
  <2> SUFFICES ASSUME ~cleared PROVE \E done, todo \in Seq(Sendable) : Split(done, todo)'
    BY <1>1 DEF Flow
  <2>1. PICK done \in Seq(Sendable), todo \in Seq(Sendable) : Split(done, todo)
    BY DEF IInv, Flow
  <2>2. PICK m \in Sendable, rest \in Seq(Sendable) : todo # <<>> /\ m = Head(todo) /\ rest = Tail(todo)
    BY <2>1, FirstComing
  <2>3. Coming(m, Ahead, Text(rest)) /\ Text(rest) \in Seq(Byte)
    BY <2>1, <2>2, FirstComing
  <2>4. R!Contents \in Seq(Byte) /\ Ahead \in Seq(Byte)
    BY AheadSeq
  <2>5. /\ MsgLen = Len(Bytes(m)) /\ Len(Bytes(m)) <= Len(R!Contents)
        /\ HasContent <=> m.type \in {TEcho, TTest}
        /\ HasContent => Extracted = m
    BY <1>1, <2>3, <2>4, MessageRead DEF Extracted
  <2>6. PICK more \in Seq(Sendable) : more = Append(done, m)
    BY AppendProperties
  <2>7. printed' = more \o rest
    BY <1>1, <2>1, <2>2, <2>6, TextCons DEF Split
  <2>8. R!Contents' \o Ahead' = Text(rest)
    <3> DEFINE q == R!Contents
               b == Bytes(m)
    <3>1. b \in Seq(Byte)
      BY MessageOf
    <3>2. Alike(q, Ahead, b, Text(rest)) /\ Len(b) <= Len(q)
      BY <2>3, <2>5 DEF Coming
    <3> HIDE DEF q, b
    <3>3. Rest(q, Len(b)) \o Ahead = Text(rest)
      BY <2>3, <2>4, <3>1, <3>2, CutShorter DEF q
    <3>4. Ahead' = Ahead
      BY <1>1, <1>4 DEF Ahead
    <3> QED BY <1>3, <2>5, <3>3, <3>4 DEF q, b
  <2>9. delivered' = Supported(more)
    <3> DEFINE K == {x \in Message : x.type \in {TEcho, TTest}}
    <3>1. m \in K <=> HasContent
      BY <2>5, SendableMessages
    <3>2. \A q : Supported(q) = Filter(q, K)
      BY DEF Supported
    <3> HIDE DEF K
    <3>3. Supported(more) = IF m \in K THEN Append(Supported(done), m) ELSE Supported(done)
      BY <2>6, <3>2, FilterAppend
    <3>4. delivered = Supported(done)
      BY <2>1 DEF Split
    <3> QED BY <2>5, <3>1, <3>3, <3>4
  <2>10. Split(more, rest)'
    BY <2>7, <2>8, <2>9 DEF Split
  <2> QED BY <2>10
<1> QED BY <1>1, <1>3, <1>4, <1>5, <1>6 DEF IInv

LEMMA SkipStep ==
  ASSUME IInv, ExtractSkips
  PROVE  IInv'
<1>1. R!ResizePop(MsgLen)
  BY DEF ExtractSkips
<1>2. /\ recvSize > 0 /\ HasMessage /\ ~HasContent /\ ~IsUndefined
      /\ UNCHANGED <<sender, wire, cleared>> /\ UNCHANGED <<delivered, phase>>
      /\ phase = "extract"
  BY DEF ExtractSkips, Extracting
<1>3. phase' \in {"read", "extract"}
  BY <1>2
<1> QED BY <1>1, <1>2, <1>3, PopStep

LEMMA DeliverStep ==
  ASSUME IInv, ExtractDelivers
  PROVE  IInv'
<1>1. R!ResizePop(MsgLen)
  BY DEF ExtractDelivers
<1>2. /\ recvSize > 0 /\ HasMessage /\ HasContent
      /\ UNCHANGED <<sender, wire, cleared>>
      /\ delivered' = Append(delivered, Extracted)
      /\ phase' \in {"read", "extract"}
  BY DEF ExtractDelivers, Extracting, Extracted
<1>3. ~IsUndefined
  BY <1>2 DEF IsUndefined, HasMessage, HasLength, HasContent, IsKnown, HasType
<1> QED BY <1>1, <1>2, <1>3, PopStep

LEMMA ClearStep ==
  ASSUME IInv, ExtractClears
  PROVE  IInv'
<1>1. /\ RP!Inv /\ SP!Inv
      /\ UNCHANGED <<toSend, printed, sendBlocks, sendSpace, sendSize>>
      /\ UNCHANGED <<wire, delivered, phase>> /\ cleared' = TRUE
      /\ R!ClearAll
  BY DEF IInv, ExtractClears, Extracting, sender
<1>2. RP!Inv'
  BY <1>1, RecvClear
<1>3. SP!Inv'
  BY <1>1, BuffersSame
<1>4. Flow'
  BY <1>1 DEF Flow
<1> QED BY <1>1, <1>2, <1>3, <1>4 DEF IInv

LEMMA NextInv ==
  ASSUME IInv, [Next]_vars
  PROVE  IInv'
<1>1. CASE PrintMessage
  BY <1>1, PrintStep
<1>2. CASE Write
  BY <1>2, WriteStep
<1>3. CASE Read
  BY <1>3, ReadStep
<1>4. CASE ReadEnds
  BY <1>4, PhaseStep DEF ReadEnds
<1>5. CASE ExtractClears
  BY <1>5, ClearStep
<1>6. CASE ExtractSkips
  BY <1>6, SkipStep
<1>7. CASE ExtractDelivers
  BY <1>7, DeliverStep
<1>8. CASE ExtractEnds
  BY <1>8, PhaseStep DEF ExtractEnds, Extracting
<1>9. CASE ExtractUndefined
  BY <1>9, PhaseStep DEF ExtractUndefined, Extracting
<1>10. CASE UNCHANGED vars
  <2>1. UNCHANGED <<sender, wire, recvBuffer, delivered, cleared>> /\ phase' = phase
    BY <1>10 DEF vars
  <2>2. phase' \in {"read", "extract", "undefined"}
    BY <2>1 DEF IInv
  <2> QED BY <2>1, <2>2, PhaseStep
<1> QED BY <1>1, <1>2, <1>3, <1>4, <1>5, <1>6, <1>7, <1>8, <1>9, <1>10 DEF Next
-----------------------------------------------------------------------------
(* The properties *)

(* Where recvBuffer_ begins. *)
LEMMA InStepAt ==
  ASSUME IInv, NEW done \in Seq(Sendable), NEW todo \in Seq(Sendable), Split(done, todo)
  PROVE  /\ Len(done) \in 0 .. Len(printed)
         /\ SubSeq(printed, 1, Len(done)) = done
         /\ Arrived - recvSize = SizeOf(done)
         /\ Arrived \in Nat /\ SizeOf(done) \in Nat
<1>1. printed = done \o todo
  BY DEF Split
<1>2. Len(done) \in Nat /\ Len(todo) \in Nat
  BY LenProperties
<1>3. Len(printed) = Len(done) + Len(todo)
  BY <1>1, ConcatProperties
<1>4. SubSeq(printed, 1, Len(done)) = done
  BY <1>1, FirstIs
<1> DEFINE a == SizeOf(done)
           b == SizeOf(todo)
           w == Len(wire)
<1>5. SizeOf(printed) = a + b /\ a \in Nat /\ b \in Nat
  BY <1>1, SizeConcat, TextSeq
<1>6. b = recvSize + (w + sendSize) /\ w \in Nat /\ recvSize \in Nat /\ sendSize \in Nat
  <2> DEFINE q == R!Contents
  <2>1. /\ q \in Seq(Byte) /\ Len(q) = recvSize /\ Ahead \in Seq(Byte)
        /\ Len(Ahead) = w + sendSize
        /\ w \in Nat /\ recvSize \in Nat /\ sendSize \in Nat
    BY AheadSeq
  <2>2. Text(todo) = q \o Ahead
    BY DEF Split
  <2> HIDE DEF q
  <2>3. Len(q \o Ahead) = Len(q) + Len(Ahead)
    BY <2>1, ConcatProperties
  <2> QED BY <2>1, <2>2, <2>3 DEF SizeOf
<1>7. Arrived = SizeOf(printed) - sendSize - w
  BY DEF Arrived
<1> HIDE DEF a, b, w
<1>8. Arrived - recvSize = a /\ Arrived \in Nat
  BY <1>5, <1>6, <1>7
<1>9. Len(done) \in 0 .. Len(printed)
  BY <1>2, <1>3
<1> QED BY <1>4, <1>5, <1>8, <1>9 DEF a

LEMMA InvInStep == IInv => InStep
<1> SUFFICES ASSUME IInv, ~cleared
             PROVE  \E i \in 0 .. Len(printed) :
                      /\ Arrived - recvSize = SizeOf(SubSeq(printed, 1, i))
                      /\ delivered = Supported(SubSeq(printed, 1, i))
  BY DEF InStep
<1>1. PICK done \in Seq(Sendable), todo \in Seq(Sendable) : Split(done, todo)
  BY DEF IInv, Flow
<1>2. /\ Len(done) \in 0 .. Len(printed)
      /\ SubSeq(printed, 1, Len(done)) = done
      /\ Arrived - recvSize = SizeOf(done)
  BY <1>1, InStepAt
<1>3. delivered = Supported(done)
  BY <1>1 DEF Split
<1> QED BY <1>2, <1>3, Zenon

LEMMA InvPrintable == IInv => Printable
<1> SUFFICES ASSUME IInv, ~cleared, NEW i \in DOMAIN delivered, delivered[i].type = TTest
             PROVE  Len(delivered[i].content) >= TestSize
  BY DEF Printable
<1>1. PICK done \in Seq(Sendable), todo \in Seq(Sendable) : Split(done, todo)
  BY DEF IInv, Flow
<1>2. delivered \in Seq(Sendable)
  BY <1>1, FilterSeq DEF Split, Supported
<1>3. PICK m \in Sendable : m = delivered[i]
  BY <1>2, ElementOfSeq, LenProperties
<1>4. Len(m.content) = TestSize
  BY <1>3, MessageOf
<1> QED BY <1>3, <1>4, FramingAssumption

LEMMA InvTypes == IInv => TypeOK
BY BufferFacts, SendableMessages DEF IInv, TypeOK

(* The variables always have their types. *)
THEOREM TypeCorrect == Spec => []TypeOK
<1>1. IInv /\ [Next]_vars => IInv'
  BY NextInv
<1> QED BY InitInv, <1>1, InvTypes, PTL DEF Spec

(* What was parsed is what was printed, in order, with nothing made up or   *)
(* left out, and recvBuffer_ begins where the next message does, whatever  *)
(* the messages hold and wherever the reads, the writes and the blocks end, *)
(* as long as fromBytes clears nothing.                                    *)
THEOREM StaysInStep == Spec => []InStep
<1>1. IInv /\ [Next]_vars => IInv'
  BY NextInv
<1> QED BY InitInv, <1>1, InvInStep, PTL DEF Spec

(* Every MessageTest that was delivered has the data that print_ takes      *)
(* when it is sent back.                                                   *)
THEOREM AlwaysPrintable == Spec => []Printable
<1>1. IInv /\ [Next]_vars => IInv'
  BY NextInv
<1> QED BY InitInv, <1>1, InvPrintable, PTL DEF Spec

LEMMA SizeMonotone ==
  ASSUME NEW q \in Seq(Sendable), NEW i \in 0 .. Len(q), NEW j \in i .. Len(q)
  PROVE  SizeOf(SubSeq(q, 1, i)) <= SizeOf(SubSeq(q, 1, j))
<1> DEFINE p == SubSeq(q, 1, j)
           y == SubSeq(q, 1, i)
           z == SubSeq(p, 1, i)
           r == Rest(p, i)
<1>1. Len(q) \in Nat /\ i \in Nat /\ j \in 0 .. Len(q) /\ i \in 0 .. j
  BY LenProperties
<1>2. p \in Seq(Sendable) /\ Len(p) = j
  BY <1>1, CutAt
<1>3. y \in Seq(Sendable) /\ Len(y) = i
  BY CutAt
<1>4. \A k \in 1 .. j : p[k] = q[k]
  BY <1>1
<1>5. \A k \in 1 .. i : y[k] = q[k]
  BY <1>1
<1> HIDE DEF p, y
<1>6. z \in Seq(Sendable) /\ Len(z) = i /\ r \in Seq(Sendable) /\ p = z \o r
  BY <1>1, <1>2, CutAt
<1>7. \A k \in 1 .. i : z[k] = p[k]
  BY <1>1, <1>2
<1> HIDE DEF z, r
<1>8. \A k \in 1 .. i : y[k] = z[k]
  BY <1>1, <1>4, <1>5, <1>7
<1>9. y = z
  BY <1>3, <1>6, <1>8, SeqEqual
<1>10. SizeOf(p) = SizeOf(z) + SizeOf(r) /\ SizeOf(z) \in Nat /\ SizeOf(r) \in Nat
  BY <1>6, SizeConcat, TextSeq
<1>11. SizeOf(z) <= SizeOf(p)
  BY <1>10
<1> QED BY <1>9, <1>11 DEF p, y

(* Where the extract loop ends, recvBuffer_ holds less than a message. *)
LEMMA EndsWithin ==
  ASSUME IInv, ~cleared, recvSize > 0 => HasLength /\ ~HasMessage
  PROVE  recvSize = WithinMessage
<1> DEFINE P(i) == SubSeq(printed, 1, i)
           N == {n \in {SizeOf(P(i)) : i \in 0 .. Len(printed)} : n <= Arrived}
<1>1. PICK done \in Seq(Sendable), todo \in Seq(Sendable) : Split(done, todo)
  BY DEF IInv, Flow
<1> DEFINE d == Len(done)
           a == SizeOf(done)
<1>2. /\ d \in 0 .. Len(printed) /\ P(d) = done
      /\ Arrived - recvSize = a /\ Arrived \in Nat /\ a \in Nat
  BY <1>1, InStepAt
<1>3. recvSize \in Nat
  BY AheadSeq
<1>4. printed \in Seq(Sendable) /\ Len(printed) \in Nat
  BY LenProperties DEF IInv
<1>5. \A i \in 0 .. Len(printed) : SizeOf(P(i)) \in Nat
  BY <1>4, CutAt, TextSeq
<1>6. \A i \in 0 .. Len(printed), j \in 0 .. Len(printed) :
        i <= j => SizeOf(P(i)) <= SizeOf(P(j))
  <2> SUFFICES ASSUME NEW i \in 0 .. Len(printed), NEW j \in 0 .. Len(printed), i <= j
               PROVE  SizeOf(P(i)) <= SizeOf(P(j))
    OBVIOUS
  <2>1. j \in i .. Len(printed)
    BY <1>4
  <2> QED BY <1>4, <2>1, SizeMonotone
<1>7. WithinMessage = Arrived - Max(N)
  BY DEF WithinMessage
<1> HIDE DEF P, d, a
<1>8. a \in N
  <2>1. a <= Arrived /\ a = SizeOf(P(d))
    BY <1>2, <1>3 DEF a
  <2> QED BY <1>2, <2>1
<1>9. N \in SUBSET (0 .. Arrived)
  <2> SUFFICES ASSUME NEW n \in N PROVE n \in 0 .. Arrived
    OBVIOUS
  <2>1. n \in Nat /\ n <= Arrived
    BY <1>5
  <2> QED BY <1>2, <2>1
<1>10. ASSUME NEW n \in N
       PROVE  n <= a
  <2>1. PICK i \in 0 .. Len(printed) : n = SizeOf(P(i))
    OBVIOUS
  <2>2. n \in Nat /\ n <= Arrived
    BY <1>5, <2>1
  <2>3. CASE recvSize = 0
    BY <1>2, <2>2, <2>3
  <2>4. CASE recvSize > 0 /\ i <= d
    BY <1>2, <1>6, <2>1, <2>4 DEF a
  <2>5. CASE recvSize > 0 /\ ~(i <= d)
    <3>1. PICK m \in Sendable, rest \in Seq(Sendable) :
            todo # <<>> /\ m = Head(todo) /\ rest = Tail(todo)
      BY <1>1, <2>5, FirstComing
    <3>2. Coming(m, Ahead, Text(rest)) /\ Text(rest) \in Seq(Byte) /\ Ahead \in Seq(Byte)
      BY <1>1, <2>5, <3>1, FirstComing, AheadSeq
    <3>3. HasLength /\ ~HasMessage /\ Length.outcome # "undefined" /\ RP!Inv
      BY <2>5 DEF HasLength, IInv
    <3>4. MsgLen = Len(Bytes(m))
      BY <2>5, <3>2, <3>3, LengthRead
    <3> DEFINE b == Len(Bytes(m))
               more == Append(done, m)
    <3>5. b \in Nat /\ recvSize < b
      <4>1. Bytes(m) \in Seq(Byte) /\ ~(recvSize >= MsgLen)
        BY <3>3, MessageOf DEF HasMessage
      <4>2. b \in Nat /\ ~(recvSize >= b)
        BY <3>4, <4>1, LenProperties
      <4> HIDE DEF b
      <4> QED BY <1>3, <4>2
    <3>6. more \in Seq(Sendable) /\ Len(more) = d + 1 /\ printed = more \o rest
      BY <1>1, <3>1, AppendProperties, TextCons DEF Split, d
    <3>7. SizeOf(more) = a + b
      <4>1. Text(more) = Text(done) \o Bytes(m) /\ Bytes(m) \in Seq(Byte) /\ Text(done) \in Seq(Byte)
        BY TextAppend, TextSeq, MessageOf
      <4> QED BY <4>1, ConcatProperties DEF SizeOf, a
    <3> HIDE DEF more, b
    <3>8. P(d + 1) = more
      <4>1. SubSeq(more \o rest, 1, Len(more)) = more
        BY <3>6, FirstIs
      <4> QED BY <3>6, <4>1 DEF P
    <3>9. d + 1 \in 0 .. Len(printed) /\ d + 1 <= i
      BY <1>2, <1>4, <2>5
    <3>10. SizeOf(more) <= n
      BY <1>6, <2>1, <3>8, <3>9
    <3> QED BY <1>2, <1>3, <2>2, <3>5, <3>7, <3>10
  <2> QED BY <1>3, <2>3, <2>4, <2>5
<1> HIDE DEF N
<1>11. Max(N) = a
  <2>1. Max(N) \in N /\ \A k \in N : k <= Max(N)
    BY <1>2, <1>8, <1>9, MaxOf
  <2> DEFINE x == Max(N)
  <2>2. x \in N /\ a <= x
    BY <1>8, <2>1
  <2> HIDE DEF x
  <2>3. x <= a /\ x \in 0 .. Arrived
    BY <1>9, <1>10, <2>2
  <2>4. x = a
    BY <1>2, <2>2, <2>3
  <2> QED BY <2>4 DEF x
<1> QED BY <1>2, <1>3, <1>7, <1>11

LEMMA NoneLeftStep ==
  ASSUME IInv, Next, phase = "extract", phase' = "read", ~cleared
  PROVE  recvSize = WithinMessage
<1>1. CASE ExtractEnds
  BY <1>1, EndsWithin DEF ExtractEnds
<1>2. CASE ExtractDelivers
  <2>1. recvSize > 0 /\ HasMessage /\ HasContent /\ MsgLen = 0 /\ RP!Inv
    BY <1>2 DEF ExtractDelivers, IInv
  <2>2. Length.outcome # "undefined"
    BY <2>1 DEF HasMessage, HasLength
  <2>3. HasLength
    BY <2>1 DEF HasMessage
  <2>4. PICK done \in Seq(Sendable), todo \in Seq(Sendable) : Split(done, todo)
    BY DEF IInv, Flow
  <2>5. PICK m \in Sendable, post \in Seq(Byte) : Coming(m, Ahead, post)
    BY <2>1, <2>4, FirstComing
  <2>6. MsgLen = Len(Bytes(m))
    BY <2>1, <2>2, <2>3, <2>5, AheadSeq, LengthRead
  <2>7. Len(Bytes(m)) = HeaderSize + BodySize(m) /\ BodySize(m) \in Nat
    BY MessageOf
  <2> QED BY <2>1, <2>6, <2>7, HeaderLength
<1>3. CASE PrintMessage \/ Write \/ Read \/ ReadEnds
  BY <1>3 DEF PrintMessage, Write, Read, ReadEnds
<1>4. CASE ExtractClears \/ ExtractSkips \/ ExtractUndefined
  BY <1>4 DEF ExtractClears, ExtractSkips, ExtractUndefined, Extracting
<1> QED BY <1>1, <1>2, <1>3, <1>4 DEF Next

(* When the extract loop ends, what recvBuffer_ holds is a part of one      *)
(* message: all that are whole have been taken.                            *)
THEOREM LeavesNone == Spec => NoneLeft
<1>1. IInv /\ [Next]_vars => IInv'
  BY NextInv
<1>2. IInv /\ [Next]_vars =>
        [phase = "extract" /\ phase' = "read" /\ ~cleared => recvSize = WithinMessage]_vars
  BY NoneLeftStep
<1> QED BY InitInv, <1>1, <1>2, PTL DEF Spec, NoneLeft
(* A part of a length field is all that is ever cleared. *)
LEMMA ClearsStep ==
  ASSUME IInv, Next, ~cleared, cleared'
  PROVE  recvSize < HeaderSize
<1>1. CASE ExtractClears
  <2>1. recvSize > 0 /\ ~HasLength /\ Length.outcome # "undefined" /\ RP!Inv
    BY <1>1 DEF ExtractClears, LengthFails, IInv
  <2>2. PICK done \in Seq(Sendable), todo \in Seq(Sendable) : Split(done, todo)
    BY DEF IInv, Flow
  <2>3. PICK m \in Sendable, post \in Seq(Byte) : Coming(m, Ahead, post)
    BY <2>1, <2>2, FirstComing
  <2>4. ~(HeaderSize <= recvSize)
    BY <2>1, <2>3, AheadSeq, LengthRead
  <2>5. HeaderSize \in Nat /\ recvSize \in Nat
    BY AheadSeq, HeaderLength
  <2> QED BY <2>4, <2>5
<1>2. CASE PrintMessage \/ Write \/ Read \/ ReadEnds
  BY <1>2 DEF PrintMessage, Write, Read, ReadEnds
<1>3. CASE ExtractSkips \/ ExtractDelivers \/ ExtractEnds \/ ExtractUndefined
  BY <1>3 DEF ExtractSkips, ExtractDelivers, ExtractEnds, ExtractUndefined, Extracting
<1> QED BY <1>1, <1>2, <1>3 DEF Next

(* A field that begins in the first block, when there is no other with data. *)
LEMMA FieldDefined ==
  ASSUME RP!Inv, recvSize > 0, ~(R!ContinuousDataSize < recvSize),
         NEW o \in Nat, o < recvSize
  PROVE  DataField(o).outcome # "undefined"
<1> DEFINE line == R!GetLine(Bar, o)
           t == line.text
           count == Number(t)
           start == o + Len(t) + 1
           data == R!GetData(count, start)
           q == R!Contents
           bar == <<Bar>>
           size == RP!ContinuousDataSize
<1>1. q \in Seq(Byte) /\ recvSize = Len(q) /\ Len(q) \in Nat
  BY BufferFacts
<1>2. size \in Nat /\ ~(size < recvSize)
  <2>1. R!ContinuousDataSize = size
    BY DEF R!ContinuousDataSize, RP!ContinuousDataSize, R!DataSize, RP!DataSize, R!Null, RP!Null
  <2> QED BY <2>1, BlockConstants, RP!ContinuousSize
<1>3. /\ line.valid = TRUE /\ line.found \in BOOLEAN
      /\ t \in Seq(Byte)
      /\ line.found => \E s \in Seq(Byte) : Rest(q, o) = (t \o bar) \o s
  <2> DEFINE l == RP!GetLine(Bar, o)
  <2>1. l.valid = TRUE
    <3>1. o < size
      BY <1>1, <1>2
    <3> QED BY <3>1, BlockConstants, DigitBytes, RP!LineScanned
  <2>2. line = l
    BY SameLine
  <2>3. line.valid # FALSE
    <3> HIDE DEF line, l
    <3> QED BY <2>1, <2>2
  <2> QED BY <2>3, RecvLine
<1>4. DataField(o).outcome =
        CASE ~line.valid -> "undefined"
          [] line.valid /\ ~(line.found /\ IsNumber(t)) -> "missing"
          [] OTHER -> IF ~data.valid THEN "undefined"
                      ELSE IF data.left > 0 THEN "missing" ELSE "there"
  BY DEF DataField
<1> HIDE DEF line, t, count, start, data, q, bar
<1>5. ASSUME line.found
      PROVE  data.valid = TRUE
  <2>1. PICK s \in Seq(Byte) : Rest(q, o) = (t \o bar) \o s
    BY <1>3, <1>5
  <2> DEFINE tb == t \o bar
  <2>2. tb \in Seq(Byte) /\ Len(tb) = Len(t) + 1 /\ Len(t) \in Nat
    <3>1. bar \in Seq(Byte) /\ Len(bar) = 1
      BY DigitBytes DEF bar
    <3>2. t \in Seq(Byte) /\ Len(t) \in Nat
      BY <1>3, LenProperties
    <3>3. tb \in Seq(Byte) /\ Len(tb) = Len(t) + Len(bar)
      BY <3>1, <3>2, ConcatProperties
    <3> HIDE DEF tb
    <3> QED BY <3>1, <3>2, <3>3
  <2>3. start = o + Len(tb) /\ start \in Nat
    BY <2>2 DEF start
  <2> HIDE DEF tb
  <2>4. start <= Len(q)
    <3>1. o \in 0 .. Len(q) /\ Follow(q, o, tb, s)
      BY <1>1, <2>1 DEF Follow, tb
    <3>2. Len(q) = o + Len(tb) + Len(s)
      BY <1>1, <2>2, <3>1, RestAfter
    <3>3. Len(s) \in Nat
      BY LenProperties
    <3> QED BY <1>1, <2>2, <2>3, <3>2, <3>3
  <2>5. start <= size
    BY <1>1, <1>2, <2>3, <2>4
  <2>6. count \in Nat
    BY <1>3, NumberOf DEF count
  <2> DEFINE k == count
             d == RP!GetData(k, start)
  <2> HIDE DEF size
  <2>7. d.valid = TRUE
    <3>1. k = 0 => RP!GetData(0, start).valid = TRUE
      BY BlockConstants, RP!NothingCopied
    <3>2. k # 0 /\ start + k <= recvSize => d.valid = TRUE
      BY <2>3, <2>5, <2>6, BlockConstants, RP!FieldCopied DEF size
    <3>3. k # 0 /\ start + k > recvSize => d.valid = TRUE
      BY <2>3, <2>5, <2>6, BlockConstants, RP!FieldIncomplete DEF size
    <3>4. start + k <= recvSize \/ start + k > recvSize
      BY <1>1, <2>3, <2>6
    <3> HIDE DEF d
    <3>5. k = 0 => d.valid = TRUE
      BY <3>1 DEF d
    <3> QED BY <3>2, <3>3, <3>4, <3>5
  <2>8. data = d
    BY SameData DEF data
  <2> HIDE DEF d
  <2> QED BY <2>7, <2>8
<1> QED BY <1>3, <1>4, <1>5

LEMMA DefinedStep ==
  ASSUME IInv, Next, ~cleared, phase # "undefined", phase' = "undefined"
  PROVE  R!ContinuousDataSize < recvSize
<1>1. CASE ExtractUndefined
  <2> SUFFICES ASSUME ~(R!ContinuousDataSize < recvSize) PROVE FALSE
    OBVIOUS
  <2>1. recvSize > 0 /\ IsUndefined /\ RP!Inv /\ recvSize \in Nat
    BY <1>1, AheadSeq DEF ExtractUndefined, IInv
  <2>2. ASSUME NEW o \in Nat, o < recvSize
        PROVE  DataField(o).outcome # "undefined"
    BY <2>1, <2>2, FieldDefined
  <2>3. Length.outcome # "undefined"
    BY <2>1, <2>2 DEF Length
  <2>4. HasMessage
    BY <2>1, <2>3 DEF IsUndefined
  <2>5. PICK done \in Seq(Sendable), todo \in Seq(Sendable) : Split(done, todo)
    BY DEF IInv, Flow
  <2>6. PICK m \in Sendable, post \in Seq(Byte) : Coming(m, Ahead, post)
    BY <2>1, <2>5, FirstComing
  <2>7. /\ Length.next = HeaderSize /\ recvSize >= Len(Bytes(m))
    BY <2>1, <2>3, <2>4, <2>6, AheadSeq, LengthRead DEF HasMessage
  <2> DEFINE h == HeaderSize
             a == Len(TypeField(m))
             b == Len(ContentField(m))
  <2>8. h \in Nat /\ a \in Nat /\ b \in Nat \ {0} /\ a # 0 /\ recvSize >= h + (a + b)
    <3>1. /\ TypeField(m) \in Seq(Byte) /\ ContentField(m) \in Seq(Byte)
          /\ Len(Bytes(m)) = h + BodySize(m) /\ BodySize(m) = a + b
          /\ m.content \in Seq(Byte) /\ ContentField(m) = Field(m.content)
      BY MessageOf DEF ContentField
    <3>2. <<m.type>> \in Seq(Byte)
      <4> DEFINE x == m.type
      <4>1. x \in Byte
        BY MessageOf, DigitBytes
      <4> HIDE DEF x
      <4>2. <<x>> \in Seq(Byte)
        BY <4>1
      <4> QED BY <4>2 DEF x
    <3>3. b # 0
      <4> DEFINE x == m.content
      <4>1. x \in Seq(Byte) /\ ContentField(m) = Field(x)
        BY <3>1
      <4> HIDE DEF x
      <4>2. b = Len(Decimal(Len(x))) + 1 + Len(x)
            /\ Len(Decimal(Len(x))) \in Nat /\ Len(x) \in Nat
        BY <4>1, FieldOf, LenProperties
      <4> HIDE DEF b
      <4> QED BY <4>2
    <3>4. a # 0
      <4> DEFINE x == <<m.type>>
      <4>1. x \in Seq(Byte) /\ TypeField(m) = Field(x)
        BY <3>2 DEF TypeField
      <4> HIDE DEF x
      <4>2. a = Len(Decimal(Len(x))) + 1 + Len(x)
            /\ Len(Decimal(Len(x))) \in Nat /\ Len(x) \in Nat
        BY <4>1, FieldOf, LenProperties
      <4> HIDE DEF a
      <4> QED BY <4>2
    <3>5. h \in Nat /\ a \in Nat /\ b \in Nat
      BY <3>1, HeaderLength, LenProperties
    <3> QED BY <2>7, <3>1, <3>3, <3>4, <3>5
  <2> HIDE DEF h, a, b
  <2>9. h < recvSize /\ h + a < recvSize /\ h + a \in Nat
    BY <2>1, <2>8
  <2>10. Type.outcome # "undefined"
    BY <2>2, <2>7, <2>8, <2>9 DEF Type, h
  <2>11. Type.next = h + a
    BY <2>1, <2>4, <2>6, <2>10, AheadSeq, TypeRead DEF h, a
  <2>12. Parsed.outcome # "undefined"
    BY <2>2, <2>9, <2>11 DEF Parsed
  <2> QED BY <2>1, <2>3, <2>10, <2>12 DEF IsUndefined
<1>2. CASE PrintMessage \/ Write \/ Read \/ ReadEnds
  BY <1>2 DEF PrintMessage, Write, Read, ReadEnds
<1>3. CASE ExtractClears \/ ExtractSkips \/ ExtractDelivers \/ ExtractEnds
  BY <1>3 DEF ExtractClears, ExtractSkips, ExtractDelivers, ExtractEnds, Extracting
<1> QED BY <1>1, <1>2, <1>3 DEF Next

(* recvBuffer_ is only ever cleared, of what was not read yet, when it holds *)
(* less than a length field: a message whose length has come is not lost.  *)
THEOREM ClearsOnlyHeader == Spec => OnlyHeaderCleared
<1>1. IInv /\ [Next]_vars => IInv'
  BY NextInv
<1>2. IInv /\ [Next]_vars => [~cleared /\ cleared' => recvSize < HeaderSize]_vars
  BY ClearsStep
<1> QED BY InitInv, <1>1, <1>2, PTL DEF Spec, OnlyHeaderCleared

(* In step, getline and getdata go beyond the data of a block only when     *)
(* what was read is in more than one.                                      *)
THEOREM DefinedInOneBlock == Spec => OneBlockDefined
<1>1. IInv /\ [Next]_vars => IInv'
  BY NextInv
<1>2. IInv /\ [Next]_vars =>
        [~cleared /\ phase # "undefined" /\ phase' = "undefined"
           => R!ContinuousDataSize < recvSize]_vars
  BY DefinedStep
<1> QED BY InitInv, <1>1, <1>2, PTL DEF Spec, OneBlockDefined
=============================================================================
