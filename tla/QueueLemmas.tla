---------------------------- MODULE QueueLemmas ----------------------------
(***************************************************************************)
(* Facts about remainders, about prefixes, suffixes and the elements of    *)
(* sequences, about one or several queues without duplicates, sequences of *)
(* one value, and functions extended by new values, that the proofs of the *)
(* components rest on.                                                     *)
(***************************************************************************)
EXTENDS Integers, Sequences, Functions, SequenceTheorems, TLAPS

\* Numbers less than c apart have different remainders.
LEMMA RemainderDistinct ==
  ASSUME NEW c \in Nat \ {0}, NEW i \in Nat, NEW j \in Nat, i < j, j < i + c
  PROVE  i % c # j % c
<1> DEFINE q == i \div c
           r == j \div c
<1>1. i = c * q + (i % c) /\ q \in Int /\ i % c \in Int
  BY SMT
<1>2. j = c * r + (j % c) /\ r \in Int /\ j % c \in Int
  BY SMT
<1> HIDE DEF q, r
<1>3. SUFFICES ASSUME i % c = j % c PROVE FALSE
  OBVIOUS
<1>4. j - i = c * (r - q)
  BY <1>1, <1>2, <1>3, SMT
<1>5. CASE r - q <= 0
  <2>1. c * (r - q) <= 0
    BY <1>5, <1>1, <1>2, SMT
  <2>2. QED BY <2>1, <1>4
<1>6. CASE r - q >= 1
  <2>1. c * (r - q) >= c
    BY <1>6, <1>1, <1>2, SMT
  <2>2. QED BY <2>1, <1>4
<1>7. QED BY <1>1, <1>2, <1>5, <1>6

\* Adding c leaves the remainder as it is.
LEMMA RemainderWrap ==
  ASSUME NEW c \in Nat \ {0}, NEW i \in Nat PROVE (i + c) % c = i % c
<1> DEFINE q == i \div c
           r == (i + c) \div c
           a == i % c
           b == (i + c) % c
<1>1. i = c * q + a /\ q \in Int /\ a \in 0..(c - 1)
  BY SMT
<1>2. i + c = c * r + b /\ r \in Int /\ b \in 0..(c - 1)
  BY SMT
<1>3. SUFFICES b = a
  OBVIOUS
<1> HIDE DEF q, r, a, b
<1>4. a - b = c * (r - q - 1)
  BY <1>1, <1>2, SMT
<1>5. CASE r - q - 1 <= -1
  <2>1. c * (r - q - 1) <= -c
    BY <1>5, <1>1, <1>2, SMT
  <2>2. QED BY <2>1, <1>1, <1>2, <1>4
<1>6. CASE r - q - 1 >= 1
  <2>1. c * (r - q - 1) >= c
    BY <1>6, <1>1, <1>2, SMT
  <2>2. QED BY <2>1, <1>1, <1>2, <1>4
<1>7. CASE r - q - 1 = 0
  <2>1. a - b = 0
    BY <1>4, <1>7, SMT
  <2>2. QED BY <2>1, <1>1, <1>2
<1>8. QED BY <1>1, <1>2, <1>5, <1>6, <1>7

\* Appending to a sequence appends to each of its suffixes.
LEMMA AppendSuffix ==
  ASSUME NEW S, NEW s \in Seq(S), NEW x \in S, NEW k \in 0..Len(s)
  PROVE  SubSeq(Append(s, x), k + 1, Len(s) + 1) = Append(SubSeq(s, k + 1, Len(s)), x)
<1> DEFINE n == Len(s)
           a == SubSeq(Append(s, x), k + 1, n + 1)
           q == SubSeq(s, k + 1, n)
<1>1. n \in Nat /\ Append(s, x) \in Seq(S) /\ Len(Append(s, x)) = n + 1
      /\ Append(s, x)[n + 1] = x /\ \A i \in 1..n : Append(s, x)[i] = s[i]
  BY AppendProperties
<1>2. /\ a \in Seq(S) /\ Len(a) = n + 1 - k
      /\ \A i \in 1..(n + 1 - k) : a[i] = Append(s, x)[k + i]
  <2>1. \A i \in (k + 1)..(n + 1) : Append(s, x)[i] \in S
    BY <1>1, ElementOfSeq
  <2>2. QED BY <2>1, <1>1, SubSeqProperties
<1>3. /\ q \in Seq(S) /\ Len(q) = n - k
      /\ \A i \in 1..(n - k) : q[i] = s[k + i]
  <2>1. \A i \in (k + 1)..n : s[i] \in S
    BY <1>1, ElementOfSeq
  <2>2. QED BY <2>1, <1>1, SubSeqProperties
<1>4. /\ Append(q, x) \in Seq(S) /\ Len(Append(q, x)) = n + 1 - k
      /\ Append(q, x)[n + 1 - k] = x
      /\ \A i \in 1..(n - k) : Append(q, x)[i] = q[i]
  BY <1>1, <1>3, AppendProperties
<1> HIDE DEF a, q, n
<1>5. \A i \in 1..(n + 1 - k) : a[i] = Append(q, x)[i]
  <2> TAKE i \in 1..(n + 1 - k)
  <2>0. n = Len(s)
    BY DEF n
  <2>1. CASE i = n + 1 - k
    <3>1. k + i = n + 1
      BY <2>0, <2>1, <1>1
    <3>2. QED BY <3>1, <2>1, <1>1, <1>2, <1>4
  <2>2. CASE i # n + 1 - k
    <3>1. i \in 1..(n - k) /\ k + i \in 1..n
      BY <2>0, <2>2, <1>1
    <3>2. QED BY <3>1, <1>1, <1>2, <1>3, <1>4
  <2>3. QED BY <2>1, <2>2, Zenon
<1>6. a = Append(q, x)
  BY <1>2, <1>4, <1>5, SeqEqual
<1>7. QED BY <1>6, Zenon DEF a, q, n

\* A prefix is not changed by appending beyond it.
LEMMA AppendPrefix ==
  ASSUME NEW S, NEW s \in Seq(S), NEW x \in S, NEW k \in 0..Len(s)
  PROVE  SubSeq(Append(s, x), 1, k) = SubSeq(s, 1, k)
<1>1. /\ Append(s, x) \in Seq(S) /\ Len(Append(s, x)) = Len(s) + 1
      /\ \A i \in 1..Len(s) : Append(s, x)[i] = s[i]
  BY AppendProperties
<1>2. \A i \in 1..k : s[i] \in S /\ Append(s, x)[i] \in S
  BY <1>1, ElementOfSeq
<1>3. /\ SubSeq(s, 1, k) \in Seq(S) /\ Len(SubSeq(s, 1, k)) = k
      /\ \A i \in 1..k : SubSeq(s, 1, k)[i] = s[i]
  BY <1>2, SubSeqProperties
<1>4. /\ SubSeq(Append(s, x), 1, k) \in Seq(S) /\ Len(SubSeq(Append(s, x), 1, k)) = k
      /\ \A i \in 1..k : SubSeq(Append(s, x), 1, k)[i] = Append(s, x)[i]
  BY <1>2, SubSeqProperties
<1>5. QED BY <1>1, <1>3, <1>4, SeqEqual

\* The elements of a suffix.
LEMMA SuffixElements ==
  ASSUME NEW S, NEW s \in Seq(S), NEW k \in 0..Len(s)
  PROVE  LET q == SubSeq(s, k + 1, Len(s))
         IN  /\ q \in Seq(S) /\ Len(q) = Len(s) - k
             /\ \A i \in 1..(Len(s) - k) : q[i] = s[k + i]
<1>1. \A i \in (k + 1)..Len(s) : s[i] \in S
  BY ElementOfSeq
<1>2. Len(s) \in Nat /\ Len(s) - (k + 1) + 1 = Len(s) - k
  OBVIOUS
<1>3. \A i \in 1..(Len(s) - k) : (k + 1) + i - 1 = k + i
  BY <1>2
<1> DEFINE q == SubSeq(s, k + 1, Len(s))
<1>4. /\ q \in Seq(S)
      /\ Len(q) = IF k + 1 <= Len(s) THEN Len(s) - (k + 1) + 1 ELSE 0
      /\ \A i \in 1..(Len(s) - (k + 1) + 1) : q[i] = s[(k + 1) + i - 1]
  BY <1>1, <1>2, SubSeqProperties
<1> HIDE DEF q
<1>5. Len(q) = Len(s) - k
  <2>1. CASE k + 1 <= Len(s)
    BY <2>1, <1>2, <1>4
  <2>2. CASE k = Len(s)
    <3>1. ~(k + 1 <= Len(s)) /\ Len(s) - k = 0
      BY <2>2, <1>2
    <3>2. QED BY <3>1, <1>4
  <2>3. k + 1 <= Len(s) \/ k = Len(s)
    <3> DEFINE n == Len(s)
    <3>1. n \in Nat /\ k \in 0..n
      BY <1>2
    <3> HIDE DEF n
    <3>2. k + 1 <= n \/ k = n
      BY <3>1
    <3>3. QED BY <3>2 DEF n
  <2>4. QED BY <2>1, <2>2, <2>3
<1>6. ASSUME NEW i \in 1..(Len(s) - k) PROVE q[i] = s[k + i]
  <2>1. i \in 1..(Len(s) - (k + 1) + 1) /\ (k + 1) + i - 1 = k + i
    BY <1>2, <1>3
  <2>2. q[i] = s[(k + 1) + i - 1]
    BY <2>1, <1>4
  <2>3. QED BY <2>1, <2>2
<1>7. QED BY <1>4, <1>5, <1>6 DEF q

\* Dropping from a suffix gives a shorter suffix.
LEMMA SuffixOfSuffix ==
  ASSUME NEW S, NEW s \in Seq(S), NEW k \in 0..Len(s), NEW m \in k..Len(s)
  PROVE  LET q == SubSeq(s, k + 1, Len(s))
         IN  SubSeq(q, (m - k) + 1, Len(q)) = SubSeq(s, m + 1, Len(s))
<1> DEFINE q == SubSeq(s, k + 1, Len(s))
           u == SubSeq(q, (m - k) + 1, Len(q))
           v == SubSeq(s, m + 1, Len(s))
<1>1. /\ q \in Seq(S) /\ Len(q) = Len(s) - k
      /\ \A i \in 1..(Len(s) - k) : q[i] = s[k + i]
  BY SuffixElements
<1>2. /\ v \in Seq(S) /\ Len(v) = Len(s) - m
      /\ \A i \in 1..(Len(s) - m) : v[i] = s[m + i]
  BY SuffixElements
<1> HIDE DEF q
<1>3. m - k \in 0..Len(q) /\ Len(q) - (m - k) = Len(s) - m
  BY <1>1
<1>4. /\ u \in Seq(S) /\ Len(u) = Len(s) - m
      /\ \A i \in 1..(Len(s) - m) : u[i] = q[(m - k) + i]
  BY <1>1, <1>3, SuffixElements
<1> HIDE DEF u, v
<1>5. ASSUME NEW i \in 1..(Len(s) - m) PROVE u[i] = v[i]
  <2>1. (m - k) + i \in 1..(Len(s) - k) /\ k + ((m - k) + i) = m + i
    OBVIOUS
  <2>2. QED BY <2>1, <1>1, <1>2, <1>4
<1>6. u = v
  BY <1>2, <1>4, <1>5, SeqEqual
<1>7. QED BY <1>6 DEF u, v, q

\* The elements of a concatenation.
LEMMA ConcatElements ==
  ASSUME NEW S, NEW b \in Seq(S), NEW c \in Seq(S)
  PROVE  /\ b \o c \in Seq(S) /\ Len(b \o c) = Len(b) + Len(c)
         /\ \A i \in 1..Len(b) : (b \o c)[i] = b[i]
         /\ \A i \in 1..Len(c) : (b \o c)[Len(b) + i] = c[i]
OBVIOUS

\* A prefix of t grows by elements of s where t follows s.
LEMMA PrefixGrows ==
  ASSUME NEW S, NEW s \in Seq(S), NEW t \in Seq(S),
         NEW k \in 0..Len(s), NEW m \in k..Len(s),
         m <= Len(t), \A i \in 1..m : t[i] = s[i]
  PROVE  SubSeq(t, 1, m) = SubSeq(t, 1, k) \o SubSeq(SubSeq(s, k + 1, Len(s)), 1, m - k)
<1> DEFINE q == SubSeq(s, k + 1, Len(s))
           a == SubSeq(t, 1, m)
           b == SubSeq(t, 1, k)
           c == SubSeq(q, 1, m - k)
<1>0. k \in Nat /\ m \in Nat /\ k <= m /\ m - k \in Nat /\ k + (m - k) = m
  OBVIOUS
<1>1. /\ q \in Seq(S) /\ Len(q) = Len(s) - k
      /\ \A i \in 1..(Len(s) - k) : q[i] = s[k + i]
  BY SuffixElements
<1>2. \A i \in 1..m : t[i] \in S
  BY ElementOfSeq
<1>3. a \in Seq(S) /\ Len(a) = m /\ \A i \in 1..m : a[i] = t[i]
  BY <1>2, SubSeqProperties
<1>4. b \in Seq(S) /\ Len(b) = k /\ \A i \in 1..k : b[i] = t[i]
  BY <1>2, SubSeqProperties
<1> HIDE DEF q
<1>5. c \in Seq(S) /\ Len(c) = m - k /\ \A i \in 1..(m - k) : c[i] = q[i]
  <2>1. \A i \in 1..(m - k) : q[i] \in S
    BY <1>1, ElementOfSeq
  <2>2. QED BY <2>1, SubSeqProperties
<1> HIDE DEF a, b, c
<1>6. /\ b \o c \in Seq(S) /\ Len(b \o c) = m
      /\ \A i \in 1..k : (b \o c)[i] = b[i]
      /\ \A i \in 1..(m - k) : (b \o c)[k + i] = c[i]
  <2>1. Len(b) = k /\ Len(c) = m - k /\ Len(b) + Len(c) = m
    BY <1>0, <1>4, <1>5
  <2>2. b \in Seq(S) /\ c \in Seq(S)
    BY <1>4, <1>5
  <2>3. /\ b \o c \in Seq(S) /\ Len(b \o c) = Len(b) + Len(c)
        /\ \A i \in 1..Len(b) : (b \o c)[i] = b[i]
        /\ \A i \in 1..Len(c) : (b \o c)[Len(b) + i] = c[i]
    BY ONLY <2>2, ConcatElements
  <2>4. QED BY ONLY <2>1, <2>3
<1>7. ASSUME NEW i \in 1..m PROVE a[i] = (b \o c)[i]
  <2>1. CASE i \in 1..k
    BY <2>1, <1>3, <1>4, <1>6, Zenon
  <2>2. CASE i - k \in 1..(m - k)
    <3>1. i - k \in 1..(Len(s) - k) /\ k + (i - k) = i
      BY <2>2
    <3>2. a[i] = s[i] /\ c[i - k] = s[i]
      BY <2>2, <3>1, <1>1, <1>3, <1>5, Zenon
    <3>3. (b \o c)[i] = c[i - k]
      BY <2>2, <3>1, <1>6, Zenon
    <3>4. QED BY <3>2, <3>3
  <2>3. i \in 1..k \/ i - k \in 1..(m - k)
    BY <1>0
  <2>4. QED BY <2>1, <2>2, <2>3, Zenon
<1>8. a = b \o c
  BY <1>3, <1>6, <1>7, SeqEqual
<1>9. QED BY <1>8, Zenon DEF a, b, c, q

\* What a sequence contains when it grows at the end.
LEMMA ElementsOfAppend ==
  ASSUME NEW S, NEW s \in Seq(S), NEW x \in S
  PROVE  Append(s, x) \in Seq(S) /\ Range(Append(s, x)) = Range(s) \cup {x}
<1>1. /\ Append(s, x) \in Seq(S) /\ DOMAIN Append(s, x) = 1..(Len(s) + 1)
      /\ Append(s, x)[Len(s) + 1] = x
      /\ \A i \in 1..Len(s) : Append(s, x)[i] = s[i]
  BY AppendProperties
<1>2. DOMAIN s = 1..Len(s) /\ Len(s) \in Nat
  OBVIOUS
<1>3. DOMAIN Append(s, x) = DOMAIN s \cup {Len(s) + 1}
  BY <1>1, <1>2
<1> QED  BY <1>1, <1>2, <1>3 DEF Range

\* What it contains when its first element is taken.
LEMMA ElementsOfTail ==
  ASSUME NEW S, NEW s \in Seq(S), s # << >>
  PROVE  /\ Head(s) \in S /\ Tail(s) \in Seq(S)
         /\ Range(s) = {Head(s)} \cup Range(Tail(s))
<1> PICK n \in Nat : n = Len(s)
  OBVIOUS
<1>1. n > 0 /\ DOMAIN s = 1..n /\ s[1] \in S
  BY EmptySeq, ElementOfSeq
<1>2. /\ Head(s) = s[1] /\ Tail(s) \in Seq(S) /\ Len(Tail(s)) = n - 1
      /\ \A i \in 1..(n - 1) : Tail(s)[i] = s[i + 1]
  BY <1>1, HeadTailProperties
<1>3. DOMAIN Tail(s) = 1..(n - 1)
  BY <1>2
<1>4. ASSUME NEW x  PROVE x \in Range(s) <=> x = s[1] \/ x \in Range(Tail(s))
  <2>1. ASSUME NEW i \in 1..n, x = s[i]  PROVE x = s[1] \/ x \in Range(Tail(s))
    <3>1. CASE i = 1
      BY <2>1, <3>1
    <3>2. CASE i # 1
      <4>1. i - 1 \in 1..(n - 1) /\ (i - 1) + 1 = i
        BY <3>2
      <4> QED  BY <1>2, <1>3, <2>1, <4>1, Zenon DEF Range
    <3> QED  BY <3>1, <3>2
  <2>2. ASSUME NEW i \in 1..(n - 1), x = Tail(s)[i]  PROVE x \in Range(s)
    <3>1. i + 1 \in 1..n
      OBVIOUS
    <3> QED  BY <1>1, <1>2, <2>2, <3>1 DEF Range
  <2> QED  BY <1>1, <1>3, <2>1, <2>2 DEF Range
<1> QED  BY <1>1, <1>2, <1>4

\* What the elements of a sequence with one taken from its front are.
LEMMA TailElements ==
  ASSUME NEW S, NEW s \in Seq(S), s # << >>
  PROVE  /\ Tail(s) \in Seq(S) /\ DOMAIN s # {} /\ 1 \in DOMAIN s /\ s[1] = Head(s)
         /\ \A i \in DOMAIN Tail(s) : i \in Nat /\ i + 1 \in DOMAIN s /\ Tail(s)[i] = s[i + 1]
<1> PICK n \in Nat : n = Len(s)
  OBVIOUS
<1>1. n > 0 /\ DOMAIN s = 1..n
  BY EmptySeq
<1>2. /\ Head(s) = s[1] /\ Tail(s) \in Seq(S) /\ Len(Tail(s)) = n - 1
      /\ \A i \in 1..(n - 1) : Tail(s)[i] = s[i + 1]
  BY <1>1, HeadTailProperties
<1>3. DOMAIN Tail(s) = 1..(n - 1)
  BY <1>2
<1> QED  BY <1>1, <1>2, <1>3

\* A queue without duplicates stays so when a new element enters at the end,
LEMMA InjectiveAppend ==
  ASSUME NEW S, NEW s \in Seq(S), NEW x \in S, IsInjective(s), x \notin Range(s)
  PROVE  IsInjective(Append(s, x))
<1> PICK n \in Nat : n = Len(s)
  OBVIOUS
<1>1. DOMAIN s = 1..n /\ DOMAIN Append(s, x) = 1..(n + 1)
  BY AppendProperties
<1>2. Append(s, x)[n + 1] = x /\ \A i \in 1..n : Append(s, x)[i] = s[i]
  BY AppendProperties
<1>3. \A i \in 1..n : s[i] # x
  BY <1>1 DEF Range
<1>4. \A i, j \in 1..n : s[i] = s[j] => i = j
  BY <1>1 DEF IsInjective
<1>5. \A i \in 1..(n + 1) : i \in 1..n \/ i = n + 1
  OBVIOUS
<1> PICK t : t = Append(s, x)
  BY Zenon
<1>6. \A i, j \in 1..(n + 1) : t[i] = t[j] => i = j
  BY <1>2, <1>3, <1>4, <1>5
<1> QED  BY <1>1, <1>6 DEF IsInjective

\* and when its first element leaves, which is then in it no more.
LEMMA InjectiveTail ==
  ASSUME NEW S, NEW s \in Seq(S), s # << >>, IsInjective(s)
  PROVE  IsInjective(Tail(s)) /\ Head(s) \notin Range(Tail(s))
<1>1. \A i \in DOMAIN Tail(s) : i \in Nat /\ i + 1 \in DOMAIN s /\ Tail(s)[i] = s[i + 1]
  BY TailElements
<1>2. 1 \in DOMAIN s /\ Head(s) = s[1]
  BY TailElements
<1>3. \A i, j \in DOMAIN s : s[i] = s[j] => i = j
  BY DEF IsInjective
<1>4. ASSUME NEW i \in DOMAIN Tail(s), NEW j \in DOMAIN Tail(s), Tail(s)[i] = Tail(s)[j]  PROVE i = j
  <2>1. i + 1 = j + 1
    BY <1>1, <1>3, <1>4
  <2> QED  BY <1>1, <2>1
<1>5. ASSUME NEW i \in DOMAIN Tail(s)  PROVE Tail(s)[i] # Head(s)
  <2>1. i + 1 # 1
    BY <1>1, <1>5
  <2> QED  BY <1>1, <1>2, <1>3, <2>1
<1> QED  BY <1>4, <1>5 DEF IsInjective, Range

\* Two queues one after the other
LEMMA InjectiveConcat ==
  ASSUME NEW S, NEW s \in Seq(S), NEW t \in Seq(S), IsInjective(s), IsInjective(t),
         Range(s) \cap Range(t) = {}
  PROVE  IsInjective(s \o t) /\ Range(s \o t) = Range(s) \cup Range(t)
<1> PICK m \in Nat : m = Len(s)
  OBVIOUS
<1> PICK n \in Nat : n = Len(t)
  OBVIOUS
<1> PICK u : u = s \o t
  BY Zenon
<1>1. DOMAIN s = 1..m /\ DOMAIN t = 1..n /\ DOMAIN u = 1..(m + n)
  OBVIOUS
<1>2. (\A i \in 1..m : u[i] = s[i]) /\ (\A i \in 1..n : u[m + i] = t[i])
  BY ConcatElements
<1>3. \A i \in 1..(m + n) : i \in 1..m \/ (i - m \in 1..n /\ i = m + (i - m))
  OBVIOUS
<1>4. Range(u) = Range(s) \cup Range(t)
  <2>1. ASSUME NEW i \in 1..(m + n)  PROVE u[i] \in Range(s) \cup Range(t)
    <3>1. CASE i \in 1..m
      BY <1>1, <1>2, <3>1, Zenon DEF Range
    <3>2. CASE i - m \in 1..n /\ i = m + (i - m)
      <4>1. u[i] = t[i - m]
        BY <1>2, <3>2
      <4> QED  BY <1>1, <3>2, <4>1, Zenon DEF Range
    <3> QED  BY <1>3, <3>1, <3>2
  <2>2. \A i \in 1..m : i \in 1..(m + n)
    OBVIOUS
  <2>3. \A i \in 1..n : m + i \in 1..(m + n)
    OBVIOUS
  <2>4. Range(u) \subseteq Range(s) \cup Range(t)
    BY <1>1, <2>1 DEF Range
  <2>5. Range(s) \subseteq Range(u)
    BY <1>1, <1>2, <2>2 DEF Range
  <2>6. Range(t) \subseteq Range(u)
    <3> SUFFICES ASSUME NEW i \in 1..n  PROVE t[i] \in Range(u)
      BY <1>1, Zenon DEF Range
    <3>1. t[i] = u[m + i] /\ m + i \in 1..(m + n)
      BY <1>2, <2>3
    <3> QED  BY <1>1, <3>1, Zenon DEF Range
  <2> QED  BY <2>4, <2>5, <2>6
<1>5. ASSUME NEW i \in 1..(m + n), NEW j \in 1..(m + n), u[i] = u[j]  PROVE i = j
  <2>1. CASE i \in 1..m /\ j \in 1..m
    BY <1>1, <1>2, <1>5, <2>1 DEF IsInjective
  <2>2. ASSUME NEW a \in 1..m, NEW b \in 1..n  PROVE s[a] # t[b]
    BY <1>1, Zenon DEF Range
  <2>3. CASE i - m \in 1..n /\ i = m + (i - m) /\ j - m \in 1..n /\ j = m + (j - m)
    <3>1. t[i - m] = t[j - m]
      BY <1>2, <1>5, <2>3
    <3>2. i - m = j - m
      BY <1>1, <2>3, <3>1, Zenon DEF IsInjective
    <3> QED  BY <3>2
  <2> QED  BY <1>2, <1>3, <1>5, <2>1, <2>2, <2>3
<1> QED  BY <1>1, <1>4, <1>5 DEF IsInjective
-----------------------------------------------------------------------------
(***************************************************************************)
(* Several queues, one per worker: q[w] for w in W.                        *)
(***************************************************************************)
AllOf(W, q) == UNION {Range(q[w]) : w \in W}

\* No element is in two places.
Apart(W, q) ==
  /\ \A v \in W : IsInjective(q[v])
  /\ \A u, v \in W : u # v => Range(q[u]) \cap Range(q[v]) = {}

\* The head of one queue is taken: it is in none then.
HeadTaken(W, M, q, w, p) ==
  /\ p \in [W -> Seq(M)] /\ Head(q[w]) \in M /\ Head(q[w]) \in AllOf(W, q)
  /\ AllOf(W, p) = AllOf(W, q) \ {Head(q[w])} /\ Apart(W, p)

LEMMA ApartTail ==
  ASSUME NEW W, NEW M, NEW q \in [W -> Seq(M)], Apart(W, q), NEW w \in W, q[w] # << >>,
         NEW p, p = [q EXCEPT ![w] = Tail(@)]
  PROVE  HeadTaken(W, M, q, w, p)
<1>0. PICK m : m = Head(q[w])
  BY Zenon
<1>1. /\ m \in M /\ Tail(q[w]) \in Seq(M) /\ Range(q[w]) = {m} \cup Range(Tail(q[w]))
  BY <1>0, ElementsOfTail
<1>2. IsInjective(Tail(q[w])) /\ m \notin Range(Tail(q[w]))
  BY <1>0, InjectiveTail DEF Apart
<1>3. /\ p \in [W -> Seq(M)] /\ p[w] = Tail(q[w])
      /\ \A v \in W : v # w => p[v] = q[v]
  BY <1>1
<1>4. \A v \in W : Range(p[v]) = Range(q[v]) \ {m} /\ IsInjective(p[v])
  <2> TAKE v \in W
  <2>1. CASE v = w
    BY <2>1, <1>1, <1>2, <1>3
  <2>2. CASE v # w
    BY <2>2, <1>1, <1>3 DEF Apart
  <2> QED  BY <2>1, <2>2
<1>5. AllOf(W, p) = AllOf(W, q) \ {m}
  <2>1. ASSUME NEW x \in AllOf(W, p) PROVE x \in AllOf(W, q) \ {m}
    <3>1. PICK v \in W : x \in Range(p[v])
      BY DEF AllOf
    <3>2. x \in Range(q[v]) /\ x # m
      BY <3>1, <1>4
    <3> QED  BY <3>2, Zenon DEF AllOf
  <2>2. ASSUME NEW x \in AllOf(W, q) \ {m} PROVE x \in AllOf(W, p)
    <3>1. PICK v \in W : x \in Range(q[v])
      BY DEF AllOf
    <3> QED  BY <3>1, <1>4 DEF AllOf
  <2> QED  BY <2>1, <2>2, Zenon
<1>6. m \in AllOf(W, q)
  BY <1>1 DEF AllOf
<1>7. Apart(W, p)
  BY <1>4, Zenon DEF Apart
<1> QED  BY <1>0, <1>1, <1>3, <1>5, <1>6, <1>7, Zenon DEF HeadTaken

\* An element that is in none is appended to one queue.
PutLast(W, M, q, m, p) ==
  p \in [W -> Seq(M)] /\ AllOf(W, p) = AllOf(W, q) \cup {m} /\ Apart(W, p)

LEMMA ApartAppend ==
  ASSUME NEW W, NEW M, NEW q \in [W -> Seq(M)], Apart(W, q), NEW w \in W,
         NEW m \in M, m \notin AllOf(W, q), NEW p, p = [q EXCEPT ![w] = Append(@, m)]
  PROVE  PutLast(W, M, q, m, p)
<1>1. /\ Append(q[w], m) \in Seq(M) /\ Range(Append(q[w], m)) = Range(q[w]) \cup {m}
  BY ElementsOfAppend
<1>2. \A v \in W : m \notin Range(q[v])
  BY DEF AllOf
<1>3. IsInjective(Append(q[w], m))
  BY <1>2, InjectiveAppend DEF Apart
<1>4. /\ p \in [W -> Seq(M)] /\ p[w] = Append(q[w], m)
      /\ \A v \in W : v # w => p[v] = q[v]
  BY <1>1
<1>5. AllOf(W, p) = AllOf(W, q) \cup {m}
  <2>1. ASSUME NEW x \in AllOf(W, p) PROVE x \in AllOf(W, q) \cup {m}
    <3>1. PICK v \in W : x \in Range(p[v])
      BY DEF AllOf
    <3> QED  BY <3>1, <1>1, <1>4 DEF AllOf
  <2>2. \A v \in W : Range(q[v]) \subseteq Range(p[v])
    BY <1>1, <1>4
  <2>3. m \in Range(p[w])
    BY <1>1, <1>4
  <2> QED  BY <2>1, <2>2, <2>3 DEF AllOf
<1>6. \A v \in W : IsInjective(p[v])
  BY <1>3, <1>4 DEF Apart
<1>7. \A u, v \in W : u # v => Range(p[u]) \cap Range(p[v]) = {}
  BY <1>1, <1>2, <1>4 DEF Apart
<1> QED  BY <1>4, <1>5, <1>6, <1>7, Zenon DEF Apart, PutLast

-----------------------------------------------------------------------------
\* Bytes, each marked with whose it is: all are k's.
OneIn(s, k) == \A i \in 1..Len(s) : s[i] = k

\* n of them
LEMMA OneOnly ==
  ASSUME NEW S, NEW k \in S, NEW n \in Nat \ {0}, NEW r, r = [i \in 1..n |-> k]
  PROVE  r \in Seq(S) /\ Len(r) = n /\ OneIn(r, k) /\ r # << >> /\ << >> \o r = r
<1>1. r \in Seq(S) /\ Len(r) = n /\ \A i \in 1..n : r[i] = k
  OBVIOUS
<1>2. OneIn(r, k)
  BY <1>1 DEF OneIn
<1>3. r # << >> /\ << >> \o r = r
  BY <1>1, EmptySeq, ConcatEmptySeq
<1> QED  BY <1>1, <1>2, <1>3

\* They stay k's when they are put together
LEMMA OneConcat ==
  ASSUME NEW S, NEW k, NEW s \in Seq(S), NEW t \in Seq(S), OneIn(s, k), OneIn(t, k)
  PROVE  s \o t \in Seq(S) /\ OneIn(s \o t, k) /\ Len(s \o t) = Len(s) + Len(t)
<1> PICK a : a = s \o t
  BY Zenon
<1>1. /\ a \in Seq(S) /\ Len(a) = Len(s) + Len(t) /\ Len(s) \in Nat /\ Len(t) \in Nat
      /\ \A i \in 1..Len(s) : a[i] = s[i]
      /\ \A i \in 1..Len(t) : a[Len(s) + i] = t[i]
  OBVIOUS
<1>2. ASSUME NEW i \in 1..(Len(s) + Len(t)) PROVE a[i] = k
  <2>1. CASE i <= Len(s)
    <3>1. i \in 1..Len(s)
      BY <2>1, <1>1
    <3> QED  BY <3>1, <1>1, Zenon DEF OneIn
  <2>2. CASE ~(i <= Len(s))
    <3>1. i - Len(s) \in 1..Len(t) /\ Len(s) + (i - Len(s)) = i
      BY <2>2, <1>1
    <3>2. a[i] = t[i - Len(s)]
      BY <3>1, <1>1, Zenon
    <3> QED  BY <3>1, <3>2, Zenon DEF OneIn
  <2> QED  BY <2>1, <2>2
<1> QED  BY <1>1, <1>2 DEF OneIn

\* and when they are taken apart.
LEMMA OneSplit ==
  ASSUME NEW S, NEW k, NEW t \in Seq(S), OneIn(t, k), NEW n \in 0..Len(t)
  PROVE  LET p == SubSeq(t, 1, n)
             b == SubSeq(t, n + 1, Len(t))
         IN  /\ p \in Seq(S) /\ OneIn(p, k) /\ Len(p) = n
             /\ b \in Seq(S) /\ OneIn(b, k) /\ Len(b) = Len(t) - n
<1> PICK p : p = SubSeq(t, 1, n)
  BY Zenon
<1> PICK b : b = SubSeq(t, n + 1, Len(t))
  BY Zenon
<1>1. \A i \in 1..n : t[i] \in S /\ t[i] = k
  BY ElementOfSeq DEF OneIn
<1>2. p \in Seq(S) /\ Len(p) = n /\ \A i \in 1..n : p[i] = t[i]
  BY <1>1, SubSeqProperties
<1>3. /\ b \in Seq(S) /\ Len(b) = Len(t) - n
      /\ \A i \in 1..(Len(t) - n) : b[i] = t[n + i]
  BY SuffixElements
<1>4. OneIn(b, k)
  BY <1>3 DEF OneIn
<1>5. OneIn(p, k)
  BY <1>1, <1>2 DEF OneIn
<1> QED  BY <1>2, <1>3, <1>4, <1>5

-----------------------------------------------------------------------------
(***************************************************************************)
(* A queue without duplicates, from which the first n elements are taken.  *)
(***************************************************************************)
LEMMA InjectiveSuffix ==
  ASSUME NEW S, NEW b \in Seq(S), IsInjective(b), NEW n \in 0..Len(b)
  PROVE  LET r == SubSeq(b, n + 1, Len(b))
         IN  /\ r \in Seq(S) /\ IsInjective(r) /\ Range(r) \subseteq Range(b)
             /\ \A i \in 1..n : b[i] \in Range(b) /\ b[i] \notin Range(r)
             /\ \A k \in Range(b) : k \in Range(r) \/ \E i \in 1..n : k = b[i]
             /\ \A i, j \in 1..n : b[i] = b[j] => i = j
<1> PICK r : r = SubSeq(b, n + 1, Len(b))
  BY Zenon
<1>1. PICK l \in Nat : l = Len(b)
  OBVIOUS
<1>2. DOMAIN b = 1..l /\ n \in Nat /\ n <= l
  BY <1>1
<1>3. \A i, j \in 1..l : b[i] = b[j] => i = j
  BY <1>2 DEF IsInjective
<1>4. r \in Seq(S) /\ DOMAIN r = 1..(l - n) /\ \A i \in 1..(l - n) : r[i] = b[n + i]
  BY <1>1, SuffixElements
<1>5. \A i \in 1..(l - n) : n + i \in 1..l
  BY <1>2
<1>6. IsInjective(r)
  <2> SUFFICES ASSUME NEW i \in 1..(l - n), NEW j \in 1..(l - n), r[i] = r[j] PROVE i = j
    BY <1>4 DEF IsInjective
  <2>1. n + i = n + j
    BY <1>3, <1>4, <1>5
  <2> QED  BY <2>1, <1>2
<1>7. Range(r) \subseteq Range(b)
  BY <1>2, <1>4, <1>5 DEF Range
<1>8. ASSUME NEW i \in 1..n PROVE b[i] \in Range(b) /\ b[i] \notin Range(r) /\ i \in 1..l
  <2>1. i \in 1..l /\ \A j \in 1..(l - n) : n + j # i
    BY <1>2
  <2>2. \A j \in 1..(l - n) : r[j] # b[i]
    BY <2>1, <1>3, <1>4, <1>5
  <2> QED  BY <2>1, <2>2, <1>2, <1>4, Zenon DEF Range
<1>9. ASSUME NEW k \in Range(b) PROVE k \in Range(r) \/ \E i \in 1..n : k = b[i]
  <2>1. PICK j \in 1..l : k = b[j]
    BY <1>2 DEF Range
  <2>2. CASE j <= n
    BY <2>1, <2>2, <1>2
  <2>3. CASE ~(j <= n)
    <3>1. j - n \in 1..(l - n) /\ n + (j - n) = j
      BY <2>3, <1>2
    <3>2. r[j - n] = k
      BY <2>1, <3>1, <1>4, Zenon
    <3> QED  BY <3>1, <3>2, <1>4, Zenon DEF Range
  <2> QED  BY <2>2, <2>3
<1> QED  BY <1>3, <1>4, <1>6, <1>7, <1>8, <1>9

\* They become the values of c at new arguments f[1] .. f[n].
Extended(c, n, f, b) ==
  [d \in DOMAIN c \cup Range(f) |->
     IF d \in DOMAIN c THEN c[d] ELSE b[CHOOSE i \in 1..n : f[i] = d]]

Extends(e, c, n, f, b, F) ==
  /\ \A d \in DOMAIN c : d \in DOMAIN e /\ e[d] = c[d]
  /\ \A d \in DOMAIN e \ DOMAIN c : d \in F /\ \E i \in 1..n : d = f[i] /\ e[d] = b[i]
  /\ \A i \in 1..n : f[i] \in DOMAIN e /\ e[f[i]] = b[i]

LEMMA NewValues ==
  ASSUME NEW c, NEW n \in Nat, NEW F, F \cap DOMAIN c = {}, NEW f \in [1..n -> F],
         IsInjective(f), NEW b
  PROVE  Extends(Extended(c, n, f, b), c, n, f, b, F)
<1> PICK e : e = Extended(c, n, f, b)
  BY Zenon
<1>1. DOMAIN e = DOMAIN c \cup Range(f) /\ \A d \in DOMAIN c : d \in DOMAIN e /\ e[d] = c[d]
  BY DEF Extended
<1>2. ASSUME NEW i \in 1..n PROVE f[i] \in F /\ f[i] \in DOMAIN e /\ e[f[i]] = b[i]
  <2>1. f[i] \in F /\ f[i] \in Range(f) /\ f[i] \notin DOMAIN c
    BY DEF Range
  <2>2. \A j \in 1..n : f[j] = f[i] => j = i
    BY DEF IsInjective
  <2>3. (CHOOSE j \in 1..n : f[j] = f[i]) = i
    BY <2>2
  <2> QED  BY <2>1, <2>3, Zenon DEF Extended
<1>3. ASSUME NEW d \in DOMAIN e \ DOMAIN c
      PROVE  d \in F /\ \E i \in 1..n : d = f[i] /\ e[d] = b[i]
  <2>1. PICK i \in 1..n : d = f[i]
    BY <1>1 DEF Range
  <2> QED  BY <2>1, <1>2, Zenon
<1> QED  BY <1>1, <1>2, <1>3, Zenon DEF Extends

=============================================================================
