------------------------ MODULE QueryExchangeProofs ------------------------
(***************************************************************************)
(* Proofs about QueryExchange and the reading of query strings, for any    *)
(* texts, any number of tokens and any size of the integers.               *)
(***************************************************************************)
EXTENDS QueryExchange, ListingLemmas

-----------------------------------------------------------------------------
(* Induction over sets of natural numbers, and functions defined by it.    *)

LEMMA SetInduction ==
  ASSUME NEW T \in SUBSET Nat, 0 \in T, \A n \in T : n + 1 \in T
  PROVE  T = Nat
<1>. SUFFICES ASSUME Nat \ T # {} PROVE FALSE
  OBVIOUS
<1>1. PICK m \in Nat \ T : \A n \in Nat \ T : m <= n
  BY LeastNat
<1>2. m - 1 \in Nat
  BY <1>1
<1>3. m - 1 \in T
  BY <1>1, <1>2
<1>. QED
  BY <1>1, <1>3

LEMMA IntervalInduction ==
  ASSUME NEW n \in Nat, NEW T, 0 \in T, \A i \in 0 .. n - 1 : i \in T => i + 1 \in T
  PROVE  \A i \in 0 .. n : i \in T
<1>. DEFINE U == {i \in Nat : i \in 0 .. n => i \in T}
<1>1. 0 \in U /\ \A i \in U : i + 1 \in U
  OBVIOUS
<1>2. U = Nat
  BY <1>1, SetInduction, Zenon
<1>. QED
  BY <1>2

\* Primitive recursion over an interval.
IsRecursive(f, S, a, G, n) ==
  /\ f \in [0 .. n -> S]
  /\ f[0] = a
  /\ \A i \in 1 .. n : f[i] = G[<<f[i - 1], i>>]

LEMMA RecursionExists ==
  ASSUME NEW S, NEW a \in S, NEW G \in [S \X Nat -> S], NEW n \in Nat
  PROVE  \E f : IsRecursive(f, S, a, G, n)
<1>. DEFINE Good(f, m) == IsRecursive(f, S, a, G, m)
<1>. USE DEF IsRecursive
<1>1. Good([i \in 0 .. 0 |-> a], 0)
  OBVIOUS
<1>2. ASSUME NEW m \in Nat, NEW f, Good(f, m)
      PROVE  \E g : Good(g, m + 1)
  <2>. DEFINE last == G[<<f[m], m + 1>>]
              g == [i \in 0 .. m + 1 |-> IF i = m + 1 THEN last ELSE f[i]]
  <2>1. f \in [0 .. m -> S] /\ last \in S
    BY <1>2
  <2>2. \A i \in 0 .. m + 1 : i # m + 1 => i \in 0 .. m
    OBVIOUS
  <2>3. g \in [0 .. m + 1 -> S]
    BY <2>1, <2>2
  <2>4. (\A i \in 0 .. m : g[i] = f[i]) /\ g[m + 1] = last
    OBVIOUS
  <2>5. g[0] = a
    BY <1>2, <2>4
  <2>. HIDE DEF g
  <2>6. \A i \in 1 .. m + 1 : g[i] = G[<<g[i - 1], i>>]
    <3>. SUFFICES ASSUME NEW i \in 1 .. m + 1 PROVE g[i] = G[<<g[i - 1], i>>]
      OBVIOUS
    <3>1. CASE i = m + 1
      <4>1. i - 1 = m /\ m \in 0 .. m
        BY <3>1
      <4>. QED
        BY <2>4, <3>1, <4>1
    <3>2. CASE i # m + 1
      <4>1. i \in 1 .. m /\ i \in 0 .. m /\ i - 1 \in 0 .. m
        BY <3>2
      <4>. QED
        BY <1>2, <2>4, <4>1
    <3>. QED
      BY <3>1, <3>2
  <2>7. Good(g, m + 1)
    BY <2>3, <2>5, <2>6
  <2>. QED
    BY <2>7
<1>. DEFINE T == {m \in Nat : \E f : Good(f, m)}
<1>. HIDE DEF Good
<1>3. 0 \in T /\ \A m \in T : m + 1 \in T
  BY <1>1, <1>2
<1>4. n \in T
  BY <1>3, SetInduction, Zenon
<1>. QED
  BY <1>4, Zenon DEF Good

-----------------------------------------------------------------------------
(* Numerals.                                                               *)

\* The numbers that the beginnings of a numeral denote.
Values(digits) ==
  CHOOSE value : value =
    [i \in 0 .. Len(digits) |->
       IF i = 0 THEN 0 ELSE 10 * value[i - 1] + DigitValue[digits[i]]]

LEMMA ValuesStep ==
  ASSUME NEW d \in Seq(Digits)
  PROVE  /\ Values(d) \in [0 .. Len(d) -> Nat]
         /\ Values(d)[0] = 0
         /\ \A i \in 1 .. Len(d) :
              Values(d)[i] = 10 * Values(d)[i - 1] + DigitValue[d[i]]
         /\ Value(d) = Values(d)[Len(d)]
         /\ Len(d) \in Nat
<1>1. Len(d) \in Nat /\ \A i \in 1 .. Len(d) : DigitValue[d[i]] \in Nat
  <2>1. \A c \in Digits : DigitValue[c] \in Nat
    <3>. SUFFICES ASSUME NEW c \in DOMAIN DigitValue PROVE DigitValue[c] \in Nat
      BY DEF Digits
    <3>1. DigitValue[c] \in 0 .. 9
      BY ListRequestAssumption, Zenon
    <3>. QED
      BY <3>1
  <2>. QED
    BY <2>1
<1>. DEFINE Extend(v) ==
              [i \in 0 .. Len(d) |->
                 IF i = 0 THEN 0 ELSE 10 * v[i - 1] + DigitValue[d[i]]]
            G == [p \in Nat \X Nat |->
                    10 * p[1] + (IF p[2] \in 1 .. Len(d)
                                 THEN DigitValue[d[p[2]]] ELSE 0)]
<1>2. G \in [Nat \X Nat -> Nat]
  BY <1>1
<1>3. \A n \in Nat, i \in 1 .. Len(d) :
        G[<<n, i>>] = 10 * n + DigitValue[d[i]]
  BY <1>1
<1>. HIDE DEF G
<1>4. PICK f : IsRecursive(f, Nat, 0, G, Len(d))
  <2>1. 0 \in Nat
    OBVIOUS
  <2>. QED
    BY <1>1, <1>2, <2>1, RecursionExists, Zenon
<1>. USE DEF IsRecursive
<1>5. f = Extend(f)
  <2>1. \A i \in 0 .. Len(d) :
          f[i] = IF i = 0 THEN 0 ELSE 10 * f[i - 1] + DigitValue[d[i]]
    <3>. SUFFICES ASSUME NEW i \in 0 .. Len(d), i # 0
                  PROVE  f[i] = 10 * f[i - 1] + DigitValue[d[i]]
      BY <1>4
    <3>1. i \in 1 .. Len(d) /\ i - 1 \in 0 .. Len(d)
      BY <1>1
    <3>. QED
      BY <1>3, <1>4, <3>1
  <2>. QED
    BY <2>1, <1>4
<1>6. Values(d) = Extend(Values(d))
  <2>1. Values(d) = CHOOSE v : v = Extend(v)
    BY Zenon DEF Values
  <2>. QED
    BY <1>5, <2>1, Zenon
<1>. HIDE DEF Extend
<1>. DEFINE V == Values(d)
<1>7. V[0] = 0
  BY <1>1, <1>6 DEF Extend
<1>8. \A i \in 1 .. Len(d) : V[i] = 10 * V[i - 1] + DigitValue[d[i]]
  BY <1>1, <1>6 DEF Extend
<1>9. V = [i \in 0 .. Len(d) |-> V[i]]
  BY <1>6 DEF Extend
<1>10. Value(d) = V[Len(d)]
  BY Zenon DEF Value, Values
<1>. HIDE DEF V
<1>11. \A i \in 0 .. Len(d) : V[i] \in Nat
  <2>. DEFINE T == {i \in 0 .. Len(d) : V[i] \in Nat}
  <2>1. ASSUME NEW i \in 0 .. Len(d) - 1, V[i] \in Nat PROVE V[i + 1] \in Nat
    <3>1. i + 1 \in 1 .. Len(d) /\ i + 1 - 1 = i
      BY <1>1
    <3>2. V[i + 1] = 10 * V[i] + DigitValue[d[i + 1]]
      BY <1>8, <3>1
    <3>. QED
      BY <1>1, <2>1, <3>1, <3>2
  <2>2. 0 \in T /\ \A i \in 0 .. Len(d) - 1 : i \in T => i + 1 \in T
    BY <1>1, <1>7, <2>1
  <2>. QED
    BY <1>1, <2>2, IntervalInduction
<1>. QED
  BY <1>1, <1>7, <1>8, <1>9, <1>10, <1>11 DEF V

\* Positions of a text: the first and the last of some.
LEMMA FirstAndLast ==
  ASSUME NEW n \in Nat, NEW T \in SUBSET (1 .. n), T # {}
  PROVE  /\ Min(T) \in T /\ \A i \in T : Min(T) <= i
         /\ Max(T) \in T /\ \A i \in T : i <= Max(T)
<1>1. \E m \in T : \A i \in T : m <= i
  <2>1. T \in SUBSET Nat
    OBVIOUS
  <2>. QED
    BY <2>1, LeastNat
<1>2. \E m \in T : \A i \in T : i <= m
  <2>. DEFINE U == {n - i : i \in T}
  <2>1. U \in SUBSET Nat /\ U # {}
    <3>1. \A i \in T : n - i \in Nat
      OBVIOUS
    <3>. QED
      BY <3>1
  <2>2. PICK u \in U : \A v \in U : u <= v
    BY <2>1, LeastNat, Zenon
  <2>3. PICK m \in T : u = n - m
    BY <2>2
  <2>4. \A i \in T : n - m <= n - i
    BY <2>2, <2>3
  <2>. QED
    BY <2>4
<1>. QED
  BY <1>1, <1>2 DEF Min, Max

\* Digits that are zero leave the value zero.
LEMMA LeadingZeros ==
  ASSUME NEW d \in Seq(Digits), NEW k \in 0 .. Len(d),
         \A i \in 1 .. k : DigitValue[d[i]] = 0
  PROVE  Values(d)[k] = 0
<1>. DEFINE V == Values(d)
            T == {i \in 0 .. k : V[i] = 0}
<1>1. /\ V[0] = 0
      /\ \A i \in 1 .. Len(d) : V[i] = 10 * V[i - 1] + DigitValue[d[i]]
      /\ Len(d) \in Nat
  BY ValuesStep
<1>. HIDE DEF V
<1>2. ASSUME NEW i \in 0 .. k - 1, V[i] = 0 PROVE V[i + 1] = 0
  <2>1. i + 1 \in 1 .. Len(d) /\ i + 1 \in 1 .. k /\ i + 1 - 1 = i
    BY <1>1
  <2>2. V[i + 1] = 10 * V[i] + DigitValue[d[i + 1]]
    BY <1>1, <2>1
  <2>. QED
    BY <1>2, <2>1, <2>2
<1>3. 0 \in T /\ \A i \in 0 .. k - 1 : i \in T => i + 1 \in T
  BY <1>1, <1>2
<1>4. k \in Nat /\ k \in 0 .. k
  BY <1>1
<1>. QED
  BY <1>3, <1>4, IntervalInduction DEF V

\* What follows a beginning that denotes zero denotes the whole.
LEMMA SuffixValue ==
  ASSUME NEW d \in Seq(Digits), NEW c \in Seq(Digits), NEW k \in 0 .. Len(d),
         Values(d)[k] = 0, Len(c) = Len(d) - k,
         \A j \in 1 .. Len(c) : c[j] = d[k + j]
  PROVE  Value(c) = Value(d)
<1>. DEFINE V == Values(d)  W == Values(c)
            T == {j \in 0 .. Len(c) : W[j] = V[k + j]}
<1>1. /\ \A i \in 1 .. Len(d) : V[i] = 10 * V[i - 1] + DigitValue[d[i]]
      /\ Len(d) \in Nat /\ Value(d) = V[Len(d)] /\ V[k] = 0
  BY ValuesStep
<1>2. /\ W[0] = 0
      /\ \A i \in 1 .. Len(c) : W[i] = 10 * W[i - 1] + DigitValue[c[i]]
      /\ Len(c) \in Nat /\ Value(c) = W[Len(c)]
  BY ValuesStep
<1>. HIDE DEF V, W
<1>3. ASSUME NEW j \in 0 .. Len(c) - 1, W[j] = V[k + j]
      PROVE  W[j + 1] = V[k + (j + 1)]
  <2>1. j + 1 \in 1 .. Len(c) /\ j + 1 - 1 = j
    BY <1>2
  <2>2. k + (j + 1) \in 1 .. Len(d) /\ k + (j + 1) - 1 = k + j
    BY <1>1, <1>2
  <2>3. W[j + 1] = 10 * W[j] + DigitValue[c[j + 1]]
    BY <1>2, <2>1
  <2>4. V[k + (j + 1)] = 10 * V[k + j] + DigitValue[d[k + (j + 1)]]
    BY <1>1, <2>2
  <2>. QED
    BY <1>3, <2>1, <2>3, <2>4
<1>4. 0 \in T /\ \A j \in 0 .. Len(c) - 1 : j \in T => j + 1 \in T
  BY <1>1, <1>2, <1>3
<1>5. Len(c) \in 0 .. Len(c) /\ k + Len(c) = Len(d)
  BY <1>1, <1>2
<1>6. \A j \in 0 .. Len(c) : j \in T
  BY <1>2, <1>4, IntervalInduction
<1>. QED
  BY <1>1, <1>2, <1>5, <1>6

\* The canonical form of a numeral that is not zero is a numeral of the same
\* value.
LEMMA CanonicalValue ==
  ASSUME NEW d \in Seq(Digits), Value(d) # 0
  PROVE  Canonical(d) \in Seq(Digits) /\ Value(Canonical(d)) = Value(d)
<1>. DEFINE T == {i \in DOMAIN d : DigitValue[d[i]] # 0}
            m == Min(T)
            c == SubSeq(d, m, Len(d))
<1>1. Len(d) \in Nat /\ DOMAIN d = 1 .. Len(d) /\ Value(d) = Values(d)[Len(d)]
  BY ValuesStep
<1>2. T # {}
  BY <1>1, LeadingZeros
<1>3. m \in T /\ \A i \in T : m <= i
  BY <1>1, <1>2, FirstAndLast
<1>. DEFINE k == m - 1
<1>4. m \in 1 .. Len(d) /\ k \in 0 .. Len(d)
  BY <1>1, <1>3
<1>. HIDE DEF m
<1>5. \A i \in 1 .. k : DigitValue[d[i]] = 0
  <2>1. \A i \in 1 .. k : i \in DOMAIN d /\ ~(m <= i)
    BY <1>1, <1>4
  <2>. QED
    BY <1>3, <2>1
<1>6. c \in Seq(Digits) /\ Len(c) = Len(d) - k
      /\ \A j \in 1 .. Len(c) : c[j] = d[k + j]
  BY <1>1, <1>4, SubSeqProperties
<1>. HIDE DEF c, k
<1>7. Values(d)[k] = 0
  BY <1>4, <1>5, LeadingZeros
<1>8. Value(c) = Value(d)
  BY <1>4, <1>6, <1>7, SuffixValue
<1>. QED
  BY <1>6, <1>8 DEF Canonical, c, m

-----------------------------------------------------------------------------
(* Texts.                                                                  *)

NonEmptyText == {t \in RawText : t # <<>>}

LEMMA LongerIsNonEmpty ==
  ASSUME NEW t \in NonEmptyText, NEW u \in RawText
  PROVE  t \o u \in NonEmptyText
<1>1. t \in Seq(Char) /\ u \in Seq(Char) /\ t # <<>>
  BY DEF NonEmptyText, RawText
<1>2. t \o u \in Seq(Char) /\ t \o u # <<>>
  BY <1>1
<1>. QED
  BY <1>2 DEF NonEmptyText, RawText

\* The beginnings of a joined text.
Beginnings(seqs) ==
  CHOOSE flatten : flatten =
    [i \in 1 .. Len(seqs) |->
       IF i = 1 THEN seqs[i] ELSE flatten[i - 1] \o seqs[i]]

LEMMA FlattenedIsText ==
  ASSUME NEW s \in Seq(NonEmptyText), Len(s) # 0
  PROVE  /\ FlattenSeq(s) \in NonEmptyText
         /\ Len(s) = 1 => FlattenSeq(s) = s[1]
<1>1. Len(s) \in Nat /\ Len(s) - 1 \in Nat
      /\ \A i \in 1 .. Len(s) : s[i] \in NonEmptyText
  OBVIOUS
<1>. DEFINE Extend(h) ==
              [i \in 1 .. Len(s) |->
                 IF i = 1 THEN s[i] ELSE h[i - 1] \o s[i]]
            Next1(i) == IF i + 1 \in 1 .. Len(s) THEN s[i + 1] ELSE <<>>
            G == [p \in NonEmptyText \X Nat |-> p[1] \o Next1(p[2])]
<1>2. G \in [NonEmptyText \X Nat -> NonEmptyText]
  <2>1. \A i \in Nat : Next1(i) \in RawText
    BY <1>1 DEF NonEmptyText, RawText
  <2>. QED
    BY <2>1, LongerIsNonEmpty
<1>3. \A t \in NonEmptyText, i \in 1 .. Len(s) - 1 : G[<<t, i>>] = t \o s[i + 1]
  <2>. SUFFICES ASSUME NEW t \in NonEmptyText, NEW i \in 1 .. Len(s) - 1
                PROVE  G[<<t, i>>] = t \o s[i + 1]
    OBVIOUS
  <2>1. i \in Nat /\ i + 1 \in 1 .. Len(s)
    BY <1>1
  <2>2. <<t, i>> \in NonEmptyText \X Nat /\ Next1(i) = s[i + 1]
    BY <2>1
  <2>. HIDE DEF Next1
  <2>3. G[<<t, i>>] = t \o Next1(i)
    BY <2>2
  <2>. QED
    BY <2>2, <2>3
<1>. HIDE DEF G
<1>4. PICK g : IsRecursive(g, NonEmptyText, s[1], G, Len(s) - 1)
  <2>1. s[1] \in NonEmptyText
    BY <1>1
  <2>. QED
    BY <1>1, <1>2, <2>1, RecursionExists, Zenon
<1>. DEFINE h == [i \in 1 .. Len(s) |-> g[i - 1]]
<1>5. h = Extend(h)
  <2>. SUFFICES ASSUME NEW i \in 1 .. Len(s), i # 1
                PROVE  g[i - 1] = g[i - 1 - 1] \o s[i]
    BY <1>1, <1>4 DEF IsRecursive
  <2>. DEFINE j == i - 1
  <2>1. j \in 1 .. Len(s) - 1 /\ j - 1 \in 0 .. Len(s) - 1 /\ j + 1 = i
    BY <1>1
  <2>. HIDE DEF j
  <2>2. g[j] = G[<<g[j - 1], j>>] /\ g[j - 1] \in NonEmptyText
    BY <1>4, <2>1 DEF IsRecursive
  <2>3. g[j] = g[j - 1] \o s[j + 1]
    BY <1>3, <2>1, <2>2
  <2>. QED
    BY <2>1, <2>3 DEF j
<1>6. Beginnings(s) = Extend(Beginnings(s))
  <2>1. Beginnings(s) = CHOOSE v : v = Extend(v)
    BY Zenon DEF Beginnings
  <2>. QED
    BY <1>5, <2>1, Zenon
<1>. DEFINE B == Beginnings(s)
<1>7. FlattenSeq(s) = B[Len(s)]
  BY Zenon DEF FlattenSeq, Beginnings
<1>. HIDE DEF B
<1>8. B[1] = s[1]
  BY <1>1, <1>6 DEF B
<1>9. \A i \in 2 .. Len(s) : B[i] = B[i - 1] \o s[i]
  <2>. SUFFICES ASSUME NEW i \in 2 .. Len(s) PROVE B[i] = B[i - 1] \o s[i]
    OBVIOUS
  <2>1. i \in 1 .. Len(s) /\ i # 1
    BY <1>1
  <2>2. B[i] = Extend(B)[i]
    BY <1>6 DEF B
  <2>. QED
    BY <2>1, <2>2
<1>. HIDE DEF Extend
<1>. DEFINE T == {i \in 0 .. Len(s) - 1 : B[i + 1] \in NonEmptyText}
<1>10. ASSUME NEW i \in 0 .. Len(s) - 1 - 1, B[i + 1] \in NonEmptyText
       PROVE  B[i + 1 + 1] \in NonEmptyText
  <2>. DEFINE j == i + 1 + 1
  <2>1. j \in 2 .. Len(s) /\ j - 1 = i + 1 /\ j \in 1 .. Len(s)
    BY <1>1
  <2>. HIDE DEF j
  <2>2. B[j] = B[j - 1] \o s[j]
    BY <1>9, <2>1
  <2>3. s[j] \in RawText
    BY <1>1, <2>1 DEF NonEmptyText
  <2>4. B[j] \in NonEmptyText
    BY <1>10, <2>1, <2>2, <2>3, LongerIsNonEmpty
  <2>. QED
    BY <2>4 DEF j
<1>. HIDE DEF h, Next1
<1>11. 0 \in T /\ \A i \in 0 .. Len(s) - 1 - 1 : i \in T => i + 1 \in T
  <2>1. s[1] \in NonEmptyText /\ 0 \in 0 .. Len(s) - 1 /\ 0 + 1 = 1
    BY <1>1
  <2>2. 0 \in T
    BY <1>8, <2>1
  <2>3. ASSUME NEW i \in 0 .. Len(s) - 1 - 1, i \in T PROVE i + 1 \in T
    <3>1. i + 1 \in 0 .. Len(s) - 1
      BY <1>1
    <3>2. B[i + 1 + 1] \in NonEmptyText
      BY <1>10, <2>3
    <3>. QED
      BY <3>1, <3>2
  <2>. QED
    BY <2>2, <2>3
<1>12. \A i \in 0 .. Len(s) - 1 : i \in T
  BY <1>1, <1>11, IntervalInduction
<1>13. B[Len(s)] \in NonEmptyText
  <2>1. Len(s) - 1 \in 0 .. Len(s) - 1 /\ Len(s) - 1 + 1 = Len(s)
    BY <1>1
  <2>. QED
    BY <1>12, <2>1
<1>. QED
  BY <1>7, <1>8, <1>13

LEMMA TailOfJoined ==
  ASSUME NEW S, NEW c \in S, NEW t \in Seq(S)
  PROVE  Tail(<<c>> \o t) = t
<1>. DEFINE a == <<c>>
            u == a \o t
            v == Tail(u)
<1>1. a \in Seq(S) /\ Len(a) = 1
  OBVIOUS
<1>. HIDE DEF a
<1>2. /\ u \in Seq(S) /\ Len(t) \in Nat /\ Len(u) = 1 + Len(t)
      /\ \A i \in 1 .. Len(t) : u[1 + i] = t[i]
  BY <1>1, ConcatParts
<1>. HIDE DEF u
<1>3. /\ v \in Seq(S) /\ Len(v) = Len(t)
      /\ \A i \in 1 .. Len(t) : v[i] = u[1 + i]
  BY <1>2
<1>. HIDE DEF v
<1>4. v = t
  BY <1>2, <1>3, SeqEqual
<1>. QED
  BY <1>4 DEF v, u, a

\* A parameter is a text, and given once it is its occurrence, for both.
LEMMA TextOfParameter ==
  ASSUME NEW p \in Seq(RawText), NEW lang
  PROVE  /\ Text(lang, p) \in RawText
         /\ p = <<>> => Text(lang, p) = <<>>
         /\ Len(p) = 1 => Text(lang, p) = p[1]
<1>1. CASE p = <<>>
  BY <1>1 DEF Text, RawText
<1>2. CASE p # <<>> /\ lang = "go"
  BY <1>2 DEF Text
<1>3. CASE p # <<>> /\ lang # "go"
  <2>. DEFINE s == [i \in DOMAIN p |-> <<",">> \o p[i]]
  <2>1. Len(p) \in Nat /\ Len(p) # 0 /\ DOMAIN p = 1 .. Len(p)
        /\ \A i \in 1 .. Len(p) : p[i] \in RawText
    BY <1>3
  <2>2. <<",">> \in NonEmptyText
    <3>1. \A c \in Char : <<c>> \in Seq(Char) /\ <<c>> # <<>>
      OBVIOUS
    <3>2. "," \in Char
      BY ListRequestAssumption
    <3>. QED
      BY <3>1, <3>2, Zenon DEF NonEmptyText, RawText
  <2>3. \A i \in 1 .. Len(p) : s[i] \in NonEmptyText
    BY <2>1, <2>2, LongerIsNonEmpty
  <2>4. s \in Seq(NonEmptyText) /\ Len(s) = Len(p)
    <3>1. s = [i \in 1 .. Len(p) |-> s[i]]
      BY <2>1
    <3>. HIDE DEF s
    <3>2. s \in Seq(NonEmptyText)
      BY <2>1, <2>3, <3>1
    <3>. QED
      BY <2>1, <3>1, <3>2
  <2>5. Text(lang, p) = Tail(FlattenSeq(s))
    BY <1>3 DEF Text
  <2>6. ASSUME Len(p) = 1 PROVE s[1] = <<",">> \o p[1]
    <3>1. 1 \in DOMAIN p
      BY <2>1, <2>6
    <3>. QED
      BY <3>1
  <2>. HIDE DEF s
  <2>7. FlattenSeq(s) \in NonEmptyText
    BY <2>1, <2>4, FlattenedIsText
  <2>8. Tail(FlattenSeq(s)) \in RawText
    BY <2>7 DEF NonEmptyText, RawText
  <2>9. ASSUME Len(p) = 1 PROVE Tail(FlattenSeq(s)) = p[1]
    <3>1. FlattenSeq(s) = <<",">> \o p[1]
      <4>1. Len(s) = 1 /\ Len(s) # 0
        BY <2>4, <2>9
      <4>2. s[1] = <<",">> \o p[1]
        BY <2>6, <2>9, Zenon
      <4>. QED
        BY <2>4, <4>1, <4>2, FlattenedIsText, Zenon
    <3>2. p[1] \in Seq(Char)
      BY <2>1, <2>9 DEF RawText
    <3>. QED
      BY <3>1, <3>2, TailOfJoined, ListRequestAssumption
  <2>. QED
    BY <1>3, <2>5, <2>8, <2>9
<1>. QED
  BY <1>1, <1>2, <1>3

Unspaced(t) == " " \notin ToSet(t)

\* Trimming takes nothing but what surrounds a text, and a sign comes first.
LEMMA TrimmedText ==
  ASSUME NEW t \in RawText, NEW lang
  PROVE  /\ Trimmed(lang, t) \in RawText
         /\ Unspaced(t) => Trimmed(lang, t) = t
<1>. DEFINE inner == {i \in DOMAIN t : t[i] # " "}
<1>1. t \in Seq(Char) /\ Len(t) \in Nat /\ DOMAIN t = 1 .. Len(t)
  BY DEF RawText
<1>2. CASE lang = "go" \/ inner = {}
  BY <1>2 DEF Trimmed
<1>3. CASE ~(lang = "go" \/ inner = {})
  <2>. DEFINE m == Min(inner)  n == Max(inner)
  <2>1. Trimmed(lang, t) = SubSeq(t, m, n)
    BY <1>3 DEF Trimmed
  <2>2. /\ m \in inner /\ n \in inner
        /\ \A i \in inner : m <= i /\ i <= n
    BY <1>1, <1>3, FirstAndLast
  <2>3. m \in 1 .. Len(t) /\ n \in 1 .. Len(t)
    BY <1>1, <2>2
  <2>4. Unspaced(t) => inner = 1 .. Len(t)
    BY <1>1 DEF ToSet, Unspaced
  <2>. HIDE DEF m, n, inner
  <2>5. 1 \in 1 .. Len(t) /\ Len(t) \in 1 .. Len(t)
    BY <1>1, <2>3
  <2>6. SubSeq(t, m, n) \in Seq(Char)
    BY <1>1, <2>3, SubSeqProperties
  <2>7. ASSUME Unspaced(t) PROVE SubSeq(t, m, n) = t
    <3>1. m <= 1 /\ Len(t) <= n
      <4>1. 1 \in inner /\ Len(t) \in inner
        BY <2>4, <2>5, <2>7
      <4>. QED
        BY <2>2, <4>1
    <3>2. m = 1 /\ n = Len(t)
      <4>1. Len(t) \in Nat
        BY <1>1
      <4>. QED
        BY <2>3, <3>1, <4>1
    <3>. QED
      BY <1>1, <3>2
  <2>. QED
    BY <2>1, <2>6, <2>7 DEF RawText
<1>. QED
  BY <1>2, <1>3

LEMMA UnsignedText ==
  ASSUME NEW t \in RawText
  PROVE  Unsigned(t) \in RawText
BY DEF Unsigned, RawText

LEMMA DigitsHaveValue ==
  ASSUME NEW t \in RawText, NEW lang,
         ToSet(Unsigned(Trimmed(lang, t))) \subseteq Digits
  PROVE  /\ Unsigned(Trimmed(lang, t)) \in Seq(Digits)
         /\ Value(Unsigned(Trimmed(lang, t))) \in Nat
<1>. DEFINE d == Unsigned(Trimmed(lang, t))
<1>1. d \in Seq(Char) /\ ToSet(d) \subseteq Digits
  BY TrimmedText, UnsignedText DEF RawText
<1>. HIDE DEF d
<1>2. d \in Seq(Digits)
  <2>1. \A i \in 1 .. Len(d) : d[i] \in Digits
    BY <1>1 DEF ToSet
  <2>2. Len(d) \in Nat /\ d = [i \in 1 .. Len(d) |-> d[i]]
    BY <1>1
  <2>. QED
    BY <2>1, <2>2
<1>3. Value(d) \in Nat
  <2>1. Len(d) \in 0 .. Len(d)
    BY <1>2
  <2>. QED
    BY <1>2, <2>1, ValuesStep
<1>. QED
  BY <1>2, <1>3 DEF d

\* A raw value is one of the three words or the number of its digits, with its
\* sign.
LEMMA RawIsNumeral ==
  ASSUME NEW t \in RawText, NEW lang
  PROVE  \/ Raw(lang, t) \in {Absent, Blank, Word}
         \/ LET d == Unsigned(Trimmed(lang, t)) IN
            /\ d \in Seq(Digits)
            /\ Value(d) \in Nat
            /\ Raw(lang, t) \in {Value(d), -Value(d)}
<1>. DEFINE d == Unsigned(Trimmed(lang, t))
<1>. SUFFICES ASSUME Raw(lang, t) \notin {Absent, Blank, Word}
              PROVE  /\ d \in Seq(Digits)
                     /\ Value(d) \in Nat
                     /\ Raw(lang, t) \in {Value(d), -Value(d)}
  OBVIOUS
<1>1. ToSet(d) \subseteq Digits /\ Raw(lang, t) \in {Value(d), -Value(d)}
  BY DEF Raw
<1>. QED
  BY <1>1, DigitsHaveValue

\* An account that is not refused is written with digits, and what it denotes
\* says whether it was given: 0 when it was not.
LEMMA AcceptedAccount ==
  ASSUME NEW t \in RawText, NEW lang, ~AccountRefused(lang, t)
  PROVE  /\ Account(lang, t) \in Seq(Digits)
         /\ Given(lang, Raw(lang, t)) =>
              Value(Account(lang, t)) = Raw(lang, t) /\ Raw(lang, t) # 0
         /\ ~Given(lang, Raw(lang, t)) => Value(Account(lang, t)) = 0
<1>. DEFINE d == Unsigned(Trimmed(lang, t))
<1>1. CASE ~Given(lang, Raw(lang, t))
  <2>1. Account(lang, t) = NoAccount
    BY <1>1 DEF Account
  <2>2. <<"0">> \in Seq(Digits) /\ Len(<<"0">>) = 1 /\ <<"0">>[1] = "0"
    <3>1. "0" \in Digits
      BY ListRequestAssumption DEF Digits
    <3>. QED
      BY <3>1
  <2>3. Value(<<"0">>) = 0
    <3>. DEFINE z == <<"0">>
    <3>1. z \in Seq(Digits) /\ Len(z) = 1 /\ DigitValue[z[1]] = 0
      BY <2>2, ListRequestAssumption
    <3>. HIDE DEF z
    <3>2. /\ Values(z)[0] = 0
          /\ \A i \in 1 .. Len(z) :
               Values(z)[i] = 10 * Values(z)[i - 1] + DigitValue[z[i]]
          /\ Value(z) = Values(z)[Len(z)]
      BY <3>1, ValuesStep
    <3>3. 1 \in 1 .. Len(z) /\ 1 - 1 = 0
      BY <3>1
    <3>4. Values(z)[1] = 10 * Values(z)[0] + DigitValue[z[1]]
      BY <3>2, <3>3
    <3>5. Value(z) = 0
      BY <3>1, <3>2, <3>4
    <3>. QED
      BY <3>5 DEF z
  <2>. QED
    BY <1>1, <2>1, <2>2, <2>3 DEF NoAccount
<1>2. CASE Given(lang, Raw(lang, t))
  <2>1. /\ Raw(lang, t) \notin {Absent, Blank, Word}
        /\ Raw(lang, t) \in -LongHalf .. LongHalf - 1
        /\ ~(Raw(lang, t) <= 0)
    BY <1>2 DEF AccountRefused, Given, ParsesAsLong
  <2>2. /\ d \in Seq(Digits) /\ Value(d) \in Nat
        /\ Raw(lang, t) \in {Value(d), -Value(d)}
    BY <2>1, RawIsNumeral
  <2>. HIDE DEF d
  <2>3. Raw(lang, t) = Value(d) /\ Value(d) # 0
    BY <2>1, <2>2
  <2>4. Account(lang, t) = Canonical(d)
    BY <1>2, <2>3 DEF Account, d
  <2>. QED
    BY <1>2, <2>2, <2>3, <2>4, CanonicalValue
<1>. QED
  BY <1>1, <1>2

-----------------------------------------------------------------------------
(* Query strings.                                                          *)

LEMMA ParametersAreTexts ==
  ASSUME NEW q \in RawQueries, NEW lang
  PROVE  /\ q \in [account : Seq(RawText), status : Seq(RawText),
                    sort : Seq(RawText), limit : Seq(RawText)]
         /\ Text(lang, q.account) \in RawText
         /\ Text(lang, q.status) \in RawText
         /\ Text(lang, q.sort) \in RawText
         /\ Text(lang, q.limit) \in RawText
<1>1. q \in [account : Seq(RawText), status : Seq(RawText),
             sort : Seq(RawText), limit : Seq(RawText)]
  BY QueryAssumption
<1>. QED
  BY <1>1, TextOfParameter

LEMMA AcceptedSort ==
  ASSUME NEW t, NEW lang, ~SortRefused(lang, t)
  PROVE  Sort(lang, t) \in Sorts
<1>1. CASE SortGiven(lang, t)
  <2>1. PICK sort \in Sorts : t = <<sort>>
    BY <1>1, Zenon DEF SortRefused
  <2>2. Sort(lang, t) = sort
    BY <1>1, <2>1 DEF Sort
  <2>. QED
    BY <2>2
<1>2. CASE ~SortGiven(lang, t)
  BY <1>2 DEF Sort, Sorts
<1>. QED
  BY <1>1, <1>2

\* A query string that is not refused names a walk, with an account that is a
\* numeral.
LEMMA AcceptedQuery ==
  ASSUME NEW q \in RawQueries, NEW lang, Refusal(lang, q) = "ok"
  PROVE  Query(lang, q) \in Filters
<1>. DEFINE account == Account(lang, Text(lang, q.account))
            status  == Text(lang, q.status)
            sort    == Sort(lang, Text(lang, q.sort))
<1>1. /\ ~AccountRefused(lang, Text(lang, q.account))
      /\ ~SortRefused(lang, Text(lang, q.sort))
  BY DEF Refusal
<1>2. account \in Seq(Digits)
  BY <1>1, ParametersAreTexts, AcceptedAccount
<1>3. status \in Seq(Char)
  BY ParametersAreTexts DEF RawText
<1>4. sort \in Sorts
  BY <1>1, AcceptedSort
<1>5. Query(lang, q) = [account |-> account, status |-> status, sort |-> sort]
  BY Zenon DEF Query
<1>. HIDE DEF account, status, sort
<1>6. Digits \subseteq Char /\ \A c \in Digits : Lacks(<<c>>, "|") /\ c # "|"
  <2>1. DOMAIN DigitValue \subseteq Char /\ "|" \notin DOMAIN DigitValue
    BY ListRequestAssumption, Zenon
  <2>2. \A c \in Digits : c # "|"
    BY <2>1, Zenon DEF Digits
  <2>. QED
    BY <2>1, <2>2 DEF Digits, Lacks
<1>7. account \in Seq(Char) /\ \A i \in DOMAIN account : account[i] \in Digits
  BY <1>2, <1>6
<1>8. \A i \in DOMAIN account : account[i] # "|"
  BY <1>6, <1>7, Zenon
<1>. QED
  BY <1>3, <1>4, <1>5, <1>7, <1>8 DEF Filters

\* Two query strings that are accepted and name the same walk ask for the same.
LEMMA WalkTellsRequest ==
  ASSUME NEW q1 \in RawQueries, NEW lang1, Refusal(lang1, q1) = "ok",
         NEW q2 \in RawQueries, NEW lang2, Refusal(lang2, q2) = "ok",
         Query(lang1, q1) = Query(lang2, q2)
  PROVE  Asks(lang1, q1) = Asks(lang2, q2)
<1>. DEFINE Raw1 == Raw(lang1, Text(lang1, q1.account))
            Raw2 == Raw(lang2, Text(lang2, q2.account))
            A1   == Account(lang1, Text(lang1, q1.account))
            A2   == Account(lang2, Text(lang2, q2.account))
<1>1. /\ A1 = A2
      /\ Text(lang1, q1.status) = Text(lang2, q2.status)
      /\ Sort(lang1, Text(lang1, q1.sort)) = Sort(lang2, Text(lang2, q2.sort))
  BY DEF Query
<1>2. /\ Given(lang1, Raw1) => Value(A1) = Raw1 /\ Raw1 # 0
      /\ ~Given(lang1, Raw1) => Value(A1) = 0
  BY ParametersAreTexts, AcceptedAccount DEF Refusal
<1>3. /\ Given(lang2, Raw2) => Value(A2) = Raw2 /\ Raw2 # 0
      /\ ~Given(lang2, Raw2) => Value(A2) = 0
  BY ParametersAreTexts, AcceptedAccount DEF Refusal
<1>. HIDE DEF A1, A2
<1>4. (IF Given(lang1, Raw1) THEN <<Raw1>> ELSE <<>>)
        = (IF Given(lang2, Raw2) THEN <<Raw2>> ELSE <<>>)
  BY <1>1, <1>2, <1>3
<1>. QED
  BY <1>1, <1>4, Zenon DEF Asks

-----------------------------------------------------------------------------
(* Plain query strings are read alike.                                     *)

LEMMA UnspacedText ==
  ASSUME NEW t \in RawText, Unspaced(t)
  PROVE  /\ \A l1, l2 : Raw(l1, t) = Raw(l2, t)
         /\ \A lang : Raw(lang, t) # Blank
         /\ IsBlank(t) <=> t = <<>>
<1>1. IsBlank(t) <=> t = <<>>
  <2>1. t # <<>> => \E c : c \in ToSet(t)
    <3>. SUFFICES ASSUME t # <<>> PROVE t[1] \in ToSet(t)
      BY Zenon
    <3>. QED
      BY DEF RawText, ToSet
  <2>2. t = <<>> => ToSet(t) = {}
    BY DEF ToSet
  <2>3. IsBlank(t) => ToSet(t) = {}
    BY Zenon DEF IsBlank, Unspaced
  <2>4. ToSet(t) = {} => IsBlank(t)
    BY Zenon DEF IsBlank
  <2>. QED
    BY <2>1, <2>2, <2>3, <2>4, Zenon
<1>2. \A lang : Trimmed(lang, t) = t
  BY TrimmedText
<1>3. \A l1, l2 : Raw(l1, t) = Raw(l2, t)
  <2>. SUFFICES ASSUME NEW l1, NEW l2 PROVE Raw(l1, t) = Raw(l2, t)
    OBVIOUS
  <2>1. Trimmed(l1, t) = Trimmed(l2, t)
    BY <1>2
  <2>. QED
    BY <2>1 DEF Raw
<1>4. ASSUME NEW lang PROVE Raw(lang, t) # Blank
  <2>. DEFINE d == Unsigned(Trimmed(lang, t))
  <2>1. Blank \notin {Absent, Word} /\ Blank \notin Int
    BY ParametersAssumption
  <2>2. \/ Raw(lang, t) \in {Absent, Word}
        \/ ToSet(d) \subseteq Digits /\ Raw(lang, t) \in {Value(d), -Value(d)}
    BY <1>1 DEF Raw
  <2>3. ToSet(d) \subseteq Digits => Value(d) \in Nat
    BY DigitsHaveValue
  <2>. HIDE DEF d
  <2>. QED
    BY <2>1, <2>2, <2>3
<1>. QED
  BY <1>1, <1>3, <1>4

UnspacedParameter(p) == \A i \in DOMAIN p : Unspaced(p[i])

LEMMA SingleParameter ==
  ASSUME NEW p \in Seq(RawText), Len(p) <= 1, NEW l1, NEW l2
  PROVE  /\ Text(l1, p) = Text(l2, p)
         /\ UnspacedParameter(p) => Unspaced(Text(l1, p))
<1>1. CASE p = <<>>
  <2>1. Text(l1, p) = <<>> /\ Text(l2, p) = <<>>
    BY <1>1, TextOfParameter
  <2>2. Unspaced(<<>>)
    <3>1. ToSet(<<>>) = {}
      BY DEF ToSet
    <3>. QED
      BY <3>1, Zenon DEF Unspaced
  <2>. QED
    BY <2>1, <2>2
<1>2. CASE p # <<>>
  <2>1. Len(p) = 1 /\ 1 \in DOMAIN p
    <3>1. Len(p) \in Nat /\ Len(p) # 0 /\ DOMAIN p = 1 .. Len(p)
      BY <1>2
    <3>2. Len(p) = 1
      BY <3>1
    <3>. QED
      BY <3>1, <3>2
  <2>2. Text(l1, p) = p[1] /\ Text(l2, p) = p[1]
    BY <2>1, TextOfParameter
  <2>. QED
    BY <2>1, <2>2, Zenon DEF UnspacedParameter
<1>. QED
  BY <1>1, <1>2

\* A text without white space is read alike as a numeral and as a sort.
LEMMA UnspacedIsReadAlike ==
  ASSUME NEW t \in RawText, Unspaced(t), NEW l1, NEW l2
  PROVE  /\ Raw(l1, t) = Raw(l2, t)
         /\ Given(l1, Raw(l1, t)) <=> Given(l2, Raw(l2, t))
         /\ AccountRefused(l1, t) <=> AccountRefused(l2, t)
         /\ Account(l1, t) = Account(l2, t)
         /\ SortRefused(l1, t) <=> SortRefused(l2, t)
         /\ Sort(l1, t) = Sort(l2, t)
         /\ SizeRefused(l1, Raw(l1, t)) <=> SizeRefused(l2, Raw(l2, t))
         /\ PageSize(l1, Raw(l1, t)) = PageSize(l2, Raw(l2, t))
<1>1. Raw(l1, t) = Raw(l2, t) /\ Raw(l1, t) # Blank
  BY UnspacedText
<1>2. Given(l1, Raw(l1, t)) <=> Given(l2, Raw(l2, t))
  BY <1>1 DEF Given
<1>3. AccountRefused(l1, t) <=> AccountRefused(l2, t)
  BY <1>1, <1>2 DEF AccountRefused
<1>4. Account(l1, t) = Account(l2, t)
  <2>1. Trimmed(l1, t) = t /\ Trimmed(l2, t) = t
    BY TrimmedText
  <2>. QED
    BY <1>1, <1>2, <2>1 DEF Account
<1>5. SortGiven(l1, t) <=> SortGiven(l2, t)
  BY UnspacedText DEF SortGiven
<1>6. SortRefused(l1, t) <=> SortRefused(l2, t)
  BY <1>5, Zenon DEF SortRefused
<1>7. Sort(l1, t) = Sort(l2, t)
  BY <1>5 DEF Sort
<1>8. SizeRefused(l1, Raw(l1, t)) <=> SizeRefused(l2, Raw(l2, t))
  BY <1>1, <1>2 DEF SizeRefused
<1>9. PageSize(l1, Raw(l1, t)) = PageSize(l2, Raw(l2, t))
  BY <1>1, <1>2 DEF PageSize
<1>. QED
  BY <1>1, <1>2, <1>3, <1>4, <1>6, <1>7, <1>8, <1>9

\* Both implementations make the same of a plain query string.
LEMMA PlainIsReadAlike ==
  ASSUME NEW q \in RawQueries, Plain(q), NEW l1, NEW l2
  PROVE  /\ Query(l1, q) = Query(l2, q)
         /\ Refusal(l1, q) = Refusal(l2, q)
         /\ Limit(l1, q) = Limit(l2, q)
<1>1. /\ q.account \in Seq(RawText) /\ q.status \in Seq(RawText)
      /\ q.sort \in Seq(RawText) /\ q.limit \in Seq(RawText)
      /\ DOMAIN q = {"account", "status", "sort", "limit"}
      /\ q["account"] = q.account /\ q["status"] = q.status
      /\ q["sort"] = q.sort /\ q["limit"] = q.limit
  BY QueryAssumption
<1>2. /\ Len(q.account) <= 1 /\ Len(q.status) <= 1
      /\ Len(q.sort) <= 1 /\ Len(q.limit) <= 1
  <2>1. \A name \in DOMAIN q : Len(q[name]) <= 1
    BY Zenon DEF Plain
  <2>. QED
    BY <1>1, <2>1
<1>3. /\ UnspacedParameter(q.account)
      /\ UnspacedParameter(q.sort)
      /\ UnspacedParameter(q.limit)
  <2>1. \A name \in {"account", "sort", "limit"} : UnspacedParameter(q[name])
    BY Zenon DEF Plain, UnspacedParameter, Unspaced
  <2>. QED
    BY <1>1, <2>1
<1>4. Text(l1, q.status) = Text(l2, q.status)
  BY <1>1, <1>2, SingleParameter
<1>. DEFINE a == Text(l1, q.account)  o == Text(l1, q.sort)  n == Text(l1, q.limit)
<1>5. /\ Text(l2, q.account) = a /\ Unspaced(a) /\ a \in RawText
      /\ Text(l2, q.sort) = o /\ Unspaced(o) /\ o \in RawText
      /\ Text(l2, q.limit) = n /\ Unspaced(n) /\ n \in RawText
  <2>1. a \in RawText /\ o \in RawText /\ n \in RawText
    BY <1>1, TextOfParameter
  <2>2. Text(l2, q.account) = a /\ Unspaced(a)
    BY <1>1, <1>2, <1>3, SingleParameter
  <2>3. Text(l2, q.sort) = o /\ Unspaced(o)
    BY <1>1, <1>2, <1>3, SingleParameter
  <2>4. Text(l2, q.limit) = n /\ Unspaced(n)
    BY <1>1, <1>2, <1>3, SingleParameter
  <2>. QED
    BY <2>1, <2>2, <2>3, <2>4
<1>6. Query(l1, q) = Query(l2, q)
  <2>1. Account(l1, a) = Account(l2, a) /\ Sort(l1, o) = Sort(l2, o)
    BY <1>5, UnspacedIsReadAlike
  <2>. HIDE DEF a, o
  <2>. QED
    BY <1>4, <1>5, <2>1 DEF Query, a, o
<1>7. Refusal(l1, q) = Refusal(l2, q)
  <2>1. /\ AccountRefused(l1, a) <=> AccountRefused(l2, a)
        /\ SortRefused(l1, o) <=> SortRefused(l2, o)
        /\ SizeRefused(l1, Raw(l1, n)) <=> SizeRefused(l2, Raw(l2, n))
    BY <1>5, UnspacedIsReadAlike
  <2>2. /\ SizeRefused(l1, LimitText(l1, q)) <=> SizeRefused(l2, LimitText(l2, q))
        /\ AccountRefused(l1, Text(l1, q.account))
             <=> AccountRefused(l2, Text(l2, q.account))
        /\ SortRefused(l1, Text(l1, q.sort)) <=> SortRefused(l2, Text(l2, q.sort))
    BY <1>5, <2>1 DEF LimitText
  <2>. QED
    BY <2>2 DEF Refusal
<1>8. PageSize(l1, LimitText(l1, q)) = PageSize(l2, LimitText(l2, q))
  BY <1>5, UnspacedIsReadAlike DEF LimitText
<1>9. Limit(l1, q) = Limit(l2, q)
  BY <1>7, <1>8 DEF Limit
<1>. QED
  BY <1>6, <1>7, <1>9

-----------------------------------------------------------------------------
(* The inductive invariant: a token in circulation was signed for the walk *)
(* its request names, and an answer is what the code makes of its request. *)

IsOfRequest(x) ==
  /\ x.lang \in Languages /\ x.raw \in RawQueries
  /\ Refusal(x.lang, x.raw) = "ok"
  /\ \E r \in Rows : x.token = Signed(x.lang, r, Query(x.lang, x.raw), 0, Key)

IsAnswer(a) ==
  /\ a.lang \in Languages /\ a.raw \in RawQueries /\ a.cursor \in Cursors
  /\ a.outcome = Outcome(a.lang, a.raw, a.cursor, Key, 0)
  /\ a.size = Limit(a.lang, a.raw)

Inv ==
  /\ \A x \in issued : IsOfRequest(x)
  /\ \A a \in answer : IsAnswer(a)

LEMMA CursorsGrow ==
  ASSUME issued \subseteq issued'
  PROVE  Cursors \subseteq Cursors'
BY DEF Cursors

LEMMA OkIsNotRefused ==
  ASSUME NEW lang, NEW q, NEW cursor, Outcome(lang, q, cursor, Key, 0) = "ok"
  PROVE  Refusal(lang, q) = "ok"
BY DEF Outcome

LEMMA AnswerIsHandled ==
  ASSUME NEW lang \in Languages, NEW q \in RawQueries, NEW cursor \in Cursors,
         Handle(lang, q, cursor), Cursors \subseteq Cursors'
  PROVE  \A a \in answer' : IsAnswer(a)'
<1>. SUFFICES ASSUME NEW a \in answer' PROVE IsAnswer(a)'
  OBVIOUS
<1>1. a = [lang |-> lang, raw |-> q, cursor |-> cursor,
           outcome |-> Outcome(lang, q, cursor, Key, 0),
           size |-> Limit(lang, q)]
  BY DEF Handle
<1>. QED
  BY <1>1 DEF IsAnswer

LEMMA ExchangeStep ==
  ASSUME Inv, [Next]_vars
  PROVE  Inv'
<1>1. ASSUME NEW lang \in Languages, NEW q \in RawQueries,
             NEW cursor \in Cursors, Serve(lang, q, cursor)
      PROVE  Inv'
  <2>1. issued' = issued /\ Handle(lang, q, cursor)
    BY <1>1 DEF Serve
  <2>2. Cursors \subseteq Cursors'
    BY <2>1, CursorsGrow
  <2>3. \A a \in answer' : IsAnswer(a)'
    BY <2>1, <2>2, AnswerIsHandled
  <2>4. \A x \in issued' : IsOfRequest(x)'
    BY <2>1 DEF Inv, IsOfRequest
  <2>. QED
    BY <2>3, <2>4 DEF Inv
<1>2. ASSUME NEW lang \in Languages, NEW q \in RawQueries,
             NEW cursor \in Cursors, NEW r \in Rows,
             ServeWithNext(lang, q, cursor, r)
      PROVE  Inv'
  <2>. DEFINE x == [token |-> Signed(lang, r, Query(lang, q), 0, Key),
                    lang |-> lang, raw |-> q]
  <2>1. issued' = issued \cup {x} /\ Handle(lang, q, cursor)
    BY <1>2 DEF ServeWithNext, Signed
  <2>2. Refusal(lang, q) = "ok"
    BY <1>2, OkIsNotRefused DEF ServeWithNext
  <2>3. Cursors \subseteq Cursors'
    BY <2>1, CursorsGrow
  <2>4. \A a \in answer' : IsAnswer(a)'
    BY <2>1, <2>3, AnswerIsHandled
  <2>5. IsOfRequest(x)'
    BY <2>2 DEF IsOfRequest
  <2>. HIDE DEF x
  <2>6. \A y \in issued' : IsOfRequest(y)'
    BY <2>1, <2>5 DEF Inv, IsOfRequest
  <2>. QED
    BY <2>4, <2>6 DEF Inv
<1>3. CASE Deliver
  BY <1>3 DEF Deliver, Inv, IsOfRequest
<1>4. CASE UNCHANGED vars
  BY <1>4 DEF vars, Inv, IsOfRequest, IsAnswer, Cursors
<1>. QED
  BY <1>1, <1>2, <1>3, <1>4 DEF Next

LEMMA ExchangeSafe == Spec => []Inv
<1>1. Init => Inv
  BY DEF Init, Inv
<1>2. Inv /\ [Next]_vars => Inv'
  BY ExchangeStep
<1>. QED
  BY <1>1, <1>2, PTL DEF Spec

-----------------------------------------------------------------------------
(* What a token in circulation is worth.                                   *)

LEMMA IssuedIsReadable ==
  ASSUME NEW x, IsOfRequest(x)
  PROVE  /\ x.token \notin {NoCursor, Garbage, Blank}
         /\ x.token \in Tokens({Key}) /\ x.token.wire = "plain"
         /\ \A lang : DecodeAt(lang, x.token, Key, 0) = "ok"
         /\ x.token.payload.f = Fingerprint(Query(x.lang, x.raw))
         /\ x.token.payload.d = Descending(Query(x.lang, x.raw).sort)
<1>. DEFINE q == Query(x.lang, x.raw)
<1>1. PICK r \in Rows : x.token = Signed(x.lang, r, q, 0, Key)
  BY DEF IsOfRequest
<1>2. /\ r.id \in Nat /\ r.at \in Nat /\ r.at < Year10000 /\ r.at % Micro = 0
  BY QueryAssumption, CodecAssumption
<1>3. q \in Filters
  BY AcceptedQuery DEF IsOfRequest
<1>. HIDE DEF q
<1>4. x.token \in Tokens({Key})
  <2>1. Key \in {Key} /\ 0 \in Nat
    OBVIOUS
  <2>. QED
    BY <1>1, <1>2, <1>3, <2>1, SignedIsWellFormed
<1>5. x.token \notin {NoCursor, Garbage, Blank}
  BY <1>4, QueryAssumption, Zenon
<1>. DEFINE p == Payload(x.lang, r, Descending(q.sort), Fingerprint(q), 0)
<1>6. /\ x.token.payload = p /\ x.token.mac = Sign(Key, p)
      /\ x.token.wire = "plain"
  BY <1>1 DEF Signed, Encode
<1>7. /\ p.v = Version /\ p.c.style = "yyyy" /\ p.t = 0
      /\ p.f = Fingerprint(q) /\ p.d = Descending(q.sort)
  <2>1. Unix(0) = 0
    BY CodecAssumption DEF Unix
  <2>2. FormatTime(x.lang, r.at).style = "yyyy"
    BY <1>2 DEF FormatTime
  <2>. QED
    BY <2>1, <2>2 DEF Payload
<1>. HIDE DEF p
<1>8. ASSUME NEW lang PROVE DecodeAt(lang, x.token, Key, 0) = "ok"
  <2>1. Authentic(lang, x.token, Key)
    BY <1>5, <1>6 DEF Authentic, Decodes
  <2>2. Readable(lang, x.token.payload)
    BY <1>6, <1>7 DEF Readable, ParsesTime
  <2>3. ~Expired(lang, x.token.payload, 0)
    BY <1>6, <1>7, CodecAssumption DEF Expired
  <2>. QED
    BY <2>1, <2>2, <2>3 DEF DecodeAt
<1>. QED
  BY <1>4, <1>5, <1>6, <1>7, <1>8 DEF q

\* Another form of a token is not its encoders' form, and is accepted only
\* where the token is.
LEMMA RewrittenVerdict ==
  ASSUME NEW x, IsOfRequest(x), NEW t \in Rewritten(x.token), NEW lang, NEW q
  PROVE  /\ t \notin {NoCursor, Garbage, Blank}
         /\ t.wire = "plain" => t = x.token
         /\ Verdict(lang, t, Key, 0, q) = "ok"
              => Verdict(lang, x.token, Key, 0, q) = "ok"
<1>1. /\ x.token \in Tokens({Key}) /\ x.token.wire = "plain"
      /\ DecodeAt(lang, x.token, Key, 0) = "ok"
  BY IssuedIsReadable
<1>2. PICK w \in Wires : t = [x.token EXCEPT !.wire = w]
  BY DEF Rewritten
<1>3. /\ t \in Tokens({Key})
      /\ t.payload = x.token.payload
      /\ t.wire = "plain" => t = x.token
  BY <1>1, <1>2 DEF Tokens
<1>4. t \notin {NoCursor, Garbage, Blank}
  BY <1>3, QueryAssumption, Zenon
<1>5. Verdict(lang, t, Key, 0, q) = "ok"
        => Verdict(lang, x.token, Key, 0, q) = "ok"
  BY <1>1, <1>3 DEF Verdict
<1>. QED
  BY <1>3, <1>4, <1>5

\* A token is good for its own walk and a mismatch for any other, in both
\* implementations: their different refusals of a direction are never reached.
LEMMA IssuedVerdict ==
  ASSUME NEW x, IsOfRequest(x), NEW lang, NEW q \in Filters
  PROVE  Verdict(lang, x.token, Key, 0, q)
           = IF Query(x.lang, x.raw) = q THEN "ok" ELSE "cursor_filter_mismatch"
<1>. DEFINE own == Query(x.lang, x.raw)
<1>1. /\ DecodeAt(lang, x.token, Key, 0) = "ok"
      /\ x.token.payload.f = Fingerprint(own)
      /\ x.token.payload.d = Descending(own.sort)
  BY IssuedIsReadable
<1>2. own \in Filters
  BY AcceptedQuery DEF IsOfRequest
<1>. HIDE DEF own
<1>3. own # q => Fingerprint(own) # Fingerprint(q)
  BY <1>2, FingerprintIsInjective
<1>4. CASE own = q
  BY <1>1, <1>4 DEF Verdict, own
<1>5. CASE own # q
  BY <1>1, <1>3, <1>5 DEF Verdict, own
<1>. QED
  BY <1>4, <1>5

\* What becomes of a request that brings the token of one page.
LEMMA OutcomeWithToken ==
  ASSUME NEW x, IsOfRequest(x), NEW lang, NEW q \in RawQueries
  PROVE  Outcome(lang, q, <<x.token>>, Key, 0)
           = IF Refusal(lang, q) # "ok" THEN Refusal(lang, q)
             ELSE IF Query(x.lang, x.raw) = Query(lang, q) THEN "ok"
             ELSE "cursor_filter_mismatch"
<1>. DEFINE token == x.token
<1>1. token \notin {NoCursor, Garbage, Blank}
  BY IssuedIsReadable
<1>2. CursorText(lang, <<token>>) = token
  <2>. HIDE DEF token
  <2>. QED
    BY <1>1 DEF CursorText
<1>3. CASE Refusal(lang, q) # "ok"
  BY <1>3 DEF Outcome
<1>4. CASE Refusal(lang, q) = "ok"
  <2>1. Query(lang, q) \in Filters
    BY <1>4, AcceptedQuery
  <2>2. Verdict(lang, token, Key, 0, Query(lang, q))
          = IF Query(x.lang, x.raw) = Query(lang, q) THEN "ok"
            ELSE "cursor_filter_mismatch"
    BY <2>1, IssuedVerdict
  <2>. QED
    BY <1>1, <1>2, <1>4, <2>2 DEF Outcome
<1>. QED
  BY <1>3, <1>4

-----------------------------------------------------------------------------
(* The three properties hold in every state of the invariant.              *)

LEMMA SameStringIsAccepted ==
  ASSUME Inv
  PROVE  SameStringSameWalk
<1>. SUFFICES ASSUME NEW a \in answer, NEW x \in issued, a.cursor = <<x.token>>,
                     a.lang = x.lang \/ Plain(a.raw), SameWalk(a.raw, x.raw)
              PROVE  a.outcome \in {"ok", "invalid_limit"}
  BY DEF SameStringSameWalk, Origins
<1>1. IsAnswer(a) /\ IsOfRequest(x)
  BY DEF Inv
<1>2. a.raw \in RawQueries /\ x.raw \in RawQueries
  BY <1>1 DEF IsAnswer, IsOfRequest
<1>. DEFINE q == a.raw  o == x.raw
<1>3. q.account = o.account /\ q.status = o.status /\ q.sort = o.sort
  <2>1. /\ q \in [account : Seq(RawText), status : Seq(RawText),
                  sort : Seq(RawText), limit : Seq(RawText)]
        /\ o \in [account : Seq(RawText), status : Seq(RawText),
                  sort : Seq(RawText), limit : Seq(RawText)]
    BY <1>2, QueryAssumption
  <2>2. [q EXCEPT !.limit = <<>>] = [o EXCEPT !.limit = <<>>]
    BY DEF SameWalk
  <2>. HIDE DEF q, o
  <2>3. /\ [q EXCEPT !.limit = <<>>].account = q.account
        /\ [q EXCEPT !.limit = <<>>].status = q.status
        /\ [q EXCEPT !.limit = <<>>].sort = q.sort
    BY <2>1
  <2>4. /\ [o EXCEPT !.limit = <<>>].account = o.account
        /\ [o EXCEPT !.limit = <<>>].status = o.status
        /\ [o EXCEPT !.limit = <<>>].sort = o.sort
    BY <2>1
  <2>. QED
    BY <2>2, <2>3, <2>4
<1>4. Query(x.lang, o) = Query(a.lang, q)
  <2>1. Query(x.lang, q) = Query(a.lang, q)
    BY <1>1, <1>2, PlainIsReadAlike DEF IsAnswer, IsOfRequest
  <2>2. Query(x.lang, q) = Query(x.lang, o)
    BY <1>3 DEF Query
  <2>. QED
    BY <2>1, <2>2
<1>5. Refusal(a.lang, q) \in {"ok", "invalid_limit"}
  <2>1. /\ ~AccountRefused(x.lang, Text(x.lang, o.account))
        /\ ~SortRefused(x.lang, Text(x.lang, o.sort))
    BY <1>1 DEF IsOfRequest, Refusal
  <2>2. Refusal(x.lang, q) \in {"ok", "invalid_limit"}
    BY <1>3, <2>1 DEF Refusal
  <2>3. Refusal(x.lang, q) = Refusal(a.lang, q)
    BY <1>2, PlainIsReadAlike
  <2>. QED
    BY <2>2, <2>3
<1>6. a.outcome = Outcome(a.lang, q, <<x.token>>, Key, 0)
  BY <1>1 DEF IsAnswer
<1>. QED
  BY <1>1, <1>2, <1>4, <1>5, <1>6, OutcomeWithToken

LEMMA AcceptedIsAskedFor ==
  ASSUME Inv
  PROVE  TokenTellsRequestsApart
<1>. SUFFICES ASSUME NEW a \in answer, NEW x \in issued,
                     NEW t \in Rewritten(x.token), a.cursor = <<t>>,
                     a.outcome = "ok"
              PROVE  Asks(a.lang, a.raw) = Asks(x.lang, x.raw)
  BY DEF TokenTellsRequestsApart, Origins
<1>1. IsAnswer(a) /\ IsOfRequest(x)
  BY DEF Inv
<1>2. /\ a.raw \in RawQueries /\ x.raw \in RawQueries
      /\ Outcome(a.lang, a.raw, <<t>>, Key, 0) = "ok"
      /\ Refusal(x.lang, x.raw) = "ok"
  BY <1>1 DEF IsAnswer, IsOfRequest
<1>3. Refusal(a.lang, a.raw) = "ok"
  BY <1>2, OkIsNotRefused
<1>4. Query(x.lang, x.raw) = Query(a.lang, a.raw)
  <2>. DEFINE q == Query(a.lang, a.raw)
  <2>1. CursorText(a.lang, <<t>>) = t
    BY <1>1, RewrittenVerdict DEF CursorText
  <2>2. Verdict(a.lang, t, Key, 0, q) = "ok"
    BY <1>1, <1>2, <1>3, <2>1, RewrittenVerdict DEF Outcome
  <2>3. Verdict(a.lang, x.token, Key, 0, q) = "ok"
    BY <1>1, <2>2, RewrittenVerdict
  <2>4. q \in Filters
    BY <1>2, <1>3, AcceptedQuery
  <2>. QED
    BY <1>1, <2>3, <2>4, IssuedVerdict
<1>. QED
  BY <1>2, <1>3, <1>4, WalkTellsRequest

LEMMA TwinsAnswerAlike ==
  ASSUME Inv
  PROVE  TwinsReadAlike
<1>. SUFFICES ASSUME NEW a \in answer, NEW lang \in Languages,
                     Plain(a.raw), PlainCursor(a.cursor)
              PROVE  /\ Outcome(lang, a.raw, a.cursor, Key, 0) = a.outcome
                     /\ Limit(lang, a.raw) = a.size
  BY DEF TwinsReadAlike
<1>1. /\ a.raw \in RawQueries /\ a.cursor \in Cursors
      /\ a.outcome = Outcome(a.lang, a.raw, a.cursor, Key, 0)
      /\ a.size = Limit(a.lang, a.raw)
  BY DEF Inv, IsAnswer
<1>2. /\ Refusal(lang, a.raw) = Refusal(a.lang, a.raw)
      /\ Query(lang, a.raw) = Query(a.lang, a.raw)
      /\ Limit(lang, a.raw) = Limit(a.lang, a.raw)
  BY <1>1, PlainIsReadAlike
<1>3. CASE a.cursor = <<>>
  <2>1. CursorText(lang, <<>>) = NoCursor /\ CursorText(a.lang, <<>>) = NoCursor
    BY QueryAssumption DEF CursorText
  <2>. QED
    BY <1>1, <1>2, <1>3, <2>1 DEF Outcome
<1>4. CASE a.cursor = <<Garbage>>
  <2>1. /\ CursorText(lang, <<Garbage>>) = Garbage
        /\ CursorText(a.lang, <<Garbage>>) = Garbage
    BY QueryAssumption DEF CursorText
  <2>2. \A l, q : Verdict(l, Garbage, Key, 0, q) = "invalid_cursor"
    BY DEF Verdict, DecodeAt, Authentic, Decodes
  <2>. QED
    BY <1>1, <1>2, <1>4, <2>1, <2>2 DEF Outcome
<1>5. CASE \E x \in issued : a.cursor = <<x.token>>
  <2>1. PICK x \in issued : a.cursor = <<x.token>>
    BY <1>5
  <2>2. IsOfRequest(x)
    BY DEF Inv
  <2>3. Outcome(lang, a.raw, <<x.token>>, Key, 0)
          = Outcome(a.lang, a.raw, <<x.token>>, Key, 0)
    BY <1>1, <1>2, <2>2, OutcomeWithToken
  <2>. QED
    BY <1>1, <1>2, <2>1, <2>3
<1>6. \/ a.cursor = <<>> \/ a.cursor = <<Garbage>>
      \/ \E x \in issued : a.cursor = <<x.token>>
  <2>1. ASSUME NEW t, a.cursor = <<t, t>> PROVE FALSE
    <3>. USE DEF PlainCursor
    <3>1. Len(<<t, t>>) = 2
      OBVIOUS
    <3>2. Len(a.cursor) = 2
      BY <2>1, <3>1, Zenon
    <3>. QED
      BY <3>2
  <2>2. ASSUME NEW x \in issued, NEW t \in Rewritten(x.token), a.cursor = <<t>>
        PROVE  a.cursor = <<x.token>>
    <3>1. IsOfRequest(x)
      BY DEF Inv
    <3>2. t # Garbage /\ t.wire = "plain" => t = x.token
      BY <3>1, RewrittenVerdict
    <3>3. 1 \in DOMAIN a.cursor /\ a.cursor[1] = t
      BY <2>2
    <3>. QED
      BY <2>2, <3>1, <3>2, <3>3, RewrittenVerdict DEF PlainCursor
  <2>3. a.cursor # <<Blank>>
    BY DEF PlainCursor
  <2>4. \/ a.cursor \in {<<>>, <<Blank>>, <<Garbage>>}
        \/ \E x \in issued : \E t \in Rewritten(x.token) : a.cursor = <<t>>
        \/ \E x \in issued : a.cursor = <<x.token, x.token>>
    BY <1>1 DEF Cursors
  <2>. QED
    BY <2>1, <2>2, <2>3, <2>4
<1>. QED
  BY <1>1, <1>2, <1>3, <1>4, <1>5, <1>6

\* A client that keeps its query string and moves its cursor forward is never
\* told that it changed its filters: by the implementation that gave it the
\* cursor whatever the string, by the other one when the string is plain.
THEOREM SameStringIsSameWalk == Spec => []SameStringSameWalk
<1>1. Inv => SameStringSameWalk
  BY SameStringIsAccepted
<1>. QED
  BY <1>1, ExchangeSafe, PTL

\* Whatever the two query strings look like, a token is accepted only with one
\* that asks for the walk it came from: the same account, or none.
THEOREM TokenIsOfOneRequest == Spec => []TokenTellsRequestsApart
<1>1. Inv => TokenTellsRequestsApart
  BY AcceptedIsAskedFor
<1>. QED
  BY <1>1, ExchangeSafe, PTL

\* A plain request has one answer, whichever implementation is asked.
THEOREM PlainRequestsHaveOneAnswer == Spec => []TwinsReadAlike
<1>1. Inv => TwinsReadAlike
  BY TwinsAnswerAlike
<1>. QED
  BY <1>1, ExchangeSafe, PTL

=============================================================================
