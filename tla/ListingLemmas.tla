--------------------------- MODULE ListingLemmas ---------------------------
(***************************************************************************)
(* What the proofs about the listings need to know of the order of the     *)
(* table and of LIMIT, for every finite set of rows, and of the codec, for *)
(* every text, every instant and every unit of time.                       *)
(***************************************************************************)
EXTENDS TransactionTable, CursorCodec, FiniteSetTheorems,
        WellFoundedInduction, SequenceTheorems, TLAPS

\* Rows with integer sort keys, of which the id is unique.
Ordered(S) ==
  /\ \A r \in S : r.at \in Int /\ r.id \in Int
  /\ \A r, s \in S : r.id = s.id => r = s

\* Every non-empty set of naturals has a least element.
LEMMA LeastNat ==
  ASSUME NEW T \in SUBSET Nat, T # {}
  PROVE  \E m \in T : \A n \in T : m <= n
<1>1. PICK m \in T : \A n \in T : <<n, m>> \notin OpToRel(<, Nat)
  BY NatLessThanWellFounded, WFMin, Zenon
<1>2. \A n \in T : ~(n < m)
  BY <1>1 DEF OpToRel
<1>. QED
  BY <1>2

\* Before is a strict total order on rows in both directions, and the two
\* directions mirror each other.
LEMMA BeforeIsStrict ==
  ASSUME NEW S, Ordered(S), NEW desc \in BOOLEAN
  PROVE  /\ \A a \in S : ~Before(desc, a, a)
         /\ \A a, b, c \in S :
              Before(desc, a, b) /\ Before(desc, b, c) => Before(desc, a, c)
         /\ \A a, b \in S : ~Before(desc, b, a) => a = b \/ Before(desc, a, b)
BY DEF Ordered, Before

LEMMA BeforeMirrors ==
  ASSUME NEW S, Ordered(S)
  PROVE  /\ \A a, b \in S : Before(TRUE, a, b) => Before(FALSE, b, a)
         /\ \A a, b \in S : Before(FALSE, a, b) => Before(TRUE, b, a)
BY DEF Ordered, Before

\* A subset of ordered rows is ordered.
LEMMA OrderedSubset ==
  ASSUME NEW S, Ordered(S), NEW T \in SUBSET S
  PROVE  Ordered(T)
BY DEF Ordered

\* The rank of a row is a natural number, and it grows along the order.
LEMMA RankGrows ==
  ASSUME NEW S, IsFiniteSet(S), Ordered(S), NEW desc \in BOOLEAN
  PROVE  /\ \A r \in S : Rank(S, desc, r) \in Nat
         /\ \A r, s \in S :
              Before(desc, s, r) => Rank(S, desc, s) < Rank(S, desc, r)
<1>. DEFINE Ahead(r) == {x \in S : Before(desc, x, r)}
<1>1. ASSUME NEW r \in S
      PROVE  IsFiniteSet(Ahead(r)) /\ Cardinality(Ahead(r)) \in Nat
  <2>1. Ahead(r) \in SUBSET S
    OBVIOUS
  <2>2. IsFiniteSet(Ahead(r))
    BY <2>1, FS_Subset, Zenon
  <2>. QED
    BY <2>2, FS_CardinalityType, Zenon
<1>2. ASSUME NEW r \in S, NEW s \in S, Before(desc, s, r)
      PROVE  Cardinality(Ahead(s)) < Cardinality(Ahead(r))
  <2>1. Ahead(s) \in SUBSET Ahead(r)
    BY <1>2, BeforeIsStrict
  <2>2. s \in Ahead(r) /\ s \notin Ahead(s)
    BY <1>2, BeforeIsStrict, Zenon
  <2>3. Cardinality(Ahead(s)) <= Cardinality(Ahead(r))
    BY <2>1, <1>1, FS_Subset, Zenon
  <2>4. Cardinality(Ahead(s)) # Cardinality(Ahead(r))
    BY <2>1, <2>2, <1>1, FS_Subset, Zenon
  <2>5. Cardinality(Ahead(s)) \in Nat /\ Cardinality(Ahead(r)) \in Nat
    BY <1>1
  <2>. QED
    BY <2>3, <2>4, <2>5
<1>. QED
  BY <1>1, <1>2 DEF Rank

\* A non-empty result set has a first row and a last row.
LEMMA FirstExists ==
  ASSUME NEW S, IsFiniteSet(S), Ordered(S), S # {}, NEW desc \in BOOLEAN
  PROVE  \E r \in S : \A s \in S : s = r \/ Before(desc, r, s)
<1>. DEFINE Ranks == {Rank(S, desc, r) : r \in S}
<1>1. Ranks \in SUBSET Nat /\ Ranks # {}
  BY RankGrows
<1>2. PICK m \in Ranks : \A n \in Ranks : m <= n
  BY <1>1, LeastNat, Zenon
<1>3. PICK r \in S : m = Rank(S, desc, r)
  BY <1>2
<1>4. \A s \in S : ~Before(desc, s, r)
  <2>. SUFFICES ASSUME NEW s \in S, Before(desc, s, r) PROVE FALSE
    OBVIOUS
  <2>1. Rank(S, desc, s) < Rank(S, desc, r)
    BY RankGrows
  <2>2. Rank(S, desc, r) <= Rank(S, desc, s)
    BY <1>2, <1>3
  <2>3. Rank(S, desc, r) \in Nat /\ Rank(S, desc, s) \in Nat
    BY RankGrows
  <2>. QED
    BY <2>1, <2>2, <2>3
<1>5. \A s \in S : s = r \/ Before(desc, r, s)
  BY <1>4, BeforeIsStrict
<1>. QED
  BY <1>5, Zenon

LEMMA LastExists ==
  ASSUME NEW S, IsFiniteSet(S), Ordered(S), S # {}, NEW desc \in BOOLEAN
  PROVE  /\ LastOf(S, desc) \in S
         /\ \A s \in S : s = LastOf(S, desc) \/ Before(desc, s, LastOf(S, desc))
<1>1. \E r \in S : \A s \in S : s = r \/ Before(desc, s, r)
  <2>1. CASE desc = TRUE
    <3>1. PICK r \in S : \A s \in S : s = r \/ Before(FALSE, r, s)
      BY FirstExists, Zenon
    <3>2. \A s \in S : s = r \/ Before(TRUE, s, r)
      BY <3>1, BeforeMirrors, Zenon
    <3>. QED
      BY <2>1, <3>2, Zenon
  <2>2. CASE desc = FALSE
    <3>1. PICK r \in S : \A s \in S : s = r \/ Before(TRUE, r, s)
      BY FirstExists, Zenon
    <3>2. \A s \in S : s = r \/ Before(FALSE, s, r)
      BY <3>1, BeforeMirrors, Zenon
    <3>. QED
      BY <2>2, <3>2, Zenon
  <2>. QED
    BY <2>1, <2>2, Zenon
<1>. QED
  BY <1>1, Zenon DEF LastOf

-----------------------------------------------------------------------------
\* LIMIT cuts a prefix of the order.
LEMMA TopIsPrefix ==
  ASSUME NEW S, IsFiniteSet(S), Ordered(S), NEW desc \in BOOLEAN,
         NEW n \in Nat, NEW r \in Top(S, desc, n), NEW s \in S,
         Before(desc, s, r)
  PROVE  s \in Top(S, desc, n)
<1>1. r \in S /\ Rank(S, desc, r) < n
  BY DEF Top
<1>2. Rank(S, desc, s) < Rank(S, desc, r)
  BY <1>1, RankGrows
<1>3. Rank(S, desc, s) \in Nat /\ Rank(S, desc, r) \in Nat
  BY <1>1, RankGrows
<1>. QED
  BY <1>1, <1>2, <1>3 DEF Top

\* A result set that does not fill its LIMIT is everything there was.
LEMMA ShortTopIsAll ==
  ASSUME NEW S, IsFiniteSet(S), Ordered(S), NEW desc \in BOOLEAN,
         NEW n \in Nat, Cardinality(Top(S, desc, n)) < n
  PROVE  Top(S, desc, n) = S
<1>. DEFINE T == Top(S, desc, n)
            Rest == S \ T
<1>1. T \in SUBSET S /\ IsFiniteSet(T) /\ Cardinality(T) \in Nat
  <2>1. T \in SUBSET S
    BY DEF Top
  <2>2. IsFiniteSet(T)
    BY <2>1, FS_Subset, Zenon
  <2>. QED
    BY <2>1, <2>2, FS_CardinalityType, Zenon
<1>2. SUFFICES ASSUME Rest # {} PROVE FALSE
  BY <1>1
<1>3. IsFiniteSet(Rest) /\ Ordered(Rest)
  <2>1. Rest \in SUBSET S
    OBVIOUS
  <2>. QED
    BY <2>1, FS_Subset, OrderedSubset, Zenon
<1>4. PICK m \in Rest : \A s \in Rest : s = m \/ Before(desc, m, s)
  BY <1>2, <1>3, FirstExists, Zenon
<1>5. {x \in S : Before(desc, x, m)} \in SUBSET T
  <2>. SUFFICES ASSUME NEW x \in S, Before(desc, x, m), x \notin T PROVE FALSE
    OBVIOUS
  <2>1. x = m \/ Before(desc, m, x)
    BY <1>4
  <2>2. ~Before(desc, m, m)
    BY BeforeIsStrict, Zenon
  <2>. QED
    BY <2>1, <2>2, BeforeIsStrict, Zenon
<1>6. Rank(S, desc, m) <= Cardinality(T)
  BY <1>1, <1>5, FS_Subset, Zenon DEF Rank
<1>7. Rank(S, desc, m) \in Nat
  BY RankGrows
<1>8. Rank(S, desc, m) < n
  BY <1>1, <1>6, <1>7
<1>. QED
  BY <1>8 DEF Top

\* A LIMIT of at least one row keeps the first row.
LEMMA TopIsNonEmpty ==
  ASSUME NEW S, IsFiniteSet(S), Ordered(S), S # {}, NEW desc \in BOOLEAN,
         NEW n \in Nat \ {0}
  PROVE  Top(S, desc, n) # {}
<1>1. SUFFICES ASSUME Top(S, desc, n) = {} PROVE FALSE
  OBVIOUS
<1>2. Cardinality(Top(S, desc, n)) < n
  BY <1>1, FS_EmptySet
<1>3. Top(S, desc, n) = S
  BY <1>2, ShortTopIsAll
<1>. QED
  BY <1>1, <1>3

\* A row that LIMIT leaves out comes after every row it keeps, and the page it
\* was left out of is full.
LEMMA LeftOutIsLater ==
  ASSUME NEW S, IsFiniteSet(S), Ordered(S), NEW desc \in BOOLEAN,
         NEW n \in Nat, NEW r \in S, r \notin Top(S, desc, n)
  PROVE  /\ ~(Cardinality(Top(S, desc, n)) < n)
         /\ \A s \in Top(S, desc, n) : Before(desc, s, r)
<1>1. ~(Cardinality(Top(S, desc, n)) < n)
  BY ShortTopIsAll
<1>2. ASSUME NEW s \in Top(S, desc, n) PROVE Before(desc, s, r)
  <2>1. s \in S
    BY DEF Top
  <2>2. ~Before(desc, r, s)
    BY TopIsPrefix
  <2>. QED
    BY <2>1, <2>2, BeforeIsStrict
<1>. QED
  BY <1>1, <1>2

\* LIMIT n returns no more than n rows, since ranks are unique; and exactly n
\* when there are that many.
LEMMA TopIsShort ==
  ASSUME NEW S, IsFiniteSet(S), Ordered(S), NEW desc \in BOOLEAN, NEW n \in Nat
  PROVE  /\ Cardinality(Top(S, desc, n)) <= n
         /\ n <= Cardinality(S) => Cardinality(Top(S, desc, n)) = n
<1>. DEFINE T == Top(S, desc, n)
            f == [r \in T |-> Rank(S, desc, r)]
<1>1. T \in SUBSET S /\ \A r \in T : Rank(S, desc, r) < n
  BY DEF Top
<1>2. IsFiniteSet(T) /\ Cardinality(T) \in Nat /\ Cardinality(S) \in Nat
  BY <1>1, FS_Subset, FS_CardinalityType
<1>3. f \in [T -> 0 .. n - 1]
  BY <1>1, RankGrows
<1>4. IsFiniteSet(0 .. n - 1) /\ Cardinality(0 .. n - 1) = n
  BY FS_Interval
<1>5. \A x, y \in T : f[x] = f[y] => x = y
  <2>. SUFFICES ASSUME NEW x \in T, NEW y \in T, f[x] = f[y] PROVE x = y
    OBVIOUS
  <2>1. Rank(S, desc, x) = Rank(S, desc, y) /\ x \in S /\ y \in S
    BY <1>1
  <2>2. Rank(S, desc, x) \in Nat /\ Rank(S, desc, y) \in Nat
    BY <2>1, RankGrows
  <2>3. ~Before(desc, x, y) /\ ~Before(desc, y, x)
    BY <2>1, <2>2, RankGrows
  <2>. QED
    BY <2>1, <2>3, BeforeIsStrict
<1>. HIDE DEF f, T
<1>6. ~(n < Cardinality(T))
  BY <1>2, <1>3, <1>4, <1>5, FS_PigeonHole
<1>7. n <= Cardinality(S) => ~(Cardinality(T) < n)
  BY <1>2, ShortTopIsAll DEF T
<1>. QED
  BY <1>2, <1>6, <1>7 DEF T

-----------------------------------------------------------------------------
\* Ranks are unique and stay below the number of rows.
LEMMA RankIsUnique ==
  ASSUME NEW S, IsFiniteSet(S), Ordered(S), NEW desc \in BOOLEAN,
         NEW r \in S, NEW s \in S, Rank(S, desc, r) = Rank(S, desc, s)
  PROVE  r = s
<1>1. Rank(S, desc, r) \in Nat /\ Rank(S, desc, s) \in Nat
  BY RankGrows
<1>2. ~Before(desc, r, s) /\ ~Before(desc, s, r)
  BY <1>1, RankGrows
<1>. QED
  BY <1>2, BeforeIsStrict

LEMMA RankIsBelowSize ==
  ASSUME NEW S, IsFiniteSet(S), Ordered(S), NEW desc \in BOOLEAN, NEW r \in S
  PROVE  Rank(S, desc, r) < Cardinality(S)
<1>. DEFINE Ahead == {x \in S : Before(desc, x, r)}
<1>1. Ahead \in SUBSET S /\ r \notin Ahead
  BY BeforeIsStrict
<1>2. Cardinality(Ahead) <= Cardinality(S) /\ Cardinality(Ahead) # Cardinality(S)
  BY <1>1, FS_Subset, Zenon
<1>3. Cardinality(S) \in Nat /\ Cardinality(Ahead) \in Nat
  <2>1. IsFiniteSet(Ahead)
    BY <1>1, FS_Subset, Zenon
  <2>. QED
    BY <2>1, FS_CardinalityType
<1>. QED
  BY <1>2, <1>3 DEF Rank

\* Every rank below the number of rows is taken.
LEMMA RankIsTaken ==
  ASSUME NEW S, IsFiniteSet(S), Ordered(S), NEW desc \in BOOLEAN,
         NEW k \in Nat, k < Cardinality(S)
  PROVE  \E r \in S : Rank(S, desc, r) = k
<1>1. SUFFICES ASSUME \A r \in S : Rank(S, desc, r) # k PROVE FALSE
  OBVIOUS
<1>2. Top(S, desc, k) = Top(S, desc, k + 1)
  BY <1>1, RankGrows DEF Top
<1>3. Cardinality(S) \in Nat /\ k + 1 \in Nat /\ k <= Cardinality(S)
      /\ k + 1 <= Cardinality(S)
  BY FS_CardinalityType
<1>4. Cardinality(Top(S, desc, k)) = k
  BY <1>3, TopIsShort
<1>5. Cardinality(Top(S, desc, k + 1)) = k + 1
  BY <1>3, TopIsShort
<1>. QED
  BY <1>2, <1>4, <1>5

\* Within LIMIT ... OFFSET k, a row ranks k places further to the front.
LEMMA RankInSlice ==
  ASSUME NEW S, IsFiniteSet(S), Ordered(S), NEW desc \in BOOLEAN,
         NEW k \in Nat, NEW n \in Nat, NEW r \in Slice(S, desc, k, n)
  PROVE  Rank(Slice(S, desc, k, n), desc, r) = Rank(S, desc, r) - k
<1>. DEFINE T     == Slice(S, desc, k, n)
            Ahead == {x \in S : Before(desc, x, r)}
            First == Top(S, desc, k)
<1>1. r \in S /\ Rank(S, desc, r) \in Nat /\ k <= Rank(S, desc, r)
      /\ Rank(S, desc, r) < k + n
  BY RankGrows DEF Slice
<1>2. {x \in T : Before(desc, x, r)} = Ahead \ First
  <2>1. ASSUME NEW x \in S, Before(desc, x, r)
        PROVE  x \in T <=> x \notin First
    <3>1. Rank(S, desc, x) \in Nat /\ Rank(S, desc, x) < Rank(S, desc, r)
      BY <1>1, <2>1, RankGrows
    <3>. QED
      BY <1>1, <3>1 DEF Slice, Top
  <2>2. T \in SUBSET S
    BY DEF Slice
  <2>. QED
    BY <2>1, <2>2
<1>3. First \in SUBSET Ahead
  <2>. SUFFICES ASSUME NEW x \in First PROVE x \in Ahead
    OBVIOUS
  <2>1. x \in S /\ Rank(S, desc, x) < k /\ Rank(S, desc, x) \in Nat
    BY RankGrows DEF Top
  <2>2. ~Before(desc, r, x) /\ r # x
    BY <1>1, <2>1, RankGrows
  <2>. QED
    BY <1>1, <2>1, <2>2, BeforeIsStrict
<1>4. Cardinality(First) = k
  <2>1. Rank(S, desc, r) < Cardinality(S) /\ Cardinality(S) \in Nat
    BY <1>1, RankIsBelowSize, FS_CardinalityType
  <2>2. k <= Cardinality(S)
    BY <1>1, <2>1
  <2>. QED
    BY <2>2, TopIsShort
<1>5. IsFiniteSet(Ahead) /\ Ahead \cap First = First
  <2>1. Ahead \in SUBSET S
    OBVIOUS
  <2>2. IsFiniteSet(Ahead)
    BY <2>1, FS_Subset, Zenon
  <2>. QED
    BY <1>3, <2>2
<1>. HIDE DEF Ahead, First
<1>6. Cardinality(Ahead \ First) = Cardinality(Ahead) - Cardinality(First)
  BY <1>5, FS_Difference
<1>7. Rank(S, desc, r) = Cardinality(Ahead)
  BY DEF Rank, Ahead
<1>8. Rank(T, desc, r) = Cardinality(Ahead \ First)
  BY <1>2 DEF Rank
<1>. QED
  BY <1>4, <1>6, <1>7, <1>8

\* The page of a statement that asks for one row more: the rows of its ranks,
\* and the row beyond says whether others rank after them.
LEMMA PageOfSlice ==
  ASSUME NEW S, IsFiniteSet(S), Ordered(S), NEW desc \in BOOLEAN,
         NEW k \in Nat, NEW n \in Nat
  PROVE  /\ IsFiniteSet(Slice(S, desc, k, n + 1))
         /\ Top(Slice(S, desc, k, n + 1), desc, n) = Slice(S, desc, k, n)
         /\ Cardinality(Slice(S, desc, k, n + 1)) > n <=> k + n < Cardinality(S)
         /\ ~(Cardinality(Slice(S, desc, k, n + 1)) > n) =>
              Slice(S, desc, k, n + 1) = Slice(S, desc, k, n)
<1>. DEFINE found == Slice(S, desc, k, n + 1)
<1>1. found \in SUBSET S /\ IsFiniteSet(found) /\ Ordered(found)
  <2>1. found \in SUBSET S
    BY DEF Slice
  <2>. QED
    BY <2>1, FS_Subset, OrderedSubset, Zenon
<1>2. Cardinality(found) \in Nat /\ Cardinality(S) \in Nat
  BY <1>1, FS_CardinalityType
<1>3. ASSUME NEW r \in found
      PROVE  /\ Rank(found, desc, r) = Rank(S, desc, r) - k
             /\ Rank(S, desc, r) \in Nat
             /\ Rank(S, desc, r) >= k /\ Rank(S, desc, r) < k + (n + 1)
             /\ r \in S
  BY RankInSlice, RankGrows DEF Slice
<1>4. Top(found, desc, n) = Slice(S, desc, k, n)
  <2>1. Slice(S, desc, k, n) \in SUBSET found
    BY RankGrows DEF Slice
  <2>2. \A r \in found : Rank(found, desc, r) < n <=> r \in Slice(S, desc, k, n)
    BY <1>3 DEF Slice
  <2>. QED
    BY <2>1, <2>2 DEF Top
<1>5. ASSUME k + n < Cardinality(S) PROVE Cardinality(found) > n
  <2>1. PICK r \in S : Rank(S, desc, r) = k + n
    BY <1>5, RankIsTaken
  <2>2. r \in found
    BY <2>1 DEF Slice
  <2>3. Rank(found, desc, r) = n
    BY <1>3, <2>1, <2>2
  <2>. QED
    BY <1>1, <1>2, <2>2, <2>3, RankIsBelowSize
<1>6. ASSUME Cardinality(found) > n PROVE k + n < Cardinality(S)
  <2>1. PICK r \in found : Rank(found, desc, r) = n
    BY <1>1, <1>2, <1>6, RankIsTaken
  <2>2. Rank(S, desc, r) = k + n /\ r \in S
    BY <1>3, <2>1
  <2>. QED
    BY <2>2, RankIsBelowSize
<1>7. ASSUME ~(Cardinality(found) > n) PROVE found = Top(found, desc, n)
  <2>1. \A r \in found : Rank(found, desc, r) < n
    BY <1>1, <1>2, <1>3, <1>7, RankIsBelowSize
  <2>. QED
    BY <2>1 DEF Top
<1>. QED
  BY <1>1, <1>4, <1>5, <1>6, <1>7

\* The rows of a set that is closed under coming earlier are those of the first
\* ranks.
LEMMA PrefixHasFirstRanks ==
  ASSUME NEW M, IsFiniteSet(M), Ordered(M), NEW desc \in BOOLEAN,
         NEW S \in SUBSET M,
         \A r \in M, s \in S : Before(desc, r, s) => r \in S
  PROVE  /\ IsFiniteSet(S) /\ Cardinality(S) \in Nat
         /\ \A r \in M : r \in S <=> Rank(M, desc, r) < Cardinality(S)
<1>1. IsFiniteSet(S) /\ Cardinality(S) \in Nat /\ Ordered(S)
  BY FS_Subset, FS_CardinalityType, OrderedSubset
<1>2. ASSUME NEW r \in S PROVE Rank(M, desc, r) < Cardinality(S)
  <2>1. {x \in M : Before(desc, x, r)} = {x \in S : Before(desc, x, r)}
    OBVIOUS
  <2>2. Rank(M, desc, r) = Rank(S, desc, r)
    BY <2>1 DEF Rank
  <2>. QED
    BY <1>1, <2>2, RankIsBelowSize
<1>3. ASSUME NEW r \in M, r \notin S PROVE ~(Rank(M, desc, r) < Cardinality(S))
  <2>. DEFINE Ahead == {x \in M : Before(desc, x, r)}
  <2>1. S \in SUBSET Ahead
    <3>1. \A s \in S : s # r /\ ~Before(desc, r, s)
      BY <1>3
    <3>. QED
      BY <3>1, BeforeIsStrict
  <2>2. Ahead \in SUBSET M
    OBVIOUS
  <2>. HIDE DEF Ahead
  <2>3. IsFiniteSet(Ahead)
    BY <2>2, FS_Subset
  <2>4. Cardinality(S) <= Cardinality(Ahead) /\ Cardinality(Ahead) \in Nat
    BY <2>1, <2>3, FS_Subset, FS_CardinalityType
  <2>. QED
    BY <1>1, <2>4 DEF Rank, Ahead
<1>. QED
  BY <1>1, <1>2, <1>3

\* Rows that follow all of S and make S \cup D the rows of the first ranks are
\* the slice of the table behind S.
LEMMA ContinuationIsSlice ==
  ASSUME NEW M, IsFiniteSet(M), Ordered(M), NEW desc \in BOOLEAN,
         NEW S \in SUBSET M, NEW D \in SUBSET M,
         \A r \in M, s \in S : Before(desc, r, s) => r \in S,
         \A s \in S, d \in D : Before(desc, s, d),
         \A r \in M \ (S \cup D), d \in D : Before(desc, d, r)
  PROVE  /\ D = Slice(M, desc, Cardinality(S), Cardinality(D))
         /\ \A n \in Nat :
              S \cup D = M /\ Cardinality(D) <= n =>
                D = Slice(M, desc, Cardinality(S), n)
<1>1. \A r \in M, s \in S \cup D : Before(desc, r, s) => r \in S \cup D
  BY BeforeIsStrict
<1>2. S \cap D = {}
  BY BeforeIsStrict
<1>3. /\ IsFiniteSet(S) /\ Cardinality(S) \in Nat
      /\ \A r \in M : r \in S <=> Rank(M, desc, r) < Cardinality(S)
  BY PrefixHasFirstRanks
<1>4. \A r \in M : r \in S \cup D <=> Rank(M, desc, r) < Cardinality(S \cup D)
  BY <1>1, PrefixHasFirstRanks
<1>5. IsFiniteSet(D) /\ Cardinality(D) \in Nat
  BY FS_Subset, FS_CardinalityType
<1>6. Cardinality(S \cup D) = Cardinality(S) + Cardinality(D)
  <2>1. S \cap D = {} => Cardinality(S \cap D) = 0
    BY FS_EmptySet
  <2>2. Cardinality(S \cup D)
          = Cardinality(S) + Cardinality(D) - Cardinality(S \cap D)
    BY <1>3, <1>5, FS_Union
  <2>. QED
    BY <1>2, <1>3, <1>5, <2>1, <2>2
<1>7. \A r \in M : Rank(M, desc, r) \in Nat
  BY RankGrows
<1>8. \A r \in M :
        r \in D <=> /\ Rank(M, desc, r) >= Cardinality(S)
                   /\ Rank(M, desc, r) < Cardinality(S) + Cardinality(D)
  BY <1>2, <1>3, <1>4, <1>6, <1>7
<1>9. ASSUME NEW n \in Nat, S \cup D = M, Cardinality(D) <= n
      PROVE  D = Slice(M, desc, Cardinality(S), n)
  <2>1. \A r \in M : r \in D <=> /\ Rank(M, desc, r) >= Cardinality(S)
                                 /\ Rank(M, desc, r) < Cardinality(S) + n
    BY <1>3, <1>5, <1>7, <1>8, <1>9
  <2>. QED
    BY <2>1 DEF Slice
<1>. QED
  BY <1>8, <1>9 DEF Slice

\* While nobody writes, the statement of the keyset page, asked to continue
\* after the last of the first k rows, selects the same rows as the statement
\* of the offset page at rank k, in either direction and for any limit: the two
\* endpoints differ only by what writes do to them.
THEOREM QuietPagesAgree ==
  ASSUME NEW S, IsFiniteSet(S), Ordered(S), S # {}, NEW desc \in BOOLEAN,
         NEW k \in Nat \ {0}, NEW n \in Nat
  PROVE  Top(Beyond(S, desc, LastOf(Top(S, desc, k), desc)), desc, n)
           = Slice(S, desc, k, n)
<1>. DEFINE T    == Top(S, desc, k)
            last == LastOf(T, desc)
            Rest == Beyond(S, desc, last)
            all  == Cardinality(S)
<1>1. T \in SUBSET S /\ IsFiniteSet(T) /\ T # {} /\ Ordered(T)
  <2>1. T \in SUBSET S /\ T # {}
    BY TopIsNonEmpty DEF Top
  <2>. QED
    BY <2>1, FS_Subset, OrderedSubset
<1>2. last \in T /\ \A s \in T : s = last \/ Before(desc, s, last)
  BY <1>1, LastExists
<1>3. all \in Nat
  BY FS_CardinalityType
<1>. HIDE DEF T, last
<1>4. ASSUME NEW r \in S PROVE r \in Rest <=> r \notin T
  <2>1. CASE r \in T
    <3>1. ~Before(desc, last, r)
      BY <1>1, <1>2, <2>1, BeforeIsStrict
    <3>. QED
      BY <2>1, <3>1 DEF Beyond
  <2>2. CASE r \notin T
    BY <1>2, <2>2, LeftOutIsLater DEF Beyond, T
  <2>. QED
    BY <2>1, <2>2
<1>5. Rest = Slice(S, desc, k, all)
  <2>1. ASSUME NEW r \in S PROVE r \in Rest <=> r \in Slice(S, desc, k, all)
    <3>1. Rank(S, desc, r) \in Nat /\ Rank(S, desc, r) < all
      BY RankGrows, RankIsBelowSize
    <3>2. r \in T <=> Rank(S, desc, r) < k
      BY DEF T, Top
    <3>. QED
      BY <1>3, <1>4, <3>1, <3>2 DEF Slice
  <2>. QED
    BY <2>1 DEF Beyond, Slice
<1>. HIDE DEF Rest
<1>6. ASSUME NEW r \in Rest
      PROVE  /\ r \in S /\ Rank(S, desc, r) \in Nat /\ Rank(S, desc, r) >= k
             /\ Rank(Rest, desc, r) = Rank(S, desc, r) - k
  BY <1>3, <1>5, RankInSlice, RankGrows DEF Slice
<1>7. ASSUME NEW r \in S, Rank(S, desc, r) >= k PROVE r \in Rest
  <2>1. Rank(S, desc, r) \in Nat /\ Rank(S, desc, r) < all
    BY RankGrows, RankIsBelowSize
  <2>2. Rank(S, desc, r) < k + all
    BY <1>3, <2>1
  <2>. QED
    BY <1>5, <1>7, <2>2 DEF Slice
<1>8. \A r \in Rest : Rank(Rest, desc, r) < n <=> r \in Slice(S, desc, k, n)
  BY <1>6 DEF Slice
<1>9. Slice(S, desc, k, n) \in SUBSET Rest
  BY <1>7 DEF Slice
<1>10. Top(Rest, desc, n) = Slice(S, desc, k, n)
  BY <1>8, <1>9 DEF Top
<1>. QED
  BY <1>10 DEF Rest, last, T

\* A row more in the table moves no row forward, and every other row at most
\* one place back; so it pushes at most one row over a given rank.
LEMMA RankAfterAdding ==
  ASSUME NEW S, IsFiniteSet(S), NEW x, x \notin S, Ordered(S \cup {x}),
         NEW desc \in BOOLEAN, NEW r \in S
  PROVE  /\ Rank(S, desc, r) \in Nat
         /\ Rank(S \cup {x}, desc, r) \in {Rank(S, desc, r), Rank(S, desc, r) + 1}
<1>. DEFINE Ahead  == {y \in S : Before(desc, y, r)}
            Ahead2 == {y \in S \cup {x} : Before(desc, y, r)}
<1>1. IsFiniteSet(Ahead) /\ x \notin Ahead /\ Cardinality(Ahead) \in Nat
  <2>1. Ahead \in SUBSET S
    OBVIOUS
  <2>2. IsFiniteSet(Ahead)
    BY <2>1, FS_Subset, Zenon
  <2>. QED
    BY <2>1, <2>2, FS_CardinalityType
<1>2. Ahead2 = Ahead \/ Ahead2 = Ahead \cup {x}
  OBVIOUS
<1>. HIDE DEF Ahead, Ahead2
<1>3. Cardinality(Ahead \cup {x}) = Cardinality(Ahead) + 1
  BY <1>1, FS_AddElement
<1>4. Cardinality(Ahead2) \in {Cardinality(Ahead), Cardinality(Ahead) + 1}
  BY <1>2, <1>3
<1>. QED
  BY <1>1, <1>4 DEF Rank, Ahead, Ahead2

LEMMA OneRowCrosses ==
  ASSUME NEW S, IsFiniteSet(S), NEW x, x \notin S, Ordered(S \cup {x}),
         NEW desc \in BOOLEAN, NEW k \in Nat, NEW r \in S, NEW s \in S,
         Rank(S, desc, r) < k, ~(Rank(S \cup {x}, desc, r) < k),
         Rank(S, desc, s) < k, ~(Rank(S \cup {x}, desc, s) < k)
  PROVE  r = s
<1>1. Rank(S, desc, r) = k - 1 /\ Rank(S, desc, s) = k - 1
  BY RankAfterAdding
<1>2. Ordered(S)
  BY OrderedSubset
<1>. QED
  BY <1>1, <1>2, RankIsUnique

\* A set that gains at most one element.
LEMMA OneMore ==
  ASSUME NEW A, NEW B, IsFiniteSet(B), \A x, y \in A \ B : x = y
  PROVE  /\ IsFiniteSet(A) /\ Cardinality(A) \in Nat
         /\ Cardinality(B) \in Nat
         /\ Cardinality(A) <= Cardinality(B) + 1
<1>1. Cardinality(B) \in Nat
  BY FS_CardinalityType
<1>2. PICK D : /\ A \in SUBSET D /\ IsFiniteSet(D) /\ Cardinality(D) \in Nat
               /\ Cardinality(D) <= Cardinality(B) + 1
  <2>1. CASE A \in SUBSET B
    BY <1>1, <2>1
  <2>2. CASE A \notin SUBSET B
    <3>1. PICK c \in A \ B : TRUE
      BY <2>2
    <3>2. A \in SUBSET (B \cup {c})
      BY <3>1
    <3>3. IsFiniteSet(B \cup {c})
      BY FS_AddElement
    <3>4. Cardinality(B \cup {c}) \in {Cardinality(B), Cardinality(B) + 1}
      BY FS_AddElement
    <3>. QED
      BY <1>1, <3>2, <3>3, <3>4
  <2>. QED
    BY <2>1, <2>2
<1>3. IsFiniteSet(A) /\ Cardinality(A) <= Cardinality(D)
  BY <1>2, FS_Subset, Zenon
<1>4. Cardinality(A) \in Nat
  BY <1>3, FS_CardinalityType
<1>. QED
  BY <1>1, <1>2, <1>3, <1>4

-----------------------------------------------------------------------------
(* The codec: nothing that a page needs of its cursor is lost in the       *)
(* token, and no two filter sets share a fingerprint.                      *)

\* The layout with six decimals writes a timestamptz without losing anything.
LEMMA TimeIsExact ==
  ASSUME NEW lang, NEW at \in Nat, at % Micro = 0
  PROVE  FormatTime(lang, at).at = at
<1>1. Micro \in Nat \ {0}
  BY CodecAssumption
<1>2. (at \div Micro) * Micro = at
  BY <1>1
<1>. QED
  BY <1>2 DEF FormatTime

\* Where the two parts of a concatenation are.
LEMMA ConcatParts ==
  ASSUME NEW S, NEW a \in Seq(S), NEW b \in Seq(S)
  PROVE  /\ a \o b \in Seq(S)
         /\ Len(a) \in Nat /\ Len(b) \in Nat
         /\ Len(a \o b) = Len(a) + Len(b)
         /\ \A i \in 1 .. Len(a) : (a \o b)[i] = a[i]
         /\ \A i \in 1 .. Len(b) : (a \o b)[Len(a) + i] = b[i]
<1>1. \A i \in 1 .. Len(b) : (a \o b)[Len(a) + i] = b[i]
  <2>. SUFFICES ASSUME NEW i \in 1 .. Len(b)
                PROVE  (a \o b)[Len(a) + i] = b[i]
    OBVIOUS
  <2>. QED
    BY ConcatProperties
<1>2. \A i \in 1 .. Len(a) : (a \o b)[i] = a[i]
  OBVIOUS
<1>3. a \o b \in Seq(S) /\ Len(a \o b) = Len(a) + Len(b)
  OBVIOUS
<1>. QED
  BY <1>1, <1>2, <1>3

\* Where the three parts of a joined text are.
Joined(a, b, c, bar) == a \o <<bar>> \o b \o <<bar, c>>

HasParts(f, a, b, c, bar) ==
  /\ Len(f) = Len(a) + Len(b) + 3
  /\ \A i \in 1 .. Len(a) : f[i] = a[i]
  /\ f[Len(a) + 1] = bar
  /\ \A i \in 1 .. Len(b) : f[Len(a) + 1 + i] = b[i]
  /\ f[Len(f)] = c

LEMMA JoinedParts ==
  ASSUME NEW S, NEW a \in Seq(S), NEW b \in Seq(S), NEW c \in S, NEW bar \in S
  PROVE  HasParts(Joined(a, b, c, bar), a, b, c, bar)
<1>. DEFINE g == a \o <<bar>>
            h == g \o b
            t == <<bar, c>>
            f == h \o t
<1>1. g \in Seq(S) /\ Len(g) = Len(a) + 1 /\ Len(a) \in Nat
  OBVIOUS
<1>2. (\A i \in 1 .. Len(a) : g[i] = a[i]) /\ g[Len(a) + 1] = bar
  OBVIOUS
<1>. HIDE DEF g
<1>3. h \in Seq(S) /\ Len(h) = Len(g) + Len(b) /\ Len(b) \in Nat
  BY <1>1
<1>4. \A i \in 1 .. Len(g) : h[i] = g[i]
  BY <1>1, ConcatParts
<1>5. \A i \in 1 .. Len(b) : h[Len(g) + i] = b[i]
  BY <1>1, ConcatParts
<1>. HIDE DEF h
<1>6. t \in Seq(S) /\ Len(t) = 2 /\ t[2] = c /\ 2 \in 1 .. Len(t)
  OBVIOUS
<1>. HIDE DEF t
<1>7. Len(f) = Len(h) + 2
  <2>1. Len(h) \in Nat /\ Len(f) = Len(h) + Len(t)
    BY <1>3, <1>6, ConcatParts
  <2>. QED
    BY <2>1, <1>6
<1>8. \A i \in 1 .. Len(h) : f[i] = h[i]
  BY <1>3, <1>6, ConcatParts
<1>9. f[Len(h) + 2] = c
  BY <1>3, <1>6, ConcatParts
<1>10. f = Joined(a, b, c, bar)
  BY Zenon DEF Joined, t, h, g
<1>. HIDE DEF f
<1>11. HasParts(f, a, b, c, bar)
  <2>1. Len(f) = Len(a) + Len(b) + 3
    BY <1>1, <1>3, <1>7
  <2>2. \A i \in 1 .. Len(a) : f[i] = a[i]
    BY <1>1, <1>2, <1>3, <1>4, <1>8
  <2>3. f[Len(a) + 1] = bar
    BY <1>1, <1>2, <1>3, <1>4, <1>8
  <2>4. \A i \in 1 .. Len(b) : f[Len(a) + 1 + i] = b[i]
    BY <1>1, <1>3, <1>5, <1>8
  <2>5. f[Len(f)] = c
    BY <1>7, <1>9
  <2>. QED
    BY <2>1, <2>2, <2>3, <2>4, <2>5, Zenon DEF HasParts
<1>. QED
  BY <1>10, <1>11, Zenon

\* A text joined with separators is read back in one way only, as long as its
\* first part holds no separator; the second part may.
Lacks(a, bar) == \A i \in 1 .. Len(a) : a[i] # bar

LEMMA JoinedIsInjective ==
  ASSUME NEW S, NEW bar \in S,
         NEW a1 \in Seq(S), NEW b1 \in Seq(S), NEW c1 \in S,
         NEW a2 \in Seq(S), NEW b2 \in Seq(S), NEW c2 \in S,
         Lacks(a1, bar), Lacks(a2, bar),
         Joined(a1, b1, c1, bar) = Joined(a2, b2, c2, bar)
  PROVE  a1 = a2 /\ b1 = b2 /\ c1 = c2
<1>. DEFINE f == Joined(a1, b1, c1, bar)
<1>1. HasParts(f, a1, b1, c1, bar)
  BY JoinedParts
<1>2. HasParts(f, a2, b2, c2, bar)
  BY JoinedParts
<1>. HIDE DEF f
<1>3. Len(a1) \in Nat /\ Len(a2) \in Nat /\ Len(b1) \in Nat /\ Len(b2) \in Nat
  OBVIOUS
<1>4. Len(a1) = Len(a2)
  <2>1. ~(Len(a1) < Len(a2))
    <3>. SUFFICES ASSUME Len(a1) < Len(a2) PROVE FALSE
      OBVIOUS
    <3>1. Len(a1) + 1 \in 1 .. Len(a2)
      BY <1>3
    <3>. QED
      BY <3>1, <1>1, <1>2 DEF HasParts, Lacks
  <2>2. ~(Len(a2) < Len(a1))
    <3>. SUFFICES ASSUME Len(a2) < Len(a1) PROVE FALSE
      OBVIOUS
    <3>1. Len(a2) + 1 \in 1 .. Len(a1)
      BY <1>3
    <3>. QED
      BY <3>1, <1>1, <1>2 DEF HasParts, Lacks
  <2>. QED
    BY <2>1, <2>2, <1>3
<1>5. a1 = a2
  <2>1. \A i \in 1 .. Len(a1) : a1[i] = a2[i]
    BY <1>1, <1>2, <1>4 DEF HasParts
  <2>. QED
    BY <1>4, <2>1, SeqEqual
<1>6. b1 = b2
  <2>1. Len(b1) = Len(b2)
    BY <1>1, <1>2, <1>3, <1>4 DEF HasParts
  <2>2. \A i \in 1 .. Len(b1) : b1[i] = b2[i]
    BY <1>1, <1>2, <1>4, <2>1 DEF HasParts
  <2>. QED
    BY <2>1, <2>2, SeqEqual
<1>. QED
  BY <1>1, <1>2, <1>5, <1>6 DEF HasParts

\* The text that is digested determines the filters: no status, whatever
\* separators it holds, makes one filter set pass for another.
LEMMA FingerprintIsInjective ==
  ASSUME NEW q1 \in Filters, NEW q2 \in Filters,
         Fingerprint(q1) = Fingerprint(q2)
  PROVE  q1 = q2
<1>. DEFINE Shape == [account : Seq(Char), status : Seq(Char), sort : Sorts]
<1>1. \A q \in Filters :
        /\ q \in Shape
        /\ q.account \in Seq(Char) /\ q.status \in Seq(Char) /\ q.sort \in Char
        /\ Lacks(q.account, "|")
        /\ Fingerprint(q) = Joined(q.account, q.status, q.sort, "|")
  BY CodecAssumption DEF Filters, Sorts, Fingerprint, Joined, Lacks
<1>2. "|" \in Char
  BY CodecAssumption
<1>3. /\ q1.account = q2.account
      /\ q1.status = q2.status
      /\ q1.sort = q2.sort
  <2>. DEFINE a1 == q1.account  b1 == q1.status  c1 == q1.sort
              a2 == q2.account  b2 == q2.status  c2 == q2.sort
              bar == "|"
  <2>1. /\ a1 \in Seq(Char) /\ b1 \in Seq(Char) /\ c1 \in Char
        /\ a2 \in Seq(Char) /\ b2 \in Seq(Char) /\ c2 \in Char
        /\ bar \in Char /\ Lacks(a1, bar) /\ Lacks(a2, bar)
        /\ Joined(a1, b1, c1, bar) = Joined(a2, b2, c2, bar)
    BY <1>1, <1>2
  <2>. HIDE DEF a1, b1, c1, a2, b2, c2, bar
  <2>2. a1 = a2 /\ b1 = b2 /\ c1 = c2
    BY <2>1, JoinedIsInjective
  <2>. QED
    BY <2>2 DEF a1, b1, c1, a2, b2, c2
<1>. QED
  BY <1>1, <1>3

\* What is signed for a row is a well-formed token, and the position in it is
\* that of the row.
Signed(lang, row, q, now, k) ==
  Encode(Payload(lang, row, Descending(q.sort), Fingerprint(q), now), k)

LEMMA SignedIsWellFormed ==
  ASSUME NEW keys, NEW k \in keys, NEW lang, NEW q \in Filters, NEW now \in Nat,
         NEW row, row.at \in Nat, row.id \in Nat, row.at % Micro = 0
  PROVE  /\ Signed(lang, row, q, now, k) \in Tokens(keys)
         /\ Signed(lang, row, q, now, k).payload.c.at = row.at
         /\ Bound(Signed(lang, row, q, now, k)) = [at |-> row.at, id |-> row.id]
<1>. DEFINE p == Payload(lang, row, Descending(q.sort), Fingerprint(q), now)
            tok == Encode(p, k)
<1>1. FormatTime(lang, row.at).at = row.at
  BY TimeIsExact
<1>2. FormatTime(lang, row.at) \in
        [at : Nat, style : {"yyyy", "yyyyy", "+yyyyy"}]
  BY <1>1 DEF FormatTime
<1>3. Unix(now) \in Nat
  BY CodecAssumption DEF Unix
<1>4. Fingerprint(q) \in Seq(Char)
  <2>1. /\ q.account \in Seq(Char) /\ q.status \in Seq(Char) /\ q.sort \in Char
        /\ "|" \in Char
    BY CodecAssumption DEF Filters, Sorts
  <2>. QED
    BY <2>1 DEF Fingerprint
<1>5. Descending(q.sort) \in BOOLEAN
  BY DEF Descending
<1>6. p \in Payloads
  BY <1>2, <1>3, <1>4, <1>5 DEF Payload, Payloads, Version
<1>7. tok.payload = p /\ tok \in Tokens(keys)
  BY <1>6 DEF Encode, Sign, Tokens, Wires
<1>8. p.c.at = row.at /\ Bound(tok) = [at |-> row.at, id |-> row.id]
  BY <1>1, <1>7 DEF Bound, Payload
<1>. QED
  BY <1>7, <1>8, Zenon DEF Signed

=============================================================================
