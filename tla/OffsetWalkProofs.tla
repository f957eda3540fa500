-------------------------- MODULE OffsetWalkProofs --------------------------
(***************************************************************************)
(* The walk by page numbers, for every table, any number of writers and    *)
(* every size: what it answers, and how far its drift can go.              *)
(***************************************************************************)
EXTENDS OffsetWalk, ListingLemmas

\* The table never holds as many rows as Java's int can count.
SmallTable == IsFiniteSet(Pool) /\ Cardinality(Pool) < IntHalf

-----------------------------------------------------------------------------
(* Sizes, page numbers and ranks.                                          *)

LEMMA CapIsInRange ==
  /\ \A n \in Nat : CapLimit(n) \in 1 .. MaxLimit
  /\ DefaultLimit \in 1 .. MaxLimit
  /\ MaxLimit \in Nat
BY LimitsAssumption DEF CapLimit

\* A size that is not refused is a size in range.
LEMMA SizeIsInRange ==
  ASSUME NEW lang \in {"go", "java"}, NEW raw \in RawValues, ~SizeRefused(lang, raw)
  PROVE  PageSize(lang, raw) \in 1 .. MaxLimit
<1>1. CASE ~Given(lang, raw)
  BY <1>1, CapIsInRange DEF PageSize
<1>2. CASE Given(lang, raw)
  <2>1. ParsesAsLong(raw) /\ ~(raw < 0)
    BY <1>2 DEF SizeRefused
  <2>2. raw \in Int
    BY <2>1, ParametersAssumption DEF ParsesAsLong
  <2>. QED
    BY <1>2, <2>1, <2>2, CapIsInRange DEF PageSize
<1>. QED
  BY <1>1, <1>2

\* A number within the width is left alone.
LEMMA WrapKeeps ==
  ASSUME NEW half \in Nat \ {0}, NEW n \in -half .. half - 1
  PROVE  Wrap(n, half) = n
<1>1. n + half \in 0 .. 2 * half - 1 /\ 2 * half \in Nat \ {0}
  OBVIOUS
<1>2. \A m \in Nat \ {0} : \A k \in 0 .. m - 1 : k % m = k
  OBVIOUS
<1>3. (n + half) % (2 * half) = n + half
  BY <1>1, <1>2
<1>. QED
  BY <1>3 DEF Wrap

LEMMA WrapIsInt ==
  ASSUME NEW half \in Nat \ {0}, NEW n \in Int
  PROVE  Wrap(n, half) \in Int
BY DEF Wrap

\* The rank a page starts at, while 32 bits hold it.
LEMMA OffsetIsRank ==
  ASSUME NEW lang \in {"go", "java"}, NEW page \in 1 .. IntHalf - 1,
         NEW n \in Nat, (page - 1) * n < IntHalf
  PROVE  /\ ~PageRefused(lang, page)
         /\ PageNumber(lang, page) = page
         /\ Offset(lang, page, n) = (page - 1) * n
         /\ (page - 1) * n \in Nat
<1>1. /\ IntHalf \in Nat \ {0} /\ LongHalf \in Nat \ {0}
      /\ IntHalf <= LongHalf
      /\ page \notin {Absent, Blank, Word}
  <2>1. page \in Int
    OBVIOUS
  <2>. QED
    BY <2>1, ParametersAssumption
<1>2. Given(lang, page) /\ ParsesAsLong(page)
  BY <1>1 DEF Given, ParsesAsLong
<1>3. ReadPage(lang, page) = page
  <2>1. Wrap(page, IntHalf) = page
    BY <1>1, WrapKeeps
  <2>. QED
    BY <2>1 DEF ReadPage
<1>4. (page - 1) * n \in Nat
  <2>1. page - 1 \in Nat
    OBVIOUS
  <2>. QED
    BY <2>1
<1>5. Offset(lang, page, n) = (page - 1) * n
  <2>. DEFINE k == (page - 1) * n
  <2>1. k \in 0 .. IntHalf - 1 /\ k \in 0 .. LongHalf - 1
    BY <1>1, <1>4
  <2>. HIDE DEF k
  <2>2. Wrap(k, IntHalf) = k /\ Wrap(k, LongHalf) = k
    BY <1>1, <2>1, WrapKeeps
  <2>. QED
    BY <2>2 DEF Offset, k
<1>. QED
  BY <1>2, <1>3, <1>4, <1>5 DEF PageRefused, PageNumber

-----------------------------------------------------------------------------
(* The rows of a page.                                                     *)

LEMMA NewestIsDirection == Newest \in BOOLEAN
BY DEF Newest

LEMMA PoolIsOrdered == Ordered(Pool)
BY OffsetAssumption DEF Ordered, Row

\* A statement that runs answers with the rows of its ranks, in order, no more
\* than asked for.
LEMMA SelectPageFacts ==
  ASSUME NEW S \in SUBSET Pool, IsFiniteSet(S), NEW page,
         NEW k \in Nat, NEW n \in Nat
  PROVE  /\ SelectPage(S, page, k, n) =
              [status |-> 200, code |-> "ok", data |-> Slice(S, Newest, k, n),
               page |-> page, size |-> n, hasMore |-> (Cardinality(S) > k + n)]
         /\ Cardinality(Slice(S, Newest, k, n)) <= n
<1>. DEFINE found == Slice(S, Newest, k, n + 1)
<1>1. Ordered(S)
  BY PoolIsOrdered, OrderedSubset
<1>2. /\ IsFiniteSet(found)
      /\ Top(found, Newest, n) = Slice(S, Newest, k, n)
      /\ Cardinality(found) > n <=> k + n < Cardinality(S)
      /\ ~(Cardinality(found) > n) => found = Slice(S, Newest, k, n)
  BY <1>1, PageOfSlice, NewestIsDirection
<1>3. (Cardinality(found) > n) = (Cardinality(S) > k + n)
  <2>1. Cardinality(found) \in Nat /\ Cardinality(S) \in Nat
    BY <1>2, FS_CardinalityType
  <2>. QED
    BY <1>2, <2>1
<1>4. Cardinality(Slice(S, Newest, k, n)) <= n
  <2>1. found \in SUBSET S
    BY DEF Slice
  <2>2. Ordered(found)
    BY <1>1, <2>1, OrderedSubset
  <2>. QED
    BY <1>2, <2>2, TopIsShort, NewestIsDirection
<1>5. (IF Cardinality(found) > n THEN Top(found, Newest, n) ELSE found)
        = Slice(S, Newest, k, n)
  BY <1>2
<1>6. ~(k < 0)
  OBVIOUS
<1>. HIDE DEF found
<1>7. SelectPage(S, page, k, n) =
        [status |-> 200, code |-> "ok",
         data |-> IF Cardinality(found) > n THEN Top(found, Newest, n) ELSE found,
         page |-> page, size |-> n, hasMore |-> (Cardinality(found) > n)]
  BY <1>6 DEF SelectPage, found
<1>. QED
  BY <1>3, <1>4, <1>5, <1>7

\* A request that is refused nothing runs its statement.
LEMMA ListFacts ==
  ASSUME NEW lang \in {"go", "java"}, NEW S \in SUBSET Pool, IsFiniteSet(S),
         NEW page \in 1 .. IntHalf - 1, NEW size_ \in Nat, size_ < LongHalf,
         (page - 1) * CapLimit(size_) < IntHalf
  PROVE  ListByOffset(lang, S, page, size_) =
           [status |-> 200, code |-> "ok",
            data |-> Slice(S, Newest, (page - 1) * CapLimit(size_), CapLimit(size_)),
            page |-> page, size |-> CapLimit(size_),
            hasMore |-> (Cardinality(S)
                           > (page - 1) * CapLimit(size_) + CapLimit(size_))]
<1>1. CapLimit(size_) \in Nat
  BY CapIsInRange
<1>2. /\ ~SizeRefused(lang, size_)
      /\ PageSize(lang, size_) = CapLimit(size_)
  <2>1. size_ \in Int
    OBVIOUS
  <2>2. size_ \notin {Absent, Blank, Word} /\ LongHalf \in Nat
    BY <2>1, ParametersAssumption
  <2>. QED
    BY <2>2 DEF SizeRefused, PageSize, Given, ParsesAsLong
<1>3. /\ ~PageRefused(lang, page)
      /\ PageNumber(lang, page) = page
      /\ Offset(lang, page, CapLimit(size_)) = (page - 1) * CapLimit(size_)
      /\ (page - 1) * CapLimit(size_) \in Nat
  BY <1>1, OffsetIsRank
<1>4. ListByOffset(lang, S, page, size_)
        = SelectPage(S, page, (page - 1) * CapLimit(size_), CapLimit(size_))
  BY <1>2, <1>3 DEF ListByOffset
<1>. QED
  BY <1>1, <1>3, <1>4, SelectPageFacts

-----------------------------------------------------------------------------
(* What a write does to the rows due again and to those missed.            *)

LEMMA DueAfterInsert ==
  ASSUME NEW W, IsFiniteSet(W), NEW x, x \notin W, Ordered(W \cup {x}),
         NEW S, x \notin S, NEW k \in Nat
  PROVE  /\ Cardinality(Due(W, S, k)) \in Nat
         /\ Cardinality(Due(W \cup {x}, S, k)) \in Nat
         /\ Cardinality(Due(W \cup {x}, S, k)) <= Cardinality(Due(W, S, k)) + 1
<1>. DEFINE A == Due(W \cup {x}, S, k)
            B == Due(W, S, k)
<1>1. IsFiniteSet(B)
  <2>1. B \in SUBSET W
    BY DEF Due
  <2>. QED
    BY <2>1, FS_Subset, Zenon
<1>2. ASSUME NEW r \in A \ B
      PROVE  /\ r \in W /\ Rank(W, Newest, r) < k
             /\ ~(Rank(W \cup {x}, Newest, r) < k)
  <2>1. r \in S /\ r \in W /\ Rank(W \cup {x}, Newest, r) >= k
    BY DEF Due
  <2>2. Rank(W, Newest, r) \in Nat /\ Rank(W \cup {x}, Newest, r) \in Nat
    BY <2>1, RankAfterAdding, NewestIsDirection
  <2>. QED
    BY <2>1, <2>2 DEF Due
<1>3. \A r, s \in A \ B : r = s
  BY <1>2, OneRowCrosses, NewestIsDirection
<1>. HIDE DEF A, B
<1>4. /\ Cardinality(A) \in Nat /\ Cardinality(B) \in Nat
      /\ Cardinality(A) <= Cardinality(B) + 1
  BY <1>1, <1>3, OneMore
<1>. QED
  BY <1>4 DEF A, B

LEMMA DueAfterDelete ==
  ASSUME NEW W, IsFiniteSet(W), NEW x, x \notin W, Ordered(W \cup {x}),
         NEW S, NEW k \in Nat
  PROVE  /\ Cardinality(Due(W, S, k)) \in Nat
         /\ Cardinality(Due(W \cup {x}, S, k)) \in Nat
         /\ Cardinality(Due(W, S, k)) <= Cardinality(Due(W \cup {x}, S, k))
<1>1. Due(W, S, k) \in SUBSET Due(W \cup {x}, S, k)
  <2>. SUFFICES ASSUME NEW r \in Due(W, S, k) PROVE r \in Due(W \cup {x}, S, k)
    OBVIOUS
  <2>1. r \in S /\ r \in W /\ Rank(W, Newest, r) >= k
    BY DEF Due
  <2>2. /\ Rank(W, Newest, r) \in Nat
        /\ Rank(W \cup {x}, Newest, r) \in {Rank(W, Newest, r), Rank(W, Newest, r) + 1}
    BY <2>1, RankAfterAdding, NewestIsDirection
  <2>. QED
    BY <2>1, <2>2 DEF Due
<1>2. IsFiniteSet(Due(W \cup {x}, S, k))
  <2>1. Due(W \cup {x}, S, k) \in SUBSET (W \cup {x})
    BY DEF Due
  <2>2. IsFiniteSet(W \cup {x})
    BY FS_AddElement
  <2>. QED
    BY <2>1, <2>2, FS_Subset, Zenon
<1>3. /\ IsFiniteSet(Due(W, S, k))
      /\ Cardinality(Due(W, S, k)) <= Cardinality(Due(W \cup {x}, S, k))
  BY <1>1, <1>2, FS_Subset, Zenon
<1>. QED
  BY <1>2, <1>3, FS_CardinalityType

LEMMA MissedIsFinite ==
  ASSUME NEW W, IsFiniteSet(W), NEW K \in SUBSET W, NEW V, NEW S, NEW k, NEW end
  PROVE  /\ IsFiniteSet(Missed(V, K, S, k, end))
         /\ Cardinality(Missed(V, K, S, k, end)) \in Nat
<1>1. Missed(V, K, S, k, end) \in SUBSET W
  BY DEF Missed
<1>2. IsFiniteSet(Missed(V, K, S, k, end))
  BY <1>1, FS_Subset, Zenon
<1>. QED
  BY <1>2, FS_CardinalityType

LEMMA MissedAfterInsert ==
  ASSUME NEW W, IsFiniteSet(W), NEW x, x \notin W, Ordered(W \cup {x}),
         NEW K \in SUBSET W, NEW S, NEW k \in Nat, NEW end \in BOOLEAN
  PROVE  /\ Cardinality(Missed(W, K, S, k, end)) \in Nat
         /\ Cardinality(Missed(W \cup {x}, K, S, k, end)) \in Nat
         /\ Cardinality(Missed(W \cup {x}, K, S, k, end))
              <= Cardinality(Missed(W, K, S, k, end))
<1>1. Missed(W \cup {x}, K, S, k, end) \in SUBSET Missed(W, K, S, k, end)
  <2>1. ASSUME NEW r \in K, Rank(W \cup {x}, Newest, r) < k
        PROVE  Rank(W, Newest, r) < k
    <3>1. /\ Rank(W, Newest, r) \in Nat
          /\ Rank(W \cup {x}, Newest, r)
               \in {Rank(W, Newest, r), Rank(W, Newest, r) + 1}
      BY RankAfterAdding, NewestIsDirection
    <3>. QED
      BY <2>1, <3>1
  <2>. QED
    BY <2>1 DEF Missed
<1>2. /\ IsFiniteSet(Missed(W, K, S, k, end))
      /\ Cardinality(Missed(W, K, S, k, end)) \in Nat
      /\ Cardinality(Missed(W \cup {x}, K, S, k, end)) \in Nat
  BY MissedIsFinite
<1>3. Cardinality(Missed(W \cup {x}, K, S, k, end))
        <= Cardinality(Missed(W, K, S, k, end))
  BY <1>1, <1>2, FS_Subset, Zenon
<1>. QED
  BY <1>2, <1>3

LEMMA MissedAfterDelete ==
  ASSUME NEW W, IsFiniteSet(W), NEW x, x \notin W, Ordered(W \cup {x}),
         NEW K \in SUBSET (W \cup {x}), NEW S, NEW k \in Nat,
         NEW end \in BOOLEAN
  PROVE  /\ Cardinality(Missed(W \cup {x}, K, S, k, end)) \in Nat
         /\ Cardinality(Missed(W, K \ {x}, S, k, end)) \in Nat
         /\ Cardinality(Missed(W, K \ {x}, S, k, end))
              <= Cardinality(Missed(W \cup {x}, K, S, k, end)) + 1
<1>. DEFINE A == Missed(W, K \ {x}, S, k, end)
            B == Missed(W \cup {x}, K, S, k, end)
<1>1. IsFiniteSet(B)
  <2>1. IsFiniteSet(W \cup {x})
    BY FS_AddElement
  <2>. QED
    BY <2>1, MissedIsFinite
<1>2. ASSUME NEW r \in A \ B
      PROVE  /\ r \in W /\ Rank(W, Newest, r) < k
             /\ ~(Rank(W \cup {x}, Newest, r) < k)
  BY DEF Missed
<1>3. \A r, s \in A \ B : r = s
  BY <1>2, OneRowCrosses, NewestIsDirection
<1>. HIDE DEF A, B
<1>4. /\ Cardinality(A) \in Nat /\ Cardinality(B) \in Nat
      /\ Cardinality(A) <= Cardinality(B) + 1
  BY <1>1, <1>3, OneMore
<1>. QED
  BY <1>4 DEF A, B

\* What a page hands out again is no longer due, and it misses no row that was
\* not missed before.
LEMMA DueAfterPage ==
  ASSUME NEW W, IsFiniteSet(W), Ordered(W), NEW S, NEW k \in Nat, NEW n \in Nat
  PROVE  /\ Cardinality(S \cap Slice(W, Newest, k, n)) \in Nat
         /\ Cardinality(Due(W, S, k)) \in Nat
         /\ Cardinality(Due(W, S \cup Slice(W, Newest, k, n), k + n)) \in Nat
         /\ Cardinality(S \cap Slice(W, Newest, k, n))
              + Cardinality(Due(W, S \cup Slice(W, Newest, k, n), k + n))
              = Cardinality(Due(W, S, k))
<1>. DEFINE again == S \cap Slice(W, Newest, k, n)
            later == Due(W, S \cup Slice(W, Newest, k, n), k + n)
            due   == Due(W, S, k)
<1>1. \A r \in W : Rank(W, Newest, r) \in Nat
  BY RankGrows, NewestIsDirection
<1>2. again = {r \in S \cap W : Rank(W, Newest, r) >= k /\ Rank(W, Newest, r) < k + n}
  BY DEF Slice
<1>3. later = {r \in S \cap W : Rank(W, Newest, r) >= k + n}
  BY <1>1 DEF Due, Slice
<1>4. due = again \cup later /\ again \cap later = {}
  BY <1>1, <1>2, <1>3 DEF Due
<1>5. again \in SUBSET W /\ later \in SUBSET W
  BY <1>2, <1>3
<1>. HIDE DEF again, later, due
<1>6. IsFiniteSet(again) /\ IsFiniteSet(later)
  BY <1>5, FS_Subset, Zenon
<1>7. Cardinality(again) \in Nat /\ Cardinality(later) \in Nat
  BY <1>6, FS_CardinalityType
<1>8. Cardinality(due)
        = Cardinality(again) + Cardinality(later) - Cardinality(again \cap later)
  BY <1>4, <1>6, FS_Union
<1>9. Cardinality(again \cap later) = 0
  BY <1>4, FS_EmptySet
<1>. QED
  BY <1>7, <1>8, <1>9 DEF again, later, due

LEMMA MissedAfterPage ==
  ASSUME NEW W, IsFiniteSet(W), Ordered(W), NEW K \in SUBSET W, NEW S,
         NEW k \in Nat, NEW n \in Nat, NEW end \in BOOLEAN,
         end => ~(Cardinality(W) > k + n)
  PROVE  Missed(W, K, S \cup Slice(W, Newest, k, n), k + n, end)
           \in SUBSET Missed(W, K, S, k, FALSE)
<1>. SUFFICES ASSUME NEW r \in Missed(W, K, S \cup Slice(W, Newest, k, n), k + n, end)
              PROVE  r \in Missed(W, K, S, k, FALSE)
  OBVIOUS
<1>1. /\ r \in K /\ r \in W /\ r \notin S /\ r \notin Slice(W, Newest, k, n)
      /\ \/ end
         \/ Rank(W, Newest, r) < k + n
         \/ \E s \in S : Before(Newest, r, s)
         \/ \E s \in Slice(W, Newest, k, n) : Before(Newest, r, s)
  BY DEF Missed
<1>2. Rank(W, Newest, r) \in Nat /\ Cardinality(W) \in Nat
  BY <1>1, RankGrows, NewestIsDirection, FS_CardinalityType
<1>3. Rank(W, Newest, r) < k + n => Rank(W, Newest, r) < k
  BY <1>1, <1>2 DEF Slice
<1>4. CASE end
  <2>1. Rank(W, Newest, r) < Cardinality(W)
    BY <1>1, RankIsBelowSize, NewestIsDirection
  <2>2. Rank(W, Newest, r) < k + n
    BY <1>2, <1>4, <2>1
  <2>. QED
    BY <1>1, <1>3, <2>2 DEF Missed
<1>5. CASE \E s \in Slice(W, Newest, k, n) : Before(Newest, r, s)
  <2>1. PICK s \in Slice(W, Newest, k, n) : Before(Newest, r, s)
    BY <1>5
  <2>2. s \in W /\ Rank(W, Newest, s) < k + n /\ Rank(W, Newest, s) \in Nat
    BY RankGrows, NewestIsDirection DEF Slice
  <2>3. Rank(W, Newest, r) < Rank(W, Newest, s)
    BY <1>1, <2>1, <2>2, RankGrows, NewestIsDirection
  <2>4. Rank(W, Newest, r) < k + n
    BY <1>2, <2>2, <2>3
  <2>. QED
    BY <1>1, <1>3, <2>4 DEF Missed
<1>. QED
  BY <1>1, <1>3, <1>4, <1>5 DEF Missed

-----------------------------------------------------------------------------
(* Types.                                                                  *)

\* Whatever is asked, an answer is a refusal or a page within the cap.
LEMMA AnswerIsTyped ==
  ASSUME NEW lang \in {"go", "java"}, NEW S \in SUBSET Pool, IsFiniteSet(S),
         NEW page \in RawValues, NEW asked \in RawValues,
         NEW a, a = ListByOffset(lang, S, page, asked)
  PROVE  /\ a.code \in {"ok", "invalid_page", "invalid_limit", "internal_error"}
         /\ a.status = 200 =>
              /\ a.data \in SUBSET Pool
              /\ IsFiniteSet(a.data)
              /\ a.hasMore \in BOOLEAN
              /\ a.size \in 1 .. MaxLimit
              /\ Cardinality(a.data) <= a.size
<1>. DEFINE n == PageSize(lang, asked)
            k == Offset(lang, PageNumber(lang, page), n)
<1>1. \A code \in {"invalid_page", "invalid_limit", "internal_error"} :
        Refusal(code).code = code /\ Refusal(code).status # 200
  BY DEF Refusal
<1>2. CASE PageRefused(lang, page)
  <2>1. a = Refusal("invalid_page")
    BY <1>2 DEF ListByOffset
  <2>. QED
    BY <1>1, <2>1
<1>3. CASE ~PageRefused(lang, page) /\ SizeRefused(lang, asked)
  <2>1. a = Refusal("invalid_limit")
    BY <1>3 DEF ListByOffset
  <2>. QED
    BY <1>1, <2>1
<1>4. CASE ~PageRefused(lang, page) /\ ~SizeRefused(lang, asked)
  <2>1. a = SelectPage(S, PageNumber(lang, page), k, n)
    BY <1>4 DEF ListByOffset
  <2>2. n \in 1 .. MaxLimit /\ MaxLimit \in Nat
    BY <1>4, SizeIsInRange, CapIsInRange
  <2>3. PageNumber(lang, page) \in Int
    <3>1. CASE ~Given(lang, page)
      BY <3>1 DEF PageNumber
    <3>2. CASE Given(lang, page)
      <4>1. page \in Int
        BY <1>4, <3>2 DEF PageRefused, ParsesAsLong
      <4>2. Wrap(page, IntHalf) \in Int
        BY <4>1, WrapIsInt, ParametersAssumption
      <4>. QED
        BY <3>2, <4>1, <4>2 DEF PageNumber, ReadPage
    <3>. QED
      BY <3>1, <3>2
  <2>. HIDE DEF n
  <2>4. k \in Int
    <3>1. (PageNumber(lang, page) - 1) * n \in Int
      BY <2>2, <2>3
    <3>. QED
      BY <3>1, WrapIsInt, ParametersAssumption DEF Offset
  <2>. HIDE DEF k
  <2>5. CASE k < 0
    <3>1. a = Refusal("internal_error")
      BY <2>1, <2>5 DEF SelectPage
    <3>. QED
      BY <1>1, <3>1
  <2>6. CASE ~(k < 0)
    <3>1. k \in Nat /\ n \in Nat
      BY <2>2, <2>4, <2>6
    <3>2. /\ a.status = 200 /\ a.code = "ok" /\ a.size = n
          /\ a.data = Slice(S, Newest, k, n)
          /\ Cardinality(Slice(S, Newest, k, n)) <= n
      BY <2>1, <3>1, SelectPageFacts
    <3>3. a.data \in SUBSET S
      BY <3>2 DEF Slice
    <3>4. IsFiniteSet(a.data)
      BY <3>3, FS_Subset, Zenon
    <3>5. a.hasMore \in BOOLEAN
      <4>1. a.hasMore = (Cardinality(S) > k + n)
        BY <2>1, <3>1, SelectPageFacts
      <4>. QED
        BY <4>1
    <3>. QED
      BY <2>2, <3>2, <3>3, <3>4, <3>5
  <2>. QED
    BY <2>5, <2>6
<1>. QED
  BY <1>2, <1>3, <1>4

LEMMA WalkedFacts ==
  ASSUME TypeOK
  PROVE  /\ Walked \in SUBSET rows /\ Walked \in SUBSET Pool
         /\ IsFiniteSet(Walked) /\ Ordered(Walked)
<1>1. Walked \in SUBSET rows /\ rows \in SUBSET Pool /\ IsFiniteSet(rows)
  BY DEF Walked, Matching, TypeOK
<1>. QED
  BY <1>1, FS_Subset, PoolIsOrdered, OrderedSubset, Zenon

LEMMA LangIsKnown == \A s : Lang(s) \in {"go", "java"}
BY DEF Lang

\* What is written once, without white space, is read as it is.
LEMMA ReadingFacts ==
  /\ \A lang, raw : Reading(lang, Once(raw)) = raw
  /\ \A lang, p : p.form = "once" => Reading(lang, p) = p.raw
  /\ \A lang : \A p \in Parameter : Reading(lang, p) \in RawValues
BY DEF Reading, Once, Parameter, RawValues

LEMMA TypeStep == TypeOK /\ [Next]_vars => TypeOK'
<1>. SUFFICES ASSUME TypeOK, [Next]_vars PROVE TypeOK'
  OBVIOUS
<1>1. ASSUME NEW r \in Pool, Insert(r) PROVE TypeOK'
  <2>1. IsFiniteSet(rows \cup {r})
    BY FS_AddElement DEF TypeOK
  <2>2. inserted' \in Nat
    BY <1>1 DEF Insert, TypeOK
  <2>. QED
    BY <1>1, <2>1, <2>2 DEF Insert, TypeOK, client, flight
<1>2. ASSUME NEW r \in Pool, Delete(r) PROVE TypeOK'
  <2>1. IsFiniteSet(rows \ {r})
    BY FS_RemoveElement DEF TypeOK
  <2>2. deleted' \in Nat
    BY <1>2 DEF Delete, TypeOK
  <2>. QED
    BY <1>2, <2>1, <2>2 DEF Delete, TypeOK, client, flight
<1>3. MaxFaults \in Nat /\ (Fault => faults' \in 0 .. MaxFaults)
  BY OffsetAssumption DEF Fault, TypeOK
<1>4. CASE Lose
  BY <1>3, <1>4 DEF Lose, TypeOK, client
<1>5. ASSUME NEW s \in Servers, Request(s) PROVE TypeOK'
  <2>1. Once(reached + 1) \in Parameter /\ Once(size) \in Parameter
    BY OffsetAssumption DEF TypeOK, RawValues, Once, Parameter, Forms
  <2>2. req' \in Requests /\ stage' = "received"
    BY <1>5, <2>1 DEF Request, Send, Requests
  <2>. QED
    BY <1>5, <2>2 DEF Request, Send, TypeOK, client
<1>6. ASSUME NEW s \in Servers, NEW p \in Pages, NEW n \in Sizes,
             Jump(s, p, n)
      PROVE  TypeOK'
  <2>1. p \in Parameter /\ n \in Parameter
    BY OffsetAssumption
  <2>2. req' \in Requests /\ stage' = "received"
    BY <1>6, <2>1 DEF Jump, Send, Requests
  <2>. QED
    BY <1>3, <1>6, <2>2 DEF Jump, Send, TypeOK, client
<1>7. CASE Handle
  <2>1. /\ stage' = "answered" /\ req \in Requests /\ req' = req
        /\ answer' = ListByOffset(Lang(req.server), Walked, PageRead, SizeRead)
    BY <1>7 DEF Handle, TypeOK, Walked
  <2>2. PageRead \in RawValues /\ SizeRead \in RawValues
    BY <2>1, ReadingFacts DEF Requests, PageRead, SizeRead
  <2>3. /\ answer'.code \in {"ok", "invalid_page", "invalid_limit",
                             "internal_error"}
        /\ answer'.status = 200 =>
             /\ answer'.data \in SUBSET Pool
             /\ IsFiniteSet(answer'.data)
             /\ answer'.hasMore \in BOOLEAN
             /\ answer'.size \in 1 .. MaxLimit
             /\ Cardinality(answer'.data) <= answer'.size
    BY <2>1, <2>2, WalkedFacts, LangIsKnown, AnswerIsTyped
  <2>4. base' \in SUBSET Pool /\ inserted' \in Nat /\ deleted' \in Nat
    BY <1>7, WalkedFacts DEF Handle, TypeOK, Walked
  <2>. QED
    BY <1>7, <2>1, <2>3, <2>4 DEF Handle, TypeOK, client
<1>8. CASE HandleFails
  <2>1. /\ Refusal("internal_error").code = "internal_error"
        /\ Refusal("internal_error").status # 200
    BY DEF Refusal
  <2>. QED
    BY <1>3, <1>8, <2>1 DEF HandleFails, TypeOK, client
<1>9. CASE Deliver
  <2>1. seen' \in SUBSET Pool /\ reached' \in Nat
    BY <1>9 DEF Deliver, TypeOK
  <2>2. repeats' \in Nat
    <3>1. CASE req.ofWalk /\ answer.status = 200
      <4>1. Cardinality(seen \cap answer.data) \in Nat
        <5>1. IsFiniteSet(answer.data)
          BY <1>9, <3>1 DEF Deliver, TypeOK
        <5>2. seen \cap answer.data \in SUBSET answer.data
          OBVIOUS
        <5>3. IsFiniteSet(seen \cap answer.data)
          BY <5>1, <5>2, FS_Subset, Zenon
        <5>. QED
          BY <5>3, FS_CardinalityType
      <4>. QED
        BY <1>9, <3>1, <4>1 DEF Deliver, TypeOK
    <3>. QED
      BY <1>9, <3>1 DEF Deliver, TypeOK
  <2>3. done' \in BOOLEAN
    BY <1>9 DEF Deliver, TypeOK
  <2>. QED
    BY <1>9, <2>1, <2>2, <2>3 DEF Deliver, TypeOK
<1>10. CASE UNCHANGED vars
  BY <1>10 DEF TypeOK, vars
<1>. QED
  BY <1>1, <1>2, <1>4, <1>5, <1>6, <1>7, <1>8, <1>9, <1>10 DEF Next

LEMMA TypeInit == Init => TypeOK
<1>. SUFFICES ASSUME Init PROVE TypeOK
  OBVIOUS
<1>1. stage = "idle" /\ faults \in 0 .. MaxFaults
  BY OffsetAssumption DEF Init
<1>2. rows \in SUBSET Pool /\ IsFiniteSet(rows) /\ fresh \in SUBSET (Pool \ rows)
  BY DEF Init
<1>3. /\ seen \in SUBSET Pool /\ base \in SUBSET Pool /\ done \in BOOLEAN
      /\ reached \in Nat /\ repeats \in Nat /\ inserted \in Nat /\ deleted \in Nat
      /\ account \in Accounts /\ size \in WalkSizes
  BY DEF Init
<1>. QED
  BY <1>1, <1>2, <1>3 DEF TypeOK

\* Every variable keeps its type, whatever the client puts in `page` and `size`:
\* a page never holds more rows than its size, nor a size more than the cap.
THEOREM TypeCorrect == Spec => []TypeOK
BY TypeInit, TypeStep, PTL DEF Spec

-----------------------------------------------------------------------------
(* What a single page is worth.                                            *)

\* A page whose rank 32 bits hold is answered, row for row, by both
\* implementations; no page below it is out of reach.
THEOREM PageIsRight == Spec => PageIsTheOneAsked
<1>1. TypeOK /\ Handle /\ AskedOnce /\ InRange(req.page.raw, req.size.raw)
        => answer'.code = "ok" /\ RanksAsked
  <2>. SUFFICES ASSUME TypeOK, Handle, AskedOnce,
                       InRange(req.page.raw, req.size.raw)
                PROVE  answer'.code = "ok" /\ RanksAsked
    OBVIOUS
  <2>. DEFINE n == CapLimit(req.size.raw)
              a == ListByOffset(Lang(req.server), Walked, req.page.raw,
                                req.size.raw)
  <2>1. answer' = a /\ req' = req
    BY ReadingFacts DEF Handle, Walked, AskedOnce, PageRead, SizeRead
  <2>2. /\ req.page.raw \in 1 .. IntHalf - 1
        /\ req.size.raw \in Nat /\ req.size.raw < LongHalf
        /\ (req.page.raw - 1) * n < IntHalf
    BY ParametersAssumption DEF InRange
  <2>3. /\ a.code = "ok"
        /\ a.data = Slice(Walked, Newest, (req.page.raw - 1) * n, n)
        /\ a.page = req.page.raw
        /\ a.hasMore = (Cardinality(Walked) > (req.page.raw - 1) * n + n)
    BY <2>2, WalkedFacts, LangIsKnown, ListFacts
  <2>. QED
    BY <2>1, <2>3 DEF RanksAsked, Walked
<1>2. TypeOK /\ [Next]_vars =>
        [Handle /\ AskedOnce /\ InRange(req.page.raw, req.size.raw)
           => answer'.code = "ok" /\ RanksAsked]_vars
  BY <1>1
<1>. QED
  BY <1>2, TypeCorrect, PTL DEF Spec, PageIsTheOneAsked

\* What both implementations make of a parameter without white space, within
\* 32 bits.
LEMMA PlainReadsAlike ==
  ASSUME NEW page, Plain(page), NEW asked, Plain(asked)
  PROVE  /\ PageRefused("java", page) <=> PageRefused("go", page)
         /\ SizeRefused("java", asked) <=> SizeRefused("go", asked)
         /\ PageSize("java", asked) = PageSize("go", asked)
         /\ ~PageRefused("go", page) =>
              /\ PageNumber("java", page) = PageNumber("go", page)
              /\ PageNumber("go", page) \in Nat \ {0}
<1>1. /\ IntHalf \in Nat \ {0}
      /\ \A raw : Plain(raw) => (raw = Blank => raw = Absent)
  <2>1. Blank \notin Int /\ Blank # Word /\ IntHalf \in Nat \ {0}
    BY ParametersAssumption
  <2>. QED
    BY <2>1 DEF Plain
<1>2. \A raw : Plain(raw) => (Given("java", raw) <=> Given("go", raw))
  BY <1>1 DEF Given
<1>3. ASSUME NEW raw, Plain(raw), ParsesAsLong(raw), Given("go", raw)
      PROVE  raw \in Int /\ ReadPage("java", raw) = raw
  <2>1. raw \in -IntHalf .. IntHalf - 1
    BY <1>3 DEF Plain, Given, ParsesAsLong
  <2>2. Wrap(raw, IntHalf) = raw
    BY <1>1, <2>1, WrapKeeps
  <2>. QED
    BY <2>1, <2>2 DEF ReadPage
<1>4. \A raw : ReadPage("go", raw) = raw
  BY DEF ReadPage
<1>5. PageRefused("java", page) <=> PageRefused("go", page)
  BY <1>2, <1>3, <1>4 DEF PageRefused
<1>6. SizeRefused("java", asked) <=> SizeRefused("go", asked)
  BY <1>2 DEF SizeRefused
<1>7. PageSize("java", asked) = PageSize("go", asked)
  BY <1>2 DEF PageSize
<1>8. ASSUME ~PageRefused("go", page)
      PROVE  /\ PageNumber("java", page) = PageNumber("go", page)
             /\ PageNumber("go", page) \in Nat \ {0}
  <2>1. CASE ~Given("go", page)
    BY <1>2, <2>1 DEF PageNumber
  <2>2. CASE Given("go", page)
    <3>1. ParsesAsLong(page) /\ ~(ReadPage("go", page) < 1)
      BY <1>8, <2>2 DEF PageRefused
    <3>2. page \in Int /\ ReadPage("java", page) = page /\ ReadPage("go", page) = page
      BY <1>3, <1>4, <2>2, <3>1
    <3>. QED
      BY <1>2, <2>2, <3>1, <3>2 DEF PageNumber
  <2>. QED
    BY <2>1, <2>2
<1>. QED
  BY <1>5, <1>6, <1>7, <1>8

\* But for a parameter repeated or with white space around it, and for ranks
\* beyond 32 bits, both implementations give a request the same answer, the same
\* refusal included.
THEOREM TwinsAlike == Spec => TwinsAgree
<1>. DEFINE S     == Matching(rows, account)
            page  == req.page.raw
            asked == req.size.raw
            small == (PageNumber("go", page) - 1) * PageSize("go", asked) < IntHalf
            plain == /\ AskedOnce
                     /\ Plain(page) /\ Plain(asked)
                     /\ \/ PageRefused("go", page)
                        \/ SizeRefused("go", asked)
                        \/ small
            Twin(lang) == ListByOffset(lang, S, Reading(lang, req.page),
                                       Reading(lang, req.size))
<1>1. ASSUME TypeOK, Handle, plain, NEW lang \in {"go", "java"}
      PROVE  Twin(lang) = answer'
  <2>1. \A l : Twin(l) = ListByOffset(l, S, page, asked)
    BY <1>1, ReadingFacts DEF AskedOnce
  <2>2. answer' = Twin(Lang(req.server))
    BY <1>1 DEF Handle, PageRead, SizeRead
  <2>3. SUFFICES ListByOffset("java", S, page, asked)
                   = ListByOffset("go", S, page, asked)
    BY <2>1, <2>2, LangIsKnown
  <2>4. CASE PageRefused("go", page) \/ SizeRefused("go", asked)
    BY <1>1, <2>4, PlainReadsAlike DEF ListByOffset
  <2>5. CASE ~PageRefused("go", page) /\ ~SizeRefused("go", asked)
    <3>. DEFINE p == PageNumber("go", page)
                n == PageSize("go", asked)
    <3>1. asked \in RawValues
      BY <1>1 DEF Handle, TypeOK, Requests, Parameter
    <3>2. n \in Nat
      BY <2>5, <3>1, SizeIsInRange, CapIsInRange
    <3>3. p \in Nat \ {0} /\ small
      BY <1>1, <2>5, PlainReadsAlike
    <3>4. Offset("java", p, n) = Offset("go", p, n)
      <4>1. (p - 1) * n \in 0 .. IntHalf - 1
        <5>1. p - 1 \in Nat
          BY <3>3
        <5>. QED
          BY <3>2, <3>3, <5>1, ParametersAssumption
      <4>. QED
        BY <4>1, WrapKeeps, ParametersAssumption DEF Offset
    <3>. QED
      BY <1>1, <2>5, <3>4, PlainReadsAlike DEF ListByOffset
  <2>. QED
    BY <2>4, <2>5
<1>2. TypeOK /\ [Next]_vars =>
        [Handle /\ plain => \A lang \in {"go", "java"} : Twin(lang) = answer']_vars
  BY <1>1
<1>. QED
  BY <1>2, TypeCorrect, PTL DEF Spec, TwinsAgree

-----------------------------------------------------------------------------
(* How far the walk drifts.                                                *)

\* A write moves a bound by no more than it is counted for.
LEMMA WritesKeepTheBound ==
  ASSUME TypeOK, NEW x \in Pool, Insert(x) \/ Delete(x),
         base \cap fresh = {}, base = Matching(base, account),
         NEW S \in SUBSET Pool, NEW k \in Nat, NEW again \in Nat,
         NEW end \in BOOLEAN, Bounded(S, k, again, end)
  PROVE  /\ again + Cardinality(Due(Walked', S, k)) <= inserted'
         /\ Cardinality(Missed(Walked', base' \cap rows', S, k, end)) <= deleted'
         /\ S \cap fresh' = {}
<1>. DEFINE K == base \cap rows
<1>1. /\ account' = account /\ base' = base
      /\ inserted \in Nat /\ deleted \in Nat
      /\ rows \in SUBSET Pool /\ fresh \in SUBSET (Pool \ rows)
  BY DEF Insert, Delete, client, TypeOK
<1>2. /\ K \in SUBSET Walked /\ \A r \in base : Mine(r)
      /\ Walked \in SUBSET rows /\ IsFiniteSet(Walked)
  <2>1. \A r \in base : Mine(r)
    BY DEF Matching, Mine
  <2>2. K \in SUBSET Walked
    BY <2>1 DEF Walked, Matching, Mine
  <2>. QED
    BY <2>1, <2>2, WalkedFacts
<1>3. /\ again + Cardinality(Due(Walked, S, k)) <= inserted
      /\ Cardinality(Missed(Walked, K, S, k, end)) <= deleted
      /\ S \cap fresh = {}
  BY DEF Bounded
<1>4. Walked \cup {x} \in SUBSET Pool /\ Ordered(Walked \cup {x})
  BY <1>1, <1>2, PoolIsOrdered, OrderedSubset
<1>5. CASE Insert(x)
  <2>1. /\ x \in fresh /\ x \notin Walked /\ x \notin S /\ x \notin base
        /\ rows' = rows \cup {x} /\ fresh' = fresh \ {x}
        /\ base' \cap rows' = K /\ deleted' = deleted
    BY <1>1, <1>2, <1>3, <1>5 DEF Insert
  <2>2. CASE Mine(x)
    <3>1. Walked' = Walked \cup {x} /\ inserted' = inserted + 1
      BY <1>1, <1>5, <2>1, <2>2 DEF Insert, Walked, Matching, Mine
    <3>2. /\ Cardinality(Due(Walked, S, k)) \in Nat
          /\ Cardinality(Due(Walked', S, k)) \in Nat
          /\ Cardinality(Due(Walked', S, k)) <= Cardinality(Due(Walked, S, k)) + 1
      BY <1>2, <1>4, <2>1, <3>1, DueAfterInsert
    <3>3. /\ Cardinality(Missed(Walked, K, S, k, end)) \in Nat
          /\ Cardinality(Missed(Walked', K, S, k, end)) \in Nat
          /\ Cardinality(Missed(Walked', K, S, k, end))
               <= Cardinality(Missed(Walked, K, S, k, end))
      BY <1>2, <1>4, <2>1, <3>1, MissedAfterInsert
    <3>. QED
      BY <1>1, <1>3, <2>1, <3>1, <3>2, <3>3
  <2>3. CASE ~Mine(x)
    <3>1. Walked' = Walked /\ inserted' = inserted
      BY <1>1, <1>5, <2>1, <2>3 DEF Insert, Walked, Matching, Mine
    <3>. QED
      BY <1>3, <2>1, <3>1
  <2>. QED
    BY <2>2, <2>3
<1>6. CASE Delete(x)
  <2>1. /\ x \in rows /\ rows' = rows \ {x} /\ fresh' = fresh
        /\ inserted' = inserted
        /\ base' \cap rows' = K \ {x}
    BY <1>1, <1>6 DEF Delete
  <2>2. CASE Mine(x)
    <3>1. /\ Walked' \cup {x} = Walked /\ x \notin Walked' /\ deleted' = deleted + 1
      BY <1>1, <1>6, <2>1, <2>2 DEF Delete, Walked, Matching, Mine
    <3>2. IsFiniteSet(Walked') /\ Ordered(Walked' \cup {x})
      <4>1. Walked' \in SUBSET Walked /\ Walked' \cup {x} \in SUBSET Pool
        BY <1>4, <3>1
      <4>. QED
        BY <1>2, <4>1, FS_Subset, PoolIsOrdered, OrderedSubset, Zenon
    <3>3. /\ Cardinality(Due(Walked', S, k)) \in Nat
          /\ Cardinality(Due(Walked, S, k)) \in Nat
          /\ Cardinality(Due(Walked', S, k)) <= Cardinality(Due(Walked, S, k))
      BY <3>1, <3>2, DueAfterDelete
    <3>4. /\ Cardinality(Missed(Walked, K, S, k, end)) \in Nat
          /\ Cardinality(Missed(Walked', K \ {x}, S, k, end)) \in Nat
          /\ Cardinality(Missed(Walked', K \ {x}, S, k, end))
               <= Cardinality(Missed(Walked, K, S, k, end)) + 1
      BY <1>2, <3>1, <3>2, MissedAfterDelete
    <3>. QED
      BY <1>1, <1>3, <2>1, <3>1, <3>3, <3>4
  <2>3. CASE ~Mine(x)
    <3>1. Walked' = Walked /\ deleted' = deleted
      BY <1>1, <1>6, <2>1, <2>3 DEF Delete, Walked, Matching, Mine
    <3>2. K \ {x} = K
      BY <1>2, <2>3
    <3>. QED
      BY <1>3, <2>1, <3>1, <3>2
  <2>. QED
    BY <2>2, <2>3
<1>. QED
  BY <1>5, <1>6

\* The next page of the walk is within reach of 32 bits, because the table is.
LEMMA NextPageIsReachable ==
  ASSUME SmallTable, TypeOK, DriftInvariant, stage # "idle", req.ofWalk
  PROVE  LET n == CapLimit(size) IN
         /\ PageRead = reached + 1 /\ SizeRead = size /\ ~done
         /\ size \in Nat /\ n \in 1 .. MaxLimit /\ MaxLimit \in Nat
         /\ reached * n \in Nat
         /\ PageRead \in 1 .. IntHalf - 1
         /\ (PageRead - 1) * n = reached * n
         /\ (PageRead - 1) * n < IntHalf
         /\ (reached + 1) * n = reached * n + n
<1>. DEFINE n == CapLimit(size)
<1>1. /\ PageRead = reached + 1 /\ SizeRead = size /\ ~done
      /\ size \in Nat /\ reached \in Nat
      /\ reached * n = 0 \/ reached * n < Cardinality(Pool)
  <2>1. req.page = Once(reached + 1) /\ req.size = Once(size)
    BY DEF DriftInvariant
  <2>2. PageRead = reached + 1 /\ SizeRead = size
    BY <2>1, ReadingFacts DEF PageRead, SizeRead
  <2>. QED
    BY <2>2, OffsetAssumption DEF TypeOK, DriftInvariant, Bounded
<1>2. n \in 1 .. MaxLimit /\ MaxLimit \in Nat
  BY <1>1, CapIsInRange
<1>3. Cardinality(Pool) \in Nat /\ Cardinality(Pool) < IntHalf
      /\ IntHalf \in Nat /\ IntHalf > 1
  BY FS_CardinalityType, ParametersAssumption, LimitsAssumption DEF SmallTable
<1>. HIDE DEF n
<1>4. /\ reached * n \in Nat /\ reached <= reached * n
      /\ (reached + 1) * n = reached * n + n
  BY <1>1, <1>2
<1>5. reached + 1 \in 1 .. IntHalf - 1
  BY <1>1, <1>3, <1>4
<1>6. PageRead - 1 = reached
  BY <1>1
<1>7. reached * n < IntHalf
  BY <1>1, <1>3, <1>4
<1>. QED
  BY <1>1, <1>2, <1>4, <1>5, <1>6, <1>7 DEF n

\* The snapshot of a page decides what is handed out again and what is missed.
LEMMA HandleKeepsTheDrift ==
  ASSUME SmallTable, TypeOK, DriftInvariant, Handle
  PROVE  DriftInvariant'
<1>. DEFINE n == CapLimit(size)
            k == reached * n
            D == Slice(Walked, Newest, k, n)
<1>1. /\ stage = "received" /\ stage' = "answered" /\ req' = req
      /\ UNCHANGED <<rows, fresh, account, size, reached, seen, repeats, done>>
      /\ Walked' = Walked
      /\ answer' = ListByOffset(Lang(req.server), Walked, PageRead, SizeRead)
  BY DEF Handle, client, Walked
<1>2. /\ Walked \in SUBSET rows /\ Walked \in SUBSET Pool
      /\ IsFiniteSet(Walked) /\ Ordered(Walked) /\ Cardinality(Walked) \in Nat
      /\ fresh \in SUBSET (Pool \ rows) /\ reached \in Nat /\ repeats \in Nat
  BY WalkedFacts, FS_CardinalityType DEF TypeOK
<1>3. k \in Nat
  <2>1. n \in Nat
    BY CapIsInRange, OffsetAssumption DEF TypeOK
  <2>. QED
    BY <1>2, <2>1
<1>4. /\ base' \cap fresh' = {}
      /\ base' = Matching(base', account')
  <2>1. base' = Walked \/ base' = base
    BY DEF Handle, Walked
  <2>2. Walked = Matching(Walked, account)
    BY DEF Walked, Matching
  <2>. QED
    BY <1>1, <1>2, <2>1, <2>2 DEF DriftInvariant
<1>5. Bounded(seen, k, repeats, done)'
  <2>1. CASE req.ofWalk /\ reached = 0
    <3>1. /\ seen = {} /\ repeats = 0 /\ inserted' = 0 /\ deleted' = 0
          /\ base' = Walked
      BY <2>1 DEF Handle, DriftInvariant, Walked
    <3>2. k = 0 /\ ~done
      BY <1>1, <2>1, NextPageIsReachable
    <3>3. Due(Walked, seen, k) = {}
      BY <3>1 DEF Due
    <3>4. Missed(Walked, base' \cap rows, seen, k, done) = {}
      <4>1. \A r \in Walked : ~(Rank(Walked, Newest, r) < k)
        BY <1>2, <3>2, RankGrows, NewestIsDirection
      <4>. QED
        BY <3>1, <3>2, <4>1 DEF Missed
    <3>5. Cardinality({}) = 0
      BY FS_EmptySet
    <3>6. k' = k
      BY <1>1
    <3>. HIDE DEF k
    <3>. QED
      BY <1>1, <3>1, <3>2, <3>3, <3>4, <3>5, <3>6 DEF Bounded
  <2>2. CASE ~(req.ofWalk /\ reached = 0)
    <3>1. UNCHANGED <<base, inserted, deleted>>
      BY <2>2 DEF Handle
    <3>. QED
      BY <1>1, <3>1 DEF DriftInvariant, Bounded
  <2>. QED
    BY <2>1, <2>2
<1>6. ASSUME WalkPage'
      PROVE  Bounded(seen \cup answer.data, (reached + 1) * n,
                     repeats + Cardinality(seen \cap answer.data),
                     ~answer.hasMore)'
  <2>1. req.ofWalk /\ answer'.status = 200
    BY <1>1, <1>6 DEF WalkPage
  <2>2. /\ PageRead = reached + 1 /\ SizeRead = size /\ ~done
        /\ size \in Nat /\ n \in Nat
        /\ PageRead \in 1 .. IntHalf - 1
        /\ (PageRead - 1) * n = k
        /\ (PageRead - 1) * n < IntHalf
        /\ (reached + 1) * n = k + n
    BY <1>1, <2>1, NextPageIsReachable
  <2>3. size < LongHalf
    <3>1. ~SizeRefused(Lang(req.server), size)
      <4>. SUFFICES ASSUME SizeRefused(Lang(req.server), size) PROVE FALSE
        OBVIOUS
      <4>1. answer' \in {Refusal("invalid_page"), Refusal("invalid_limit")}
        BY <1>1, <2>2 DEF ListByOffset
      <4>2. answer'.status # 200
        BY <4>1 DEF Refusal
      <4>. QED
        BY <2>1, <4>2
    <3>2. size \notin {Absent, Blank, Word}
      <4>1. size \in Int
        BY <2>2
      <4>. QED
        BY <4>1, ParametersAssumption
    <3>3. size \in -LongHalf .. LongHalf - 1
      BY <3>1, <3>2 DEF SizeRefused, Given, ParsesAsLong
    <3>. QED
      BY <3>3, <2>2, ParametersAssumption
  <2>4. /\ answer'.data = D
        /\ answer'.hasMore = (Cardinality(Walked) > k + n)
    <3>. DEFINE lang == Lang(req.server)
    <3>1. lang \in {"go", "java"}
      BY LangIsKnown
    <3>. HIDE DEF lang
    <3>. DEFINE a == ListByOffset(lang, Walked, PageRead, SizeRead)
    <3>2. /\ a.data = Slice(Walked, Newest, (PageRead - 1) * n, n)
          /\ a.hasMore = (Cardinality(Walked) > (PageRead - 1) * n + n)
      BY <1>2, <2>2, <2>3, <3>1, ListFacts
    <3>3. answer' = a
      BY <1>1 DEF lang
    <3>. HIDE DEF a, n
    <3>. QED
      BY <2>2, <3>2, <3>3
  <2>. DEFINE S     == seen \cup D
              again == Cardinality(seen \cap D)
              end   == ~answer'.hasMore
              K     == base' \cap rows
  <2>5. /\ Cardinality(Due(Walked, seen, k)) \in Nat
        /\ again \in Nat
        /\ Cardinality(Due(Walked, S, k + n)) \in Nat
        /\ again + Cardinality(Due(Walked, S, k + n))
             = Cardinality(Due(Walked, seen, k))
    <3>1. n \in Nat
      BY <2>2
    <3>. HIDE DEF k, n
    <3>. QED
      BY <1>2, <1>3, <3>1, DueAfterPage, NewestIsDirection
  <2>6. /\ repeats + Cardinality(Due(Walked, seen, k)) <= inserted'
        /\ Cardinality(Missed(Walked, K, seen, k, done)) <= deleted'
        /\ seen \cap fresh = {}
    BY <1>1, <1>5 DEF Bounded
  <2>7. inserted' \in Nat /\ deleted' \in Nat
    BY DEF Handle, TypeOK
  <2>8. repeats + again + Cardinality(Due(Walked, S, k + n)) <= inserted'
    <3>. HIDE DEF S, again, k, n
    <3>. QED
      BY <1>2, <2>5, <2>6, <2>7
  <2>9. K \in SUBSET Walked
    <3>1. base' = Matching(base', account)
      BY <1>1, <1>4
    <3>. QED
      BY <3>1 DEF Walked, Matching
  <2>10. Cardinality(Missed(Walked, K, S, k + n, end)) <= deleted'
    <3>1. Missed(Walked, K, S, k + n, end)
            \in SUBSET Missed(Walked, K, seen, k, FALSE)
      <4>1. end => ~(Cardinality(Walked) > k + n)
        BY <2>4
      <4>. HIDE DEF k, n
      <4>2. end \in BOOLEAN
        OBVIOUS
      <4>. HIDE DEF end
      <4>. QED
        BY <1>2, <1>3, <2>2, <2>9, <4>1, <4>2, MissedAfterPage
    <3>2. Missed(Walked, K, seen, k, FALSE) = Missed(Walked, K, seen, k, done)
      BY <2>2 DEF Missed
    <3>3. /\ IsFiniteSet(Missed(Walked, K, seen, k, done))
          /\ Cardinality(Missed(Walked, K, seen, k, done)) \in Nat
      BY <1>2, <2>9, MissedIsFinite
    <3>. HIDE DEF S, k, n, end, K
    <3>4. /\ Cardinality(Missed(Walked, K, S, k + n, end))
               <= Cardinality(Missed(Walked, K, seen, k, done))
          /\ Cardinality(Missed(Walked, K, S, k + n, end)) \in Nat
      BY <3>1, <3>2, <3>3, FS_Subset, FS_CardinalityType, Zenon
    <3>. QED
      BY <2>6, <2>7, <3>3, <3>4
  <2>11. S \cap fresh = {}
    <3>1. D \in SUBSET Walked
      BY DEF Slice
    <3>. QED
      BY <1>2, <2>6, <3>1
  <2>12. ~end => k + n < Cardinality(Pool)
    <3>1. Cardinality(Walked) <= Cardinality(Pool) /\ Cardinality(Pool) \in Nat
      BY <1>2, FS_Subset, FS_CardinalityType DEF SmallTable
    <3>2. ~end => k + n < Cardinality(Walked)
      BY <2>4
    <3>. QED
      BY <1>2, <1>3, <2>2, <3>1, <3>2
  <2>13. /\ (seen \cup answer.data)' = S
         /\ Cardinality(seen \cap answer.data)' = again
         /\ ((reached + 1) * n)' = k + n
    BY <1>1, <2>2, <2>4
  <2>. HIDE DEF S, again, k, n, D
  <2>. QED
    BY <1>1, <2>8, <2>10, <2>11, <2>12, <2>13 DEF Bounded
<1>. QED
  BY <1>1, <1>4, <1>5, <1>6 DEF DriftInvariant, WalkPage

LEMMA WriteKeepsTheDrift ==
  ASSUME SmallTable, TypeOK, DriftInvariant, NEW x \in Pool,
         Insert(x) \/ Delete(x)
  PROVE  DriftInvariant'
<1>. DEFINE n  == CapLimit(size)
            S2 == seen \cup answer.data
            a2 == repeats + Cardinality(seen \cap answer.data)
<1>1. /\ UNCHANGED <<account, size, reached, seen, repeats, done, stage, req,
                     answer, base>>
      /\ fresh' \in SUBSET fresh
  BY DEF Insert, Delete, client, flight
<1>2. base \cap fresh = {} /\ base = Matching(base, account)
  BY DEF DriftInvariant
<1>3. n \in Nat /\ reached \in Nat /\ reached * n \in Nat /\ (reached + 1) * n \in Nat
  <2>1. n \in Nat /\ reached \in Nat
    BY CapIsInRange, OffsetAssumption DEF TypeOK
  <2>. HIDE DEF n
  <2>. QED
    BY <2>1
<1>4. Bounded(seen, reached * n, repeats, done)'
  <2>. DEFINE k == reached * n
  <2>1. Bounded(seen, k, repeats, done)
    BY DEF DriftInvariant
  <2>2. k \in Nat /\ k' = k /\ seen \in SUBSET Pool /\ repeats \in Nat
        /\ done \in BOOLEAN
    BY <1>1, <1>3 DEF TypeOK
  <2>. HIDE DEF k, n
  <2>3. /\ repeats + Cardinality(Due(Walked', seen, k)) <= inserted'
        /\ Cardinality(Missed(Walked', base' \cap rows', seen, k, done)) <= deleted'
        /\ seen \cap fresh' = {}
    BY <1>2, <2>1, <2>2, WritesKeepTheBound
  <2>4. ~done => k = 0 \/ k < Cardinality(Pool)
    BY <2>1 DEF Bounded
  <2>. QED
    BY <1>1, <2>2, <2>3, <2>4 DEF Bounded, k
<1>5. ASSUME WalkPage
      PROVE  Bounded(S2, (reached + 1) * n, a2, ~answer.hasMore)'
  <2>. DEFINE k   == (reached + 1) * n
              end == ~answer.hasMore
  <2>1. Bounded(S2, k, a2, end)
    BY <1>5 DEF DriftInvariant
  <2>2. k \in Nat /\ k' = k /\ S2 \in SUBSET Pool /\ S2' = S2 /\ a2' = a2
    BY <1>1, <1>3, <1>5 DEF TypeOK, WalkPage
  <2>3. a2 \in Nat
    <3>1. IsFiniteSet(answer.data) /\ seen \cap answer.data \in SUBSET answer.data
      BY <1>5 DEF TypeOK, WalkPage
    <3>2. IsFiniteSet(seen \cap answer.data)
      BY <3>1, FS_Subset, Zenon
    <3>3. Cardinality(seen \cap answer.data) \in Nat /\ repeats \in Nat
      BY <3>2, FS_CardinalityType DEF TypeOK
    <3>. QED
      BY <3>3
  <2>4. end \in BOOLEAN
    OBVIOUS
  <2>. HIDE DEF k, n, S2, a2, end
  <2>5. /\ a2 + Cardinality(Due(Walked', S2, k)) <= inserted'
        /\ Cardinality(Missed(Walked', base' \cap rows', S2, k, end)) <= deleted'
        /\ S2 \cap fresh' = {}
    BY <1>2, <2>1, <2>2, <2>3, <2>4, WritesKeepTheBound
  <2>6. ~end => k = 0 \/ k < Cardinality(Pool)
    BY <2>1 DEF Bounded
  <2>. QED
    BY <1>1, <2>2, <2>5, <2>6 DEF Bounded, end, k
<1>. QED
  BY <1>1, <1>2, <1>4, <1>5 DEF DriftInvariant, WalkPage

LEMMA DriftStep ==
  ASSUME SmallTable, TypeOK, DriftInvariant, [Next]_vars
  PROVE  DriftInvariant'
<1>. DEFINE still == UNCHANGED <<rows, fresh, account, size, reached, seen,
                                 base, repeats, inserted, deleted, done>>
<1>1. ASSUME still,
             ~WalkPage' \/ UNCHANGED flight,
             \/ UNCHANGED flight
             \/ stage' = "idle"
             \/ ~req'.ofWalk
             \/ ~done /\ req'.page = Once(reached + 1) /\ req'.size = Once(size)
      PROVE  DriftInvariant'
  BY <1>1 DEF DriftInvariant, Bounded, Walked, WalkPage, flight
<1>2. ASSUME NEW r \in Pool, Insert(r) \/ Delete(r) PROVE DriftInvariant'
  BY <1>2, WriteKeepsTheDrift
<1>3. CASE Lose
  BY <1>1, <1>3 DEF Lose, client, WalkPage
<1>4. ASSUME NEW s \in Servers, Request(s) PROVE DriftInvariant'
  BY <1>1, <1>4 DEF Request, Send, client, WalkPage
<1>5. ASSUME NEW s \in Servers, NEW p \in Pages, NEW n \in Sizes,
             Jump(s, p, n)
      PROVE  DriftInvariant'
  BY <1>1, <1>5 DEF Jump, Send, client, WalkPage
<1>6. CASE Handle
  BY <1>6, HandleKeepsTheDrift
<1>7. CASE HandleFails
  <2>1. Refusal("internal_error").status # 200
    BY DEF Refusal
  <2>. QED
    BY <1>7, <2>1 DEF HandleFails, client, WalkPage, DriftInvariant, Bounded,
                      Walked
<1>8. CASE Deliver
  <2>1. CASE req.ofWalk /\ answer.status = 200
    <3>1. WalkPage
      BY <1>8, <2>1 DEF Deliver, WalkPage
    <3>2. Bounded(seen \cup answer.data, (reached + 1) * CapLimit(size),
                  repeats + Cardinality(seen \cap answer.data),
                  ~answer.hasMore)
      BY <3>1 DEF DriftInvariant
    <3>3. /\ reached' = reached + 1 /\ seen' = seen \cup answer.data
          /\ repeats' = repeats + Cardinality(seen \cap answer.data)
          /\ done' = ~answer.hasMore
          /\ stage' = "idle"
          /\ UNCHANGED <<account, size, rows, fresh, base, inserted, deleted>>
      BY <1>8, <2>1 DEF Deliver
    <3>4. reached' # 0
      BY <3>3 DEF TypeOK
    <3>5. Bounded(seen, reached * CapLimit(size), repeats, done)'
      BY <3>2, <3>3 DEF Bounded, Walked
    <3>. QED
      BY <3>3, <3>4, <3>5 DEF DriftInvariant, WalkPage
  <2>2. CASE ~(req.ofWalk /\ answer.status = 200)
    <3>1. still /\ stage' = "idle"
      BY <1>8, <2>2 DEF Deliver
    <3>. QED
      BY <1>1, <3>1 DEF WalkPage
  <2>. QED
    BY <2>1, <2>2
<1>9. CASE UNCHANGED vars
  <2>1. still /\ UNCHANGED flight
    BY <1>9 DEF vars, flight
  <2>. QED
    BY <1>1, <2>1
<1>. QED
  BY <1>2, <1>3, <1>4, <1>5, <1>6, <1>7, <1>8, <1>9 DEF Next

LEMMA DriftInit == Init => DriftInvariant
<1>. SUFFICES ASSUME Init PROVE DriftInvariant
  OBVIOUS
<1>1. /\ seen = {} /\ reached = 0 /\ repeats = 0 /\ inserted = 0 /\ deleted = 0
      /\ base = {} /\ done = FALSE /\ stage = "idle" /\ size \in Nat
  BY OffsetAssumption DEF Init
<1>2. reached * CapLimit(size) = 0
  <2>1. CapLimit(size) \in Nat
    BY <1>1, CapIsInRange
  <2>. QED
    BY <1>1, <2>1
<1>3. Due(Walked, seen, 0) = {} /\ Missed(Walked, base \cap rows, seen, 0, done) = {}
  BY <1>1 DEF Due, Missed
<1>4. Bounded(seen, reached * CapLimit(size), repeats, done)
  BY <1>1, <1>2, <1>3, FS_EmptySet DEF Bounded
<1>. QED
  BY <1>1, <1>4 DEF DriftInvariant, WalkPage, Matching

\* While the table fits 32 bits, the bounds hold along the whole walk, for any
\* number of writers and whichever server answers which page.
THEOREM DriftIsBounded ==
  ASSUME SmallTable
  PROVE  Spec => []DriftInvariant
<1>1. TypeOK /\ DriftInvariant /\ [Next]_vars => DriftInvariant'
  BY DriftStep
<1>. QED
  BY <1>1, DriftInit, TypeCorrect, PTL DEF Spec

\* The walk hands out no more rows twice than were inserted since its first page.
THEOREM RepeatsAreBounded ==
  ASSUME SmallTable
  PROVE  Spec => []RepeatsNeedInserts
<1>1. TypeOK /\ DriftInvariant => RepeatsNeedInserts
  <2>. SUFFICES ASSUME TypeOK, DriftInvariant PROVE RepeatsNeedInserts
    OBVIOUS
  <2>. DEFINE due == Due(Walked, seen, reached * CapLimit(size))
  <2>1. repeats + Cardinality(due) <= inserted
    BY DEF DriftInvariant, Bounded
  <2>2. due \in SUBSET Walked
    BY DEF Due
  <2>3. IsFiniteSet(due)
    BY <2>2, WalkedFacts, FS_Subset, Zenon
  <2>4. Cardinality(due) \in Nat /\ repeats \in Nat /\ inserted \in Nat
    BY <2>3, FS_CardinalityType DEF TypeOK
  <2>. HIDE DEF due
  <2>. QED
    BY <2>1, <2>4 DEF RepeatsNeedInserts
<1>. QED
  BY <1>1, DriftIsBounded, TypeCorrect, PTL

\* It jumps over no more rows than were deleted since its first page.
THEOREM LossesAreBounded ==
  ASSUME SmallTable
  PROVE  Spec => []LossesNeedDeletes
<1>1. TypeOK /\ DriftInvariant => LossesNeedDeletes
  <2>. SUFFICES ASSUME TypeOK, DriftInvariant PROVE LossesNeedDeletes
    OBVIOUS
  <2>. DEFINE missed == Missed(Walked, base \cap rows, seen,
                               reached * CapLimit(size), done)
  <2>1. Cardinality(missed) <= deleted /\ deleted \in Nat
    BY DEF DriftInvariant, Bounded, TypeOK
  <2>2. JumpedOver \in SUBSET missed
    BY DEF JumpedOver, Missed
  <2>3. missed \in SUBSET rows /\ IsFiniteSet(rows)
    BY DEF Missed, TypeOK
  <2>. HIDE DEF missed
  <2>4. IsFiniteSet(missed) /\ IsFiniteSet(JumpedOver)
        /\ Cardinality(JumpedOver) <= Cardinality(missed)
    BY <2>2, <2>3, FS_Subset, Zenon
  <2>5. Cardinality(missed) \in Nat /\ Cardinality(JumpedOver) \in Nat
    BY <2>4, FS_CardinalityType
  <2>. QED
    BY <2>1, <2>4, <2>5 DEF LossesNeedDeletes
<1>. QED
  BY <1>1, DriftIsBounded, TypeCorrect, PTL

=============================================================================
