------------------------------- MODULE PagingProofs -------------------------------
(***************************************************************************)
(* What a client that pages and the migration tool get, and the last       *)
(* values of the two kinds of stores: for every page size, all batches and *)
(* evictions, every order of equal timestamps, and any number of runs that *)
(* are killed.                                                             *)
(*                                                                         *)
(* The first part is about pages: a telegram that shares its timestamp     *)
(* with no other has one place among the rows, whatever the order of the   *)
(* others (PlaceIs). The invariants then say, of each telegram that was    *)
(* there all along, that it has been read or that the reader has not       *)
(* passed its place. The last part compares the answers of the two kinds   *)
(* of stores, query by query.                                              *)
(***************************************************************************)
EXTENDS PagingProps, OrderLemmas, SequenceTheorems

-----------------------------------------------------------------------------
(* Orders and pages *)

\* A sequence has finitely many elements.
LEMMA RangeFinite ==
  ASSUME NEW S, NEW s \in Seq(S)
  PROVE  IsFiniteSet(ToSet(s)) /\ ToSet(s) \subseteq S
  <1>1. Len(s) \in Nat /\ DOMAIN s = 1..Len(s) /\ s = [k \in 1..Len(s) |-> s[k]]
    OBVIOUS
  <1> DEFINE all == {s[k] : k \in 1..Len(s)}
  <1>2. s \in Surjection(1..Len(s), all) /\ all = ToSet(s)
    <2>1. s \in [1..Len(s) -> all] /\ \A x \in all : \E k \in 1..Len(s) : s[k] = x
      BY <1>1
    <2>2. all = ToSet(s)
      BY <1>1 DEF ToSet
    <2> HIDE DEF all
    <2> QED
      BY <2>1, <2>2 DEF Surjection
  <1> HIDE DEF all
  <1>3. IsFiniteSet(1..Len(s))
    <2>1. 1 \in Int /\ Len(s) \in Int
      BY <1>1
    <2> QED
      BY <2>1, FS_Interval
  <1>4. \A x \in ToSet(s) : x \in S
    BY <1>1 DEF ToSet
  <1> QED
    BY <1>2, <1>3, <1>4, FS_Surjection

\* An order of the rows has each of them once.
LEMMA OrderIs ==
  ASSUME NEW S, IsFiniteSet(S), NEW d, NEW order \in Orders(S, d)
  PROVE  /\ order \in Seq(S) /\ Len(order) = Cardinality(S) /\ DOMAIN order = 1..Cardinality(S)
         /\ Cardinality(S) \in Nat
         /\ ToSet(order) = S
         /\ \A j, k \in DOMAIN order : order[j] = order[k] => j = k
         /\ \A j, k \in DOMAIN order : j < k => ~Before(order[k], order[j], d)
  <1> DEFINE n == Cardinality(S)
  <1>1. n \in Nat
    BY FS_CardinalityType
  <1>2. order \in [1..n -> S] /\ \A j, k \in 1..n : j # k => order[j] # order[k]
    BY DEF Orders, SetToSeqs
  <1>3. \A j, k \in DOMAIN order : j < k => ~Before(order[k], order[j], d)
    BY DEF Orders
  <1>4. Cardinality(1..n) = n /\ IsFiniteSet(1..n)
    <2>1. 1 \in Int /\ n \in Int
      BY <1>1
    <2> HIDE DEF n
    <2> QED
      BY <2>1, <1>1, FS_Interval
  <1> HIDE DEF n
  <1>5. order \in Injection(1..n, S)
    BY <1>2 DEF Injection, IsInjective
  <1>6. order \in Surjection(1..n, S)
    BY <1>4, <1>5, FS_Injection DEF n
  <1>7. ToSet(order) = S
    BY <1>2, <1>6 DEF ToSet, Surjection
  <1> QED
    BY <1>1, <1>2, <1>3, <1>7 DEF n

\* How many rows a page has, of so many rows in all.
PageLength(rowCount, from, many) ==
  IF rowCount <= from THEN 0 ELSE IF from + many < rowCount THEN many ELSE rowCount - from

LEMMA PageLengthIs ==
  ASSUME NEW n \in Nat, NEW from \in Nat, NEW many \in Nat
  PROVE  /\ PageLength(n, from, many) \in Nat /\ PageLength(n, from, many) <= many
         /\ PageLength(n, from, many) = 0 => n <= from \/ many = 0
         /\ \A k \in 1..n : from < k /\ k <= from + many => k - from \in 1..PageLength(n, from, many)
         /\ from + many <= n => PageLength(n, from, many) = many
  BY DEF PageLength

\* A page is the stretch of the order after `from`.
LEMMA SliceIs ==
  ASSUME NEW S, NEW order \in Seq(S), NEW from \in Nat, NEW many \in Nat,
         NEW got, got = Slice(order, from, many),
         NEW size, size = PageLength(Len(order), from, many)
  PROVE  got \in Seq(S) /\ Len(got) = size /\ DOMAIN got = 1..size
  <1> DEFINE until == IF from + many < Len(order) THEN from + many ELSE Len(order)
  <1>1. Len(order) \in Nat /\ until \in Nat /\ until <= Len(order)
    OBVIOUS
  <1>2. got = SubSeq(order, from + 1, until)
    BY DEF Slice
  <1> HIDE DEF until
  <1>3. CASE from + 1 <= until
    <2>1. from + 1 \in 1..Len(order) + 1 /\ until \in (from + 1) - 1..Len(order)
      BY <1>1, <1>3
    <2>2. /\ SubSeq(order, from + 1, until) \in Seq(S)
          /\ Len(SubSeq(order, from + 1, until)) = until - (from + 1) + 1
      BY <2>1, SubSeqProperties
    <2>3. until - (from + 1) + 1 = size
      BY <1>1, <1>3 DEF until, PageLength
    <2> QED
      BY <1>2, <2>2, <2>3
  <1>4. CASE until < from + 1
    <2>1. SubSeq(order, from + 1, until) = << >>
      BY <1>1, <1>4
    <2> QED
      BY <1>1, <1>2, <1>4, <2>1 DEF until, PageLength
  <1> QED
    BY <1>1, <1>3, <1>4

\* The k-th telegram of a page.
LEMMA SliceAt ==
  ASSUME NEW S, NEW order \in Seq(S), NEW from \in Nat, NEW many \in Nat,
         NEW got, got = Slice(order, from, many),
         NEW size, size = PageLength(Len(order), from, many),
         NEW k \in 1..size
  PROVE  from + k \in 1..Len(order) /\ got[k] = order[from + k]
  <1> DEFINE until == IF from + many < Len(order) THEN from + many ELSE Len(order)
  <1>1. Len(order) \in Nat /\ until \in Nat /\ until <= Len(order)
    OBVIOUS
  <1>2. got = SubSeq(order, from + 1, until)
    BY DEF Slice
  <1> HIDE DEF until
  <1>3. CASE from + 1 <= until
    <2>1. from + 1 \in 1..Len(order) + 1 /\ until \in (from + 1) - 1..Len(order)
      BY <1>1, <1>3
    <2>2. \A i \in 1..(until - (from + 1) + 1) : SubSeq(order, from + 1, until)[i] = order[from + 1 + i - 1]
      BY <2>1, SubSeqProperties
    <2>3. until - (from + 1) + 1 = size
      BY <1>1, <1>3 DEF until, PageLength
    <2>4. from + k \in 1..Len(order) /\ from + 1 + k - 1 = from + k
      BY <1>1, <1>3, <2>3 DEF until
    <2>5. got[k] = order[from + 1 + k - 1]
      BY <1>2, <2>2, <2>3, Zenon
    <2> QED
      BY <2>4, <2>5, Zenon
  <1>4. CASE until < from + 1
    <2>1. size = 0
      BY <1>1, <1>4 DEF until, PageLength
    <2> QED
      BY <2>1
  <1> QED
    BY <1>1, <1>3, <1>4

\* How many of the telegrams come before t.
Place(S, t, d) == Cardinality({s \in S : Before(s, t, d)})

LEMMA PlaceType ==
  ASSUME NEW S, IsFiniteSet(S), NEW t, NEW d
  PROVE  Place(S, t, d) \in Nat
  <1>1. IsFiniteSet({s \in S : Before(s, t, d)})
    BY FS_Subset
  <1> QED
    BY <1>1, FS_CardinalityType DEF Place

\* There are more rows than come before one of them.
LEMMA PlaceBelow ==
  ASSUME NEW S \in SUBSET Telegrams, IsFiniteSet(S), NEW t \in S, NEW d
  PROVE  Place(S, t, d) < Cardinality(S)
  <1>1. Cardinality(S \ {t}) = Cardinality(S) - 1 /\ IsFiniteSet(S \ {t}) /\ Cardinality(S) \in Nat
    BY FS_RemoveElement, FS_CardinalityType
  <1>2. TimeOf[t] \in Nat
    BY QueriesAssumption
  <1>3. {s \in S : Before(s, t, d)} \subseteq S \ {t}
    BY <1>2 DEF Before
  <1> DEFINE ahead == {s \in S : Before(s, t, d)}
  <1>4. Cardinality(ahead) <= Cardinality(S \ {t}) /\ Cardinality(ahead) \in Nat
    <2> HIDE DEF ahead
    <2>1. IsFiniteSet(ahead)
      BY <1>1, <1>3, FS_Subset DEF ahead
    <2> QED
      BY <1>1, <1>3, <2>1, FS_Subset, FS_CardinalityType DEF ahead
  <1> QED
    BY <1>1, <1>4 DEF Place

\* More rows put nobody further to the front.
LEMMA PlaceGrows ==
  ASSUME NEW T, IsFiniteSet(T), NEW S \in SUBSET T, NEW t, NEW d
  PROVE  Place(S, t, d) <= Place(T, t, d)
  <1> DEFINE more == {s \in T : Before(s, t, d)}
             fewer == {s \in S : Before(s, t, d)}
  <1>1. fewer \in SUBSET more /\ more \in SUBSET T
    OBVIOUS
  <1> HIDE DEF more, fewer
  <1>2. IsFiniteSet(more)
    BY <1>1, FS_Subset
  <1>3. Cardinality(fewer) <= Cardinality(more)
    BY <1>1, <1>2, FS_Subset
  <1> QED
    BY <1>3 DEF Place, more, fewer

\* A telegram that shares its timestamp with none of the rows has one place in all their orders.
LEMMA PlaceIs ==
  ASSUME NEW S \in SUBSET Telegrams, IsFiniteSet(S), NEW d \in BOOLEAN, NEW order \in Orders(S, d),
         NEW k \in DOMAIN order, \A s \in S : TimeOf[s] = TimeOf[order[k]] => s = order[k]
  PROVE  Place(S, order[k], d) = k - 1
  <1> DEFINE ahead == {s \in S : Before(s, order[k], d)}
             front == [j \in 1..(k - 1) |-> order[j]]
  <1>1. /\ order \in Seq(S) /\ DOMAIN order = 1..Len(order) /\ Len(order) \in Nat
        /\ ToSet(order) = S
        /\ \A i, j \in DOMAIN order : order[i] = order[j] => i = j
        /\ \A i, j \in DOMAIN order : i < j => ~Before(order[j], order[i], d)
    BY OrderIs
  <1>2. \A s \in S : TimeOf[s] \in Nat
    BY QueriesAssumption
  <1>3. \A j \in DOMAIN order : order[j] \in S
    BY <1>1
  <1>4. ASSUME NEW j \in 1..(k - 1) PROVE order[j] \in ahead
    <2>1. j \in DOMAIN order /\ j < k /\ j # k
      BY <1>1
    <2>2. ~Before(order[k], order[j], d) /\ order[j] # order[k] /\ order[j] \in S /\ order[k] \in S
      BY <1>1, <1>3, <2>1
    <2>3. TimeOf[order[j]] # TimeOf[order[k]] /\ TimeOf[order[j]] \in Nat /\ TimeOf[order[k]] \in Nat
      BY <1>2, <2>2
    <2> QED
      BY <2>2, <2>3 DEF Before
  <1>5. ASSUME NEW s \in ahead PROVE \E j \in 1..(k - 1) : order[j] = s
    <2>1. PICK j \in DOMAIN order : order[j] = s
      BY <1>1 DEF ToSet
    <2>2. Before(order[j], order[k], d)
      BY <2>1
    <2>3. ~(k < j)
      BY <1>1, <2>2
    <2>4. j # k
      BY <1>2, <1>3, <2>2 DEF Before
    <2> QED
      BY <1>1, <2>1, <2>3, <2>4
  <1>6. front \in Bijection(1..(k - 1), ahead)
    <2>1. front \in [1..(k - 1) -> ahead]
      BY <1>4
    <2>2. front \in Injection(1..(k - 1), ahead)
      <3>1. \A i, j \in 1..(k - 1) : order[i] = order[j] => i = j
        BY <1>1
      <3> HIDE DEF ahead
      <3> QED
        BY <2>1, <3>1 DEF Injection, IsInjective
    <2>3. front \in Surjection(1..(k - 1), ahead)
      <3> HIDE DEF ahead
      <3> QED
        BY <2>1, <1>5 DEF Surjection
    <2> HIDE DEF front, ahead
    <2> QED
      BY <2>2, <2>3 DEF Bijection
  <1>7. IsFiniteSet(1..(k - 1)) /\ Cardinality(1..(k - 1)) = k - 1
    <2>1. 1 \in Int /\ k - 1 \in Int /\ k - 1 >= 0
      BY <1>1
    <2> QED
      BY <2>1, FS_Interval
  <1> HIDE DEF ahead, front
  <1>8. Cardinality(ahead) = k - 1
    BY <1>6, <1>7, FS_Bijection DEF ExistsBijection
  <1> QED
    BY <1>8 DEF Place, ahead
\* A page has rows, and each of them once.
LEMMA PageRows ==
  ASSUME NEW S, IsFiniteSet(S), NEW d, NEW order \in Orders(S, d), NEW from \in Nat, NEW many \in Nat
  PROVE  LET got == Slice(order, from, many)
         IN  /\ got \in Seq(S) /\ IsInjective(got) /\ ToSet(got) \subseteq S
             /\ Len(got) \in Nat /\ Len(got) <= many
             /\ got = << >> => Len(order) <= from \/ many = 0
  <1> DEFINE got == Slice(order, from, many)
             size == PageLength(Len(order), from, many)
  <1>1. /\ order \in Seq(S) /\ DOMAIN order = 1..Len(order) /\ Len(order) \in Nat
        /\ \A j, k \in DOMAIN order : order[j] = order[k] => j = k
    BY OrderIs
  <1>2. /\ got \in Seq(S) /\ Len(got) = size /\ DOMAIN got = 1..size /\ size \in Nat
        /\ \A k \in 1..size : from + k \in 1..Len(order) /\ got[k] = order[from + k]
    <2>1. size \in Nat
      BY <1>1, PageLengthIs
    <2>2. order \in Seq(S)
      BY <1>1
    <2>3. /\ got \in Seq(S) /\ Len(got) = size /\ DOMAIN got = 1..size
          /\ \A j \in 1..size : from + j \in 1..Len(order) /\ got[j] = order[from + j]
      <3>1. got = Slice(order, from, many) /\ size = PageLength(Len(order), from, many)
        OBVIOUS
      <3> HIDE DEF got, size
      <3>2. got \in Seq(S) /\ Len(got) = size /\ DOMAIN got = 1..size
        BY ONLY <2>2, <3>1, from \in Nat, many \in Nat, SliceIs
      <3>3. ASSUME NEW j \in 1..size PROVE from + j \in 1..Len(order) /\ got[j] = order[from + j]
        BY ONLY <2>2, <3>1, from \in Nat, many \in Nat, SliceAt
      <3> QED
        BY ONLY <3>2, <3>3
    <2> HIDE DEF got, size
    <2> QED
      BY <2>1, <2>3
  <1>3. size <= many /\ (size = 0 => Len(order) <= from \/ many = 0)
    BY <1>1, PageLengthIs
  <1> HIDE DEF got, size
  <1>4. IsInjective(got)
    <2>1. ASSUME NEW j \in 1..size, NEW k \in 1..size, got[j] = got[k] PROVE j = k
      <3>1. from + j \in DOMAIN order /\ from + k \in DOMAIN order /\ order[from + j] = order[from + k]
        BY <1>1, <1>2, <2>1
      <3>2. from + j = from + k
        BY <1>1, <3>1, Zenon
      <3>3. j \in Int /\ k \in Int /\ from \in Int
        BY <1>2
      <3> QED
        BY ONLY <3>2, <3>3
    <2> QED
      BY <1>2, <2>1 DEF IsInjective
  <1>5. ToSet(got) \subseteq S
    BY <1>2, RangeFinite
  <1>6. got = << >> => size = 0
    BY <1>2
  <1> QED
    BY <1>2, <1>3, <1>4, <1>5, <1>6 DEF got

\* A page that does not begin behind the place of t has t, or ends before it.
LEMMA PageShows ==
  ASSUME NEW S \in SUBSET Telegrams, IsFiniteSet(S), NEW d \in BOOLEAN, NEW order \in Orders(S, d),
         NEW from \in Nat, NEW many \in Nat,
         NEW t \in S, \A s \in S : TimeOf[s] = TimeOf[t] => s = t,
         from <= Place(S, t, d), t \notin ToSet(Slice(order, from, many))
  PROVE  from + many <= Place(S, t, d) /\ Len(Slice(order, from, many)) = many
  <1> DEFINE got == Slice(order, from, many)
             size == PageLength(Len(order), from, many)
  <1>1. order \in Seq(S) /\ DOMAIN order = 1..Len(order) /\ Len(order) \in Nat /\ ToSet(order) = S
    BY OrderIs
  <1>2. PICK k \in DOMAIN order : order[k] = t
    BY <1>1 DEF ToSet
  <1>3. Place(S, t, d) = k - 1
    BY <1>2, PlaceIs
  <1>4. /\ Len(got) = size /\ DOMAIN got = 1..size /\ size \in Nat
        /\ \A j \in 1..size : from + j \in 1..Len(order) /\ got[j] = order[from + j]
    <2>1. size \in Nat
      BY <1>1, PageLengthIs
    <2>2. order \in Seq(S)
      BY <1>1
    <2>3. /\ got \in Seq(S) /\ Len(got) = size /\ DOMAIN got = 1..size
          /\ \A j \in 1..size : from + j \in 1..Len(order) /\ got[j] = order[from + j]
      <3>1. got = Slice(order, from, many) /\ size = PageLength(Len(order), from, many)
        OBVIOUS
      <3> HIDE DEF got, size
      <3>2. got \in Seq(S) /\ Len(got) = size /\ DOMAIN got = 1..size
        BY ONLY <2>2, <3>1, from \in Nat, many \in Nat, SliceIs
      <3>3. ASSUME NEW j \in 1..size PROVE from + j \in 1..Len(order) /\ got[j] = order[from + j]
        BY ONLY <2>2, <3>1, from \in Nat, many \in Nat, SliceAt
      <3> QED
        BY ONLY <3>2, <3>3
    <2> HIDE DEF got, size
    <2> QED
      BY <2>1, <2>3
  <1>5. ASSUME k - 1 < from + many PROVE FALSE
    <2>1. k - from \in 1..size /\ from + (k - from) = k
      BY <1>1, <1>2, <1>3, <1>5 DEF PageLength
    <2>2. got[k - from] = t /\ k - from \in DOMAIN got
      BY <1>2, <1>4, <2>1
    <2> HIDE DEF got
    <2>3. t \in ToSet(got)
      BY <2>2 DEF ToSet
    <2> QED
      BY <2>3 DEF got
  <1>6. size = many
    BY <1>1, <1>2, <1>3, <1>5, PageLengthIs
  <1> QED
    BY <1>1, <1>2, <1>3, <1>4, <1>5, <1>6

\* The pages of the destination, read before the tool begins, hold all its timestamps.
LEMMA ExistingIs ==
  ASSUME NEW S \in SUBSET Telegrams, IsFiniteSet(S), NEW order \in Orders(S, TRUE)
  PROVE  Existing(order) = TimesIn(S)
  <1> DEFINE steps == {i \in 0..Len(order) : i = 0 \/ LimitReached(Len(order), (i - 1) * PageSize, PageSize)}
             starts == {k * PageSize : k \in steps}
             all == UNION {ToSet(Slice(order, start, PageSize)) : start \in starts}
  <1>1. order \in Seq(S) /\ DOMAIN order = 1..Len(order) /\ Len(order) \in Nat /\ ToSet(order) = S
    <2>1. order \in Seq(S) /\ ToSet(order) = S
      BY OrderIs, Zenon
    <2> QED
      BY <2>1
  <1>2. PageSize \in Nat /\ PageSize > 0
    BY PagingAssumption
  <1>3. ASSUME NEW start \in starts PROVE ToSet(Slice(order, start, PageSize)) \subseteq S
    <2>1. start \in Nat
      BY <1>1, <1>2
    <2> QED
      BY <1>2, <2>1, PageRows
  <1>4. ASSUME NEW s \in S PROVE s \in all
    <2>1. PICK j \in 1..Len(order) : order[j] = s
      BY <1>1 DEF ToSet
    <2> DEFINE k == (j - 1) \div PageSize
               start == k * PageSize
    <2>2. k \in Nat /\ start \in Nat /\ start <= j - 1 /\ j - 1 < start + PageSize /\ k <= start
      <3>1. j - 1 \in Nat
        BY <1>1
      <3> QED
        BY <1>2, <3>1
    <2>3. k \in steps
      <3>1. k \in 0..Len(order)
        BY <1>1, <2>2
      <3>2. (k - 1) * PageSize + PageSize = start
        BY <1>2, <2>2
      <3>3. Len(order) > start
        BY <1>1, <2>2
      <3> HIDE DEF k, start
      <3> QED
        BY <3>1, <3>2, <3>3 DEF LimitReached
    <2>4. start \in starts
      BY <2>3
    <2> HIDE DEF k, start, steps, starts
    <2> DEFINE got == Slice(order, start, PageSize)
    <2>5. j - start \in DOMAIN got /\ got[j - start] = order[j]
      <3> DEFINE size == PageLength(Len(order), start, PageSize)
      <3>1. DOMAIN got = 1..size /\ \A i \in 1..size : got[i] = order[start + i]
        <4>1. order \in Seq(S) /\ start \in Nat /\ PageSize \in Nat
          BY <1>1, <1>2, <2>2
        <4>2. got = Slice(order, start, PageSize) /\ size = PageLength(Len(order), start, PageSize)
          OBVIOUS
        <4> HIDE DEF start, k, got, size
        <4>3. DOMAIN got = 1..size
          BY ONLY <4>1, <4>2, SliceIs
        <4>4. ASSUME NEW i \in 1..size PROVE got[i] = order[start + i]
          BY ONLY <4>1, <4>2, SliceAt
        <4> QED
          BY ONLY <4>3, <4>4
      <3>2. j - start \in 1..size /\ start + (j - start) = j
        <4>1. j - start >= 1 /\ j - start <= PageSize /\ j - start <= Len(order) - start /\ start < Len(order)
          BY <1>1, <1>2, <2>2
        <4> HIDE DEF start, k
        <4> QED
          BY <1>1, <1>2, <2>2, <4>1 DEF PageLength
      <3> HIDE DEF size, got
      <3> QED
        BY <3>1, <3>2
    <2> HIDE DEF got
    <2>6. s \in ToSet(got)
      BY <2>1, <2>5 DEF ToSet
    <2> QED
      BY <2>4, <2>6 DEF got
  <1>5. all = S
    <2> HIDE DEF starts
    <2> QED
      BY <1>3, <1>4
  <1> QED
    BY <1>5, Zenon DEF Existing
-----------------------------------------------------------------------------
(* The invariant *)

Tool == reader = "tool"

Types ==
  /\ used \subseteq Telegrams /\ rows \subseteq used /\ IsFiniteSet(rows)
  /\ kept \subseteq rows
  /\ pc \in {"idle", "load", "measure", "count", "page", "store", "done"}
  /\ reader \in {"client", "tool"} /\ desc \in BOOLEAN /\ disturbed \in BOOLEAN
  /\ offset \in Nat /\ limit \in Nat /\ total \in Nat /\ target \in Nat
  /\ page \in Seq(used) /\ IsInjective(page)
  /\ dest \in [Telegrams -> Nat] /\ Copied \subseteq used /\ IsFiniteSet(Copied)

\* Where a reader may be, and how far it means to read.
Course ==
  /\ pc \in {"load", "measure", "store"} => Tool
  /\ pc \in {"load", "measure"} => offset = 0
  /\ ~Tool => limit = PageSize
  /\ Tool /\ pc \in {"count", "page", "store"} =>
       /\ offset < target /\ limit = Batch(target, offset)
       /\ desc => target = Newest
  /\ pc = "store" => Len(page) <= limit

\* From its first page on the tool knows the timestamps of all it has copied.
Knows == Tool /\ pc \notin {"idle", "load"} => known = TimesIn(Copied)

\* t was given to the reader, or the reader has not passed its place.
ClientAhead(t) ==
  /\ pc \in {"count", "page"}
  /\ offset <= Place(rows, t, desc)
  /\ pc = "page" => Place(rows, t, desc) < total
ClientInv == ~Tool /\ ~disturbed => \A t \in kept : Alone(t) => t \in seen \/ ClientAhead(t)

ToolAhead(t) ==
  \/ pc \in {"load", "measure"}
  \/ /\ pc \in {"count", "page"}
     /\ offset <= Place(rows, t, desc)
     /\ pc = "page" => Place(rows, t, desc) < total
     /\ ~desc => Place(rows, t, desc) < target
  \/ /\ pc = "store"
     /\ \/ t \in ToSet(page)
        \/ /\ LimitReached(total, offset, limit)
           /\ offset + Len(page) <= Place(rows, t, desc)
           /\ ~desc => Place(rows, t, desc) < target
  \/ pc = "done" /\ desc /\ Newest <= Place(rows, t, desc)
ToolInv == Tool /\ ~disturbed => \A t \in kept : Alone(t) => t \in Copied \/ ToolAhead(t)

Inv == Types /\ Course /\ Knows /\ NothingTwice /\ ClientInv /\ ToolInv
-----------------------------------------------------------------------------
(* The host *)

LEMMA SeqGrows ==
  ASSUME NEW S, NEW T, S \subseteq T, NEW s \in Seq(S)
  PROVE  s \in Seq(T)
  <1>1. Len(s) \in Nat /\ s = [k \in 1..Len(s) |-> s[k]] /\ \A k \in 1..Len(s) : s[k] \in T
    OBVIOUS
  <1> QED
    BY <1>1

\* A telegram that was alone among more telegrams was so before.
LEMMA AloneBefore ==
  ASSUME used \subseteq used', NEW t, Alone(t)'
  PROVE  Alone(t)
  BY DEF Alone

\* What the host does to the rows: as long as nothing is moved out of the way of the reader no telegram
\* that stays comes nearer to the front, and none moves while a place counts.
LEMMA HostEffect ==
  ASSUME Types, Host
  PROVE  /\ rows' \subseteq used' /\ used \subseteq used' /\ used' \subseteq Telegrams /\ IsFiniteSet(rows')
         /\ kept' \subseteq kept /\ kept' \subseteq rows'
         /\ disturbed' \in BOOLEAN /\ (~disturbed' => ~disturbed)
         /\ ~disturbed' => \A t \in kept' :
              /\ Place(rows, t, desc) <= Place(rows', t, desc)
              /\ pc = "page" \/ (Tool /\ ~desc /\ pc \in {"count", "store"}) =>
                   Place(rows', t, desc) = Place(rows, t, desc)
  <1>1. /\ used \subseteq Telegrams /\ rows \subseteq used /\ IsFiniteSet(rows) /\ kept \subseteq rows
        /\ desc \in BOOLEAN /\ disturbed \in BOOLEAN
    BY DEF Types
  <1>2. \A t \in Telegrams : TimeOf[t] \in Nat
    BY QueriesAssumption
  <1>3. CASE \E batch \in Batches :
               /\ StoreMany(batch)
               /\ disturbed' = (disturbed \/ \E t \in ToSet(batch) : MovesOn(t))
               /\ UNCHANGED kept
    <2>1. PICK batch \in Batches :
            /\ StoreMany(batch)
            /\ disturbed' = (disturbed \/ \E t \in ToSet(batch) : MovesOn(t))
            /\ UNCHANGED kept
      BY <1>3
    <2>2. batch \in Seq(Telegrams)
      BY QueriesAssumption
    <2>3. IsFiniteSet(ToSet(batch)) /\ ToSet(batch) \subseteq Telegrams
      BY <2>2, RangeFinite
    <2>4. rows' = rows \cup ToSet(batch) /\ used' = used \cup ToSet(batch)
      BY <2>1 DEF StoreMany
    <2>5. IsFiniteSet(rows')
      BY <1>1, <2>3, <2>4, FS_Union
    <2>6. disturbed' \in BOOLEAN /\ (~disturbed' => ~disturbed)
      BY <2>1, Zenon
    <2>7. ASSUME ~disturbed', NEW t \in kept'
          PROVE  /\ Place(rows, t, desc) <= Place(rows', t, desc)
                 /\ pc = "page" \/ (Tool /\ ~desc /\ pc \in {"count", "store"}) =>
                      Place(rows', t, desc) = Place(rows, t, desc)
      <3>1. Place(rows, t, desc) <= Place(rows', t, desc)
        <4>1. rows \in SUBSET rows'
          BY <2>4
        <4> QED
          BY <2>5, <4>1, PlaceGrows
      <3>2. ASSUME pc = "page" \/ (Tool /\ ~desc /\ pc \in {"count", "store"})
            PROVE  Place(rows', t, desc) = Place(rows, t, desc)
        <4>1. t \in rows
          BY <1>1, <2>1
        <4>2. \A s \in ToSet(batch) : ~MovesOn(s)
          BY <2>1, <2>7, Zenon
        <4>3. \A s \in ToSet(batch) : ~Before(s, t, desc)
          BY <3>2, <4>1, <4>2 DEF MovesOn, Tool
        <4>4. {s \in rows' : Before(s, t, desc)} = {s \in rows : Before(s, t, desc)}
          BY <2>4, <4>3
        <4> QED
          BY <4>4 DEF Place
      <3> QED
        BY <3>1, <3>2
    <2> QED
      BY <1>1, <2>1, <2>3, <2>4, <2>5, <2>6, <2>7
  <1>4. CASE \E cutoff \in Cutoffs :
               /\ EvictOlderThan(cutoff)
               /\ disturbed' = (disturbed \/ ~desc)
               /\ kept' = kept \cap rows'
    <2>1. PICK cutoff \in Cutoffs :
            /\ EvictOlderThan(cutoff)
            /\ disturbed' = (disturbed \/ ~desc)
            /\ kept' = kept \cap rows'
      BY <1>4
    <2>2. cutoff \in Nat
      BY QueriesAssumption
    <2>3. rows' = {t \in rows : ~(TimeOf[t] < cutoff)} /\ used' = used
      BY <2>1 DEF EvictOlderThan
    <2>4. IsFiniteSet(rows')
      BY <1>1, <2>3, FS_Subset
    <2>5. disturbed' \in BOOLEAN /\ (~disturbed' => ~disturbed /\ desc)
      BY <2>1, Zenon
    <2>6. ASSUME ~disturbed', NEW t \in kept'
          PROVE  Place(rows', t, desc) = Place(rows, t, desc)
      <3>1. t \in rows' /\ t \in rows
        BY <1>1, <2>1
      <3>2. ASSUME NEW s \in rows, Before(s, t, desc) PROVE s \in rows'
        <4>1. TimeOf[s] > TimeOf[t] /\ TimeOf[s] \in Nat /\ TimeOf[t] \in Nat
          BY <1>1, <1>2, <2>5, <2>6, <3>1, <3>2 DEF Before
        <4> QED
          BY <2>2, <2>3, <3>1, <4>1
      <3>3. {s \in rows' : Before(s, t, desc)} = {s \in rows : Before(s, t, desc)}
        BY <2>3, <3>2
      <3> QED
        BY <3>3 DEF Place
    <2>7. \A t : Place(rows, t, desc) \in Nat
      BY <1>1, PlaceType
    <2>8. ASSUME ~disturbed', NEW t \in kept'
          PROVE  Place(rows, t, desc) <= Place(rows', t, desc) /\ Place(rows', t, desc) = Place(rows, t, desc)
      BY <2>6, <2>7, <2>8
    <2> QED
      BY <1>1, <2>1, <2>3, <2>4, <2>5, <2>8
  <1>5. CASE Clear /\ kept' = {} /\ UNCHANGED disturbed
    <2>1. rows' = {} /\ used' = used
      BY <1>5 DEF Clear
    <2>2. IsFiniteSet(rows')
      BY <2>1, FS_EmptySet
    <2>3. disturbed' \in BOOLEAN /\ (~disturbed' => ~disturbed)
      BY <1>1, <1>5, Zenon
    <2> QED
      BY <1>1, <1>5, <2>1, <2>2, <2>3
  <1> QED
    BY <1>3, <1>4, <1>5 DEF Host

LEMMA HostInv ==
  ASSUME Inv, Host
  PROVE  Inv'
  <1>1. Types /\ Course /\ Knows /\ NothingTwice /\ ClientInv /\ ToolInv
    BY DEF Inv
  <1>2. UNCHANGED <<pc, reader, desc, offset, limit, total, target, known, page, seen, dest>>
    BY DEF Host, progress, memory
  <1>3. /\ rows' \subseteq used' /\ used \subseteq used' /\ used' \subseteq Telegrams /\ IsFiniteSet(rows')
        /\ kept' \subseteq kept /\ kept' \subseteq rows'
        /\ disturbed' \in BOOLEAN /\ (~disturbed' => ~disturbed)
        /\ ~disturbed' => \A t \in kept' :
              /\ Place(rows, t, desc) <= Place(rows', t, desc)
              /\ pc = "page" \/ (Tool /\ ~desc /\ pc \in {"count", "store"}) =>
                   Place(rows', t, desc) = Place(rows, t, desc)
    BY <1>1, HostEffect
  <1>4. \A t : Place(rows, t, desc) \in Nat /\ Place(rows', t, desc) \in Nat
    BY <1>1, <1>3, PlaceType DEF Types
  <1>5. Copied' = Copied
    BY <1>2 DEF Copied
  <1>6. Types'
    <2>1. page' \in Seq(used') /\ IsInjective(page')
      BY <1>1, <1>2, <1>3, SeqGrows DEF Types
    <2>2. desc' \in BOOLEAN /\ disturbed' \in BOOLEAN
      BY <1>1, <1>2, <1>3, Zenon DEF Types
    <2> QED
      BY <1>1, <1>2, <1>3, <1>5, <2>1, <2>2 DEF Types
  <1>7. Course' /\ Knows' /\ NothingTwice'
    BY <1>1, <1>2, <1>5 DEF Course, Knows, NothingTwice, Tool, Batch
  <1>8. ClientInv'
    <2> SUFFICES ASSUME ~Tool, ~disturbed', NEW t \in kept', Alone(t)', t \notin seen
                 PROVE  ClientAhead(t)'
      BY <1>2 DEF ClientInv, Tool
    <2>1. Alone(t)
      BY <1>3, AloneBefore
    <2>2. ClientAhead(t)
      BY <1>1, <1>3, <2>1 DEF ClientInv
    <2>3. /\ Place(rows, t, desc) <= Place(rows', t, desc)
          /\ pc = "page" => Place(rows', t, desc) = Place(rows, t, desc)
      BY <1>3
    <2> QED
      BY <1>1, <1>2, <1>4, <2>2, <2>3 DEF ClientAhead, Types
  <1>9. ToolInv'
    <2> SUFFICES ASSUME Tool, ~disturbed', NEW t \in kept', Alone(t)', t \notin Copied
                 PROVE  ToolAhead(t)'
      BY <1>2, <1>5 DEF ToolInv, Tool
    <2>1. Alone(t)
      BY <1>3, AloneBefore
    <2>2. ToolAhead(t)
      BY <1>1, <1>3, <2>1 DEF ToolInv
    <2>3. /\ Place(rows, t, desc) <= Place(rows', t, desc)
          /\ pc = "page" \/ (~desc /\ pc \in {"count", "store"}) => Place(rows', t, desc) = Place(rows, t, desc)
      BY <1>3
    <2>4. /\ offset \in Nat /\ offset + Len(page) \in Nat /\ Newest \in Nat
      BY <1>1, PagingAssumption DEF Types
    <2> QED
      BY <1>2, <1>4, <2>2, <2>3, <2>4 DEF ToolAhead
  <1> QED
    BY <1>6, <1>7, <1>8, <1>9 DEF Inv
-----------------------------------------------------------------------------
(* The readers *)

LEMMA InvInit == Init => Inv
  <1> SUFFICES ASSUME Init PROVE Inv
    OBVIOUS
  <1>1. /\ rows = {} /\ used = {} /\ kept = {} /\ pc = "idle" /\ reader = "client" /\ desc = TRUE /\ disturbed = FALSE
        /\ offset = 0 /\ limit = PageSize /\ total = 0 /\ target = 0 /\ page = << >>
        /\ dest = [t \in Telegrams |-> 0]
    BY DEF Init, InitStores
  <1>2. Copied = {} /\ IsFiniteSet({})
    BY <1>1, FS_EmptySet DEF Copied
  <1>3. Types
    <2>1. page \in Seq(used) /\ IsInjective(page)
      BY <1>1 DEF IsInjective
    <2>2. limit \in Nat /\ dest \in [Telegrams -> Nat]
      BY <1>1, PagingAssumption
    <2> QED
      BY <1>1, <1>2, <2>1, <2>2 DEF Types
  <1> QED
    BY <1>1, <1>3 DEF Inv, Course, Knows, NothingTwice, ClientInv, ToolInv, Tool

\* A reader begins, or is killed; the destination stays.
LEMMA BeginTypes ==
  ASSUME Types,
         UNCHANGED <<stores, dest>>, kept' = rows \/ kept' = {},
         pc' \in {"idle", "load", "count"}, reader' \in {"client", "tool"}, desc' \in BOOLEAN,
         offset' = 0, limit' = PageSize, total' = 0, target' = 0, page' = << >>, disturbed' = FALSE
  PROVE  Types'
  <1>1. page' \in Seq(used') /\ IsInjective(page')
    BY DEF IsInjective
  <1>2. limit' \in Nat /\ Copied' = Copied
    BY PagingAssumption DEF Copied
  <1>3. kept' \subseteq rows' /\ rows' = rows /\ used' = used
    BY DEF stores
  <1> QED
    BY <1>1, <1>2, <1>3 DEF Types

LEMMA StartInv ==
  ASSUME Inv, (\E order \in BOOLEAN : StartClient(order)) \/ (\E newest \in BOOLEAN : StartTool(newest)) \/ Quit
  PROVE  Inv'
  <1>1. Types /\ NothingTwice
    BY DEF Inv
  <1>2. CASE \E order \in BOOLEAN : StartClient(order)
    <2>1. PICK order \in BOOLEAN : StartClient(order)
      BY <1>2
    <2>2. /\ UNCHANGED <<stores, dest>> /\ kept' = rows /\ pc' = "count" /\ reader' = "client" /\ desc' \in BOOLEAN
          /\ offset' = 0 /\ limit' = PageSize /\ total' = 0 /\ target' = 0 /\ page' = << >> /\ disturbed' = FALSE
      BY <2>1 DEF StartClient, Begin
    <2>3. Types'
      BY <1>1, <2>2, BeginTypes
    <2>4. ClientInv'
      <3>1. rows' = rows /\ \A t : Place(rows, t, desc') \in Nat
        BY <1>1, <2>2, PlaceType DEF Types, stores
      <3> QED
        BY <2>2, <3>1 DEF ClientInv, ClientAhead
    <2> QED
      BY <1>1, <2>2, <2>3, <2>4 DEF Inv, Course, Knows, NothingTwice, ToolInv, Tool
  <1>3. CASE \E newest \in BOOLEAN : StartTool(newest)
    <2>1. PICK newest \in BOOLEAN : StartTool(newest)
      BY <1>3
    <2>2. /\ UNCHANGED <<stores, dest>> /\ kept' = rows /\ pc' = "load" /\ reader' = "tool" /\ desc' \in BOOLEAN
          /\ offset' = 0 /\ limit' = PageSize /\ total' = 0 /\ target' = 0 /\ page' = << >> /\ disturbed' = FALSE
      BY <2>1 DEF StartTool, Begin, Descending
    <2>3. Types'
      BY <1>1, <2>2, BeginTypes
    <2> QED
      BY <1>1, <2>2, <2>3 DEF Inv, Course, Knows, NothingTwice, ClientInv, ToolInv, ToolAhead, Tool
  <1>4. CASE Quit
    <2>1. /\ UNCHANGED <<stores, dest>> /\ kept' = {} /\ pc' = "idle" /\ reader' = "client" /\ desc' \in BOOLEAN
          /\ offset' = 0 /\ limit' = PageSize /\ total' = 0 /\ target' = 0 /\ page' = << >> /\ disturbed' = FALSE
      BY <1>4 DEF Quit
    <2>2. Types'
      BY <1>1, <2>1, BeginTypes
    <2> QED
      BY <1>1, <2>1, <2>2 DEF Inv, Course, Knows, NothingTwice, ClientInv, ToolInv, Tool
  <1> QED
    BY <1>2, <1>3, <1>4

\* The count is taken of the rows as they are now: every one of them has its place below it.
LEMMA CountInv ==
  ASSUME Inv, CountStatement
  PROVE  Inv'
  <1>1. Types /\ Course /\ Knows /\ NothingTwice /\ ClientInv /\ ToolInv
    BY DEF Inv
  <1>2. /\ UNCHANGED <<rows, used, reader, desc, offset, limit, target, known, page, seen, dest, kept, disturbed>>
        /\ total' = Cardinality(rows) /\ pc = "count" /\ pc' = "page"
    BY DEF CountStatement, stores, memory
  <1>3. Copied' = Copied /\ total' \in Nat
    BY <1>1, <1>2, FS_CardinalityType DEF Copied, Types
  <1>4. Types'
    BY <1>1, <1>2, <1>3 DEF Types
  <1>5. Course' /\ Knows' /\ NothingTwice'
    BY <1>1, <1>2, <1>3 DEF Course, Knows, NothingTwice, Tool, Batch
  <1>6. \A t \in kept : Place(rows, t, desc) < total'
    <2>1. rows \in SUBSET Telegrams /\ IsFiniteSet(rows) /\ kept \subseteq rows
      BY <1>1 DEF Types
    <2> QED
      BY <1>2, <2>1, PlaceBelow
  <1>7. ClientInv'
    BY <1>1, <1>2, <1>6 DEF ClientInv, ClientAhead, Alone, Tool
  <1>8. ToolInv'
    BY <1>1, <1>2, <1>3, <1>6 DEF ToolInv, ToolAhead, Alone, Tool
  <1> QED
    BY <1>4, <1>5, <1>7, <1>8 DEF Inv

\* The page shows what it covers, and if it is the last one it covers the rest.
LEMMA ClientPageInv ==
  ASSUME Inv, ClientPage
  PROVE  Inv'
  <1>1. Types /\ Course /\ Knows /\ NothingTwice /\ ClientInv /\ ToolInv
    BY DEF Inv
  <1>2. /\ UNCHANGED <<rows, used, reader, desc, limit, total, target, known, page, dest, kept, disturbed>>
        /\ reader = "client" /\ pc = "page" /\ pc' \in {"count", "done"}
        /\ pc' = "count" => offset' = offset + limit
        /\ pc' = "done" => offset' = offset /\ ~LimitReached(total, offset, limit)
    BY DEF ClientPage, stores, NextOffset
  <1>3. PICK order \in Orders(rows, desc) : seen' = seen \cup ToSet(Slice(order, offset, limit))
    BY DEF ClientPage
  <1>4. Copied' = Copied /\ offset' \in Nat
    BY <1>1, <1>2 DEF Copied, Types
  <1>5. Types'
    BY <1>1, <1>2, <1>4 DEF Types
  <1>6. Course' /\ Knows' /\ NothingTwice' /\ ToolInv'
    BY <1>1, <1>2, <1>4 DEF Course, Knows, NothingTwice, ToolInv, Tool
  <1>7. ClientInv'
    <2> SUFFICES ASSUME ~disturbed, NEW t \in kept, Alone(t), t \notin seen, t \notin ToSet(Slice(order, offset, limit))
                 PROVE  ClientAhead(t)'
      BY <1>2, <1>3 DEF ClientInv, Alone
    <2>1. ClientAhead(t)
      BY <1>1, <1>2 DEF ClientInv, Tool
    <2>2. /\ rows \in SUBSET Telegrams /\ IsFiniteSet(rows) /\ desc \in BOOLEAN /\ offset \in Nat /\ limit \in Nat
          /\ t \in rows /\ total \in Nat
      BY <1>1 DEF Types
    <2>3. \A s \in rows : TimeOf[s] = TimeOf[t] => s = t
      BY <1>1 DEF Types, Alone
    <2>4. offset + limit <= Place(rows, t, desc)
      BY <1>2, <2>1, <2>2, <2>3, PageShows DEF ClientAhead
    <2>5. Place(rows, t, desc) \in Nat
      BY <2>2, PlaceType
    <2>6. LimitReached(total, offset, limit)
      BY <1>2, <2>1, <2>2, <2>4, <2>5 DEF ClientAhead, LimitReached
    <2> QED
      BY <1>2, <2>4, <2>6 DEF ClientAhead
  <1> QED
    BY <1>5, <1>6, <1>7 DEF Inv
\* The tool reads all timestamps of its destination before it begins.
LEMMA LoadInv ==
  ASSUME Inv, Load
  PROVE  Inv'
  <1>1. Types /\ Course /\ Knows /\ NothingTwice /\ ClientInv /\ ToolInv
    BY DEF Inv
  <1>2. /\ UNCHANGED <<rows, used, reader, desc, offset, limit, total, target, page, seen, dest, kept, disturbed>>
        /\ pc = "load" /\ pc' = "measure" /\ Tool
    BY <1>1 DEF Load, stores, progress, Course
  <1>3. PICK order \in Orders(Copied, TRUE) : known' = Existing(order)
    BY DEF Load
  <1>4. Copied \in SUBSET Telegrams /\ IsFiniteSet(Copied) /\ Copied' = Copied
    BY <1>1, <1>2 DEF Types, Copied
  <1>5. known' = TimesIn(Copied)
    BY <1>3, <1>4, ExistingIs
  <1> QED
    BY <1>1, <1>2, <1>4, <1>5 DEF Inv, Types, Course, Knows, NothingTwice, ClientInv, ToolInv, ToolAhead, Tool

\* It is to process as many telegrams as there are, or the newest.
LEMMA MeasureInv ==
  ASSUME Inv, Measure
  PROVE  Inv'
  <1>1. Types /\ Course /\ Knows /\ NothingTwice /\ ClientInv /\ ToolInv
    BY DEF Inv
  <1>2. /\ UNCHANGED <<rows, used, reader, desc, offset, total, known, page, seen, dest, kept, disturbed>>
        /\ pc = "measure" /\ Tool /\ offset = 0
        /\ target' = IF desc THEN Newest ELSE Cardinality(rows)
        /\ limit' = Batch(target', 0)
        /\ pc' = IF target' = 0 THEN "done" ELSE "count"
    BY <1>1 DEF Measure, stores, Course
  <1>3. Newest \in Nat /\ Newest # 0 /\ PageSize \in Nat
    BY PagingAssumption
  <1>4. target' \in Nat /\ limit' \in Nat /\ Copied' = Copied
    BY <1>1, <1>2, <1>3, FS_CardinalityType DEF Types, Copied, Batch
  <1>5. Types'
    BY <1>1, <1>2, <1>4 DEF Types
  <1>6. Course' /\ Knows' /\ NothingTwice' /\ ClientInv'
    BY <1>1, <1>2, <1>3, <1>4 DEF Course, Knows, NothingTwice, ClientInv, Tool
  <1>7. ToolInv'
    <2> SUFFICES ASSUME NEW t \in kept, ~disturbed, Alone(t), t \notin Copied
                 PROVE  ToolAhead(t)'
      BY <1>2, <1>4 DEF ToolInv, Alone
    <2>1. t \in rows /\ rows \in SUBSET Telegrams /\ IsFiniteSet(rows)
      BY <1>1 DEF Types
    <2>2. Place(rows, t, desc) \in Nat /\ Place(rows, t, desc) < Cardinality(rows)
      BY <2>1, PlaceType, PlaceBelow
    <2>3. pc' = "count" /\ (~desc => target' = Cardinality(rows))
      BY <1>1, <1>2, <1>3, <2>1, <2>2, FS_CardinalityType
    <2> QED
      BY <1>2, <2>2, <2>3 DEF ToolAhead
  <1> QED
    BY <1>5, <1>6, <1>7 DEF Inv

\* A telegram whose timestamp is known, and that shares it with none, has been copied.
LEMMA KnownIsCopied ==
  ASSUME Types, Knows, Tool, pc \notin {"idle", "load"}, NEW t \in used, Alone(t), TimeOf[t] \in known
  PROVE  t \in Copied
  BY DEF Types, Knows, TimesIn, Alone

\* What remains to be done when the tool has done so many of its page.
LEMMA AdvanceDoes ==
  ASSUME Types, Course, Tool, pc \in {"page", "store"}, NEW n \in Nat, n <= limit, Advance(n)
  PROVE  /\ offset' = offset + n /\ offset' \in Nat /\ limit' \in Nat
         /\ pc' \in {"count", "done"}
         /\ pc' = "count" => offset' < target /\ limit' = Batch(target, offset')
         /\ pc' = "done" => ~LimitReached(total, offset, limit) \/ target <= offset + n
  <1>1. /\ offset \in Nat /\ limit \in Nat /\ target \in Nat /\ offset < target /\ limit = Batch(target, offset)
        /\ PageSize \in Nat
    BY PagingAssumption DEF Types, Course
  <1>2. offset + n <= target
    BY <1>1 DEF Batch
  <1>3. Batch(target, offset + n) \in Nat
    BY <1>1, <1>2 DEF Batch
  <1> QED
    BY <1>1, <1>3 DEF Advance

\* A telegram behind so many that the tool has done is not among the newest, or there is more to do.
LEMMA AdvanceAhead ==
  ASSUME Types, Course, Tool, pc \in {"page", "store"}, NEW n \in Nat, n <= limit, Advance(n),
         UNCHANGED <<rows, desc, total, target>>,
         NEW t, offset + n <= Place(rows, t, desc), LimitReached(total, offset, limit),
         ~desc => Place(rows, t, desc) < target
  PROVE  ToolAhead(t)'
  <1>1. /\ offset' = offset + n
        /\ pc' \in {"count", "done"}
        /\ pc' = "done" => ~LimitReached(total, offset, limit) \/ target <= offset + n
    BY AdvanceDoes
  <1>2. /\ offset \in Nat /\ target \in Nat /\ Place(rows, t, desc) \in Nat /\ (desc => target = Newest)
    BY PlaceType DEF Types, Course
  <1>3. CASE pc' = "count"
    BY <1>1, <1>3 DEF ToolAhead
  <1>4. CASE pc' = "done"
    <2>1. target <= Place(rows, t, desc)
      BY <1>1, <1>2, <1>4
    <2>2. desc /\ Newest <= Place(rows, t, desc)
      BY <1>2, <2>1
    <2> QED
      BY <1>4, <2>2 DEF ToolAhead
  <1> QED
    BY <1>1, <1>3, <1>4

\* The tool reads a page; a page that is all known is done at once.
LEMMA ToolPageInv ==
  ASSUME Inv, ToolPage
  PROVE  Inv'
  <1>1. Types /\ Course /\ Knows /\ NothingTwice /\ ClientInv /\ ToolInv
    BY DEF Inv
  <1>2. /\ UNCHANGED <<rows, used, reader, desc, total, target, known, seen, dest, kept, disturbed>>
        /\ Tool /\ pc = "page"
    BY DEF ToolPage, stores, Tool
  <1>3. PICK order \in Orders(rows, desc) :
          LET got == Slice(order, offset, limit)
              new == New(got)
          IN \/ Ended(got, new) /\ pc' = "done" /\ UNCHANGED <<offset, limit, page>>
             \/ ~Ended(got, new) /\ new = {} /\ Advance(Len(got)) /\ UNCHANGED page
             \/ new # {} /\ pc' = "store" /\ page' = got /\ UNCHANGED <<offset, limit>>
    BY DEF ToolPage
  <1> DEFINE got == Slice(order, offset, limit)
  <1>4. /\ rows \in SUBSET Telegrams /\ rows \subseteq used /\ IsFiniteSet(rows) /\ kept \subseteq rows /\ desc \in BOOLEAN
        /\ offset \in Nat /\ limit \in Nat /\ total \in Nat
    BY <1>1 DEF Types
  <1>5. /\ got \in Seq(rows) /\ IsInjective(got) /\ Len(got) \in Nat /\ Len(got) <= limit
        /\ got = << >> => Len(order) <= offset \/ limit = 0
    BY <1>4, PageRows
  <1>6. offset < target /\ limit = Batch(target, offset) /\ limit # 0
    BY <1>1, <1>2, <1>4, PagingAssumption DEF Course, Batch, Types
  <1>7. Copied' = Copied
    BY <1>2 DEF Copied
  \* a telegram that is not copied was ahead, and is on the page or still is
  <1>8. ASSUME NEW t \in kept, ~disturbed, Alone(t), t \notin Copied
        PROVE  /\ offset <= Place(rows, t, desc) /\ Place(rows, t, desc) < total /\ Place(rows, t, desc) \in Nat
               /\ ~desc => Place(rows, t, desc) < target
               /\ t \in rows /\ t \in used /\ \A s \in rows : TimeOf[s] = TimeOf[t] => s = t
    <2>1. ToolAhead(t)
      BY <1>1, <1>2, <1>8 DEF ToolInv
    <2>2. Place(rows, t, desc) \in Nat
      BY <1>4, PlaceType
    <2> QED
      BY <1>2, <1>4, <1>8, <2>1, <2>2 DEF ToolAhead, Alone
  <1>9. ASSUME NEW t \in kept, ~disturbed, Alone(t), t \notin Copied, t \notin ToSet(got)
        PROVE  /\ offset + limit <= Place(rows, t, desc) /\ Len(got) = limit
               /\ LimitReached(total, offset, limit)
    <2>1. offset + limit <= Place(rows, t, desc) /\ Len(got) = limit
      BY <1>4, <1>8, <1>9, PageShows
    <2> QED
      BY <1>4, <1>8, <1>9, <2>1 DEF LimitReached
  <1> HIDE DEF got
  <1>10. CASE got = << >> /\ pc' = "done" /\ UNCHANGED <<offset, limit, page>>
    <2>1. ASSUME NEW t \in kept, ~disturbed, Alone(t), t \notin Copied PROVE FALSE
      <3>1. t \notin ToSet(got)
        BY <1>10 DEF ToSet
      <3> QED
        BY <1>6, <1>9, <1>10, <2>1, <3>1
    <2>2. Types' /\ Course' /\ Knows' /\ NothingTwice' /\ ClientInv'
      BY <1>1, <1>2, <1>7, <1>10 DEF Types, Course, Knows, NothingTwice, ClientInv, Tool
    <2>3. ToolInv'
      BY <1>2, <1>7, <2>1 DEF ToolInv, Alone
    <2> QED
      BY <2>2, <2>3 DEF Inv
  <1>11. CASE New(got) = {} /\ Advance(Len(got)) /\ UNCHANGED page
    <2>1. /\ offset' = offset + Len(got) /\ offset' \in Nat /\ limit' \in Nat
          /\ pc' \in {"count", "done"}
          /\ pc' = "count" => offset' < target /\ limit' = Batch(target, offset')
      BY <1>1, <1>2, <1>5, <1>11, AdvanceDoes
    <2>2. Types' /\ Course' /\ Knows' /\ NothingTwice' /\ ClientInv'
      BY <1>1, <1>2, <1>7, <1>11, <2>1 DEF Types, Course, Knows, NothingTwice, ClientInv, Tool
    <2>3. ASSUME NEW t \in kept, ~disturbed, Alone(t), t \notin Copied PROVE ToolAhead(t)'
      <3>1. t \notin ToSet(got)
        <4>1. ASSUME t \in ToSet(got) PROVE FALSE
          <5>1. TimeOf[t] \in known
            BY <1>11, <4>1 DEF ToSet, New
          <5> QED
            BY <1>1, <1>2, <1>8, <2>3, <5>1, KnownIsCopied
        <4> QED
          BY <4>1
      <3>2. /\ offset + Len(got) <= Place(rows, t, desc) /\ LimitReached(total, offset, limit)
            /\ ~desc => Place(rows, t, desc) < target
        BY <1>8, <1>9, <2>3, <3>1
      <3> QED
        BY <1>1, <1>2, <1>5, <1>11, <3>2, AdvanceAhead
    <2>4. ToolInv'
      BY <1>2, <1>7, <2>3 DEF ToolInv, Alone
    <2> QED
      BY <2>2, <2>4 DEF Inv
  <1>12. CASE pc' = "store" /\ page' = got /\ UNCHANGED <<offset, limit>>
    <2>1. page' \in Seq(used')
      BY <1>2, <1>4, <1>5, <1>12, SeqGrows
    <2>2. Types'
      BY <1>1, <1>2, <1>5, <1>7, <1>12, <2>1 DEF Types
    <2>3. Course' /\ Knows' /\ NothingTwice' /\ ClientInv'
      BY <1>1, <1>2, <1>5, <1>7, <1>12 DEF Course, Knows, NothingTwice, ClientInv, Tool, Batch
    <2>4. ASSUME NEW t \in kept, ~disturbed, Alone(t), t \notin Copied PROVE ToolAhead(t)'
      <3>1. CASE t \in ToSet(got)
        BY <1>12, <3>1 DEF ToolAhead
      <3>2. CASE t \notin ToSet(got)
        BY <1>2, <1>8, <1>9, <1>12, <2>4, <3>2 DEF ToolAhead
      <3> QED
        BY <3>1, <3>2
    <2>5. ToolInv'
      BY <1>2, <1>7, <2>4 DEF ToolInv, Alone
    <2> QED
      BY <2>2, <2>3, <2>5 DEF Inv
  <1> QED
    BY <1>3, <1>10, <1>11, <1>12 DEF Ended, got
\* The copies of a telegram on a page are one or none.
LEMMA CopiesIs ==
  ASSUME NEW new, IsInjective(page), new \subseteq DOMAIN page, NEW t
  PROVE  Cardinality({k \in new : page[k] = t}) = IF t \in {page[k] : k \in new} THEN 1 ELSE 0
  <1> DEFINE copies == {k \in new : page[k] = t}
  <1>1. CASE t \in {page[k] : k \in new}
    <2>1. PICK k \in new : page[k] = t
      BY <1>1
    <2>2. copies = {k}
      BY <2>1 DEF IsInjective
    <2>3. Cardinality({k}) = 1
      BY FS_Singleton
    <2> QED
      BY <1>1, <2>2, <2>3
  <1>2. CASE t \notin {page[k] : k \in new}
    <2>1. copies = {}
      BY <1>2
    <2> QED
      BY <1>2, <2>1, FS_EmptySet
  <1> QED
    BY <1>1, <1>2

\* The new telegrams of the page are copied once, and known from then on.
LEMMA ToolStoreInv ==
  ASSUME Inv, ToolStore
  PROVE  Inv'
  <1>1. Types /\ Course /\ Knows /\ NothingTwice /\ ClientInv /\ ToolInv
    BY DEF Inv
  <1> DEFINE new == New(page)
             stored == {page[k] : k \in new}
  <1>2. /\ UNCHANGED <<rows, used, reader, desc, total, target, seen, kept, disturbed>>
        /\ dest' = [t \in Telegrams |-> dest[t] + Cardinality({k \in new : page[k] = t})]
        /\ known' = known \cup {TimeOf[page[k]] : k \in new}
        /\ page' = << >> /\ Advance(Len(page)) /\ pc = "store" /\ Tool
    BY <1>1 DEF ToolStore, stores, Course
  <1>3. /\ page \in Seq(used) /\ IsInjective(page) /\ Len(page) \in Nat /\ Len(page) <= limit
        /\ DOMAIN page = 1..Len(page) /\ new \subseteq DOMAIN page
        /\ dest \in [Telegrams -> Nat] /\ used \subseteq Telegrams
    BY <1>1, <1>2 DEF Types, Course, New
  <1>4. stored \subseteq ToSet(page) /\ ToSet(page) \subseteq used /\ IsFiniteSet(stored)
    <2>1. stored \subseteq ToSet(page)
      BY <1>3 DEF ToSet
    <2>2. IsFiniteSet(ToSet(page)) /\ ToSet(page) \subseteq used
      BY <1>3, RangeFinite
    <2> HIDE DEF stored
    <2> QED
      BY <2>1, <2>2, FS_Subset
  <1>5. \A t \in stored : TimeOf[t] \notin known
    BY DEF New
  <1>6. \A t \in ToSet(page) : TimeOf[t] \in known \/ t \in stored
    BY DEF New, ToSet
  <1>7. {TimeOf[page[k]] : k \in new} = TimesIn(stored)
    BY DEF TimesIn
  <1>8. \A t : Cardinality({k \in new : page[k] = t}) = IF t \in stored THEN 1 ELSE 0
    BY <1>3, CopiesIs
  <1>9. dest' = [t \in Telegrams |-> dest[t] + (IF t \in stored THEN 1 ELSE 0)]
    BY <1>2, <1>8
  <1> HIDE DEF new, stored
  <1>10. known = TimesIn(Copied)
    BY <1>1, <1>2 DEF Knows
  <1>11. dest' \in [Telegrams -> Nat] /\ Copied' = Copied \cup stored
    BY <1>3, <1>4, <1>9 DEF Copied
  <1>12. IsFiniteSet(Copied')
    BY <1>1, <1>4, <1>11, FS_Union DEF Types
  <1>13. known' = TimesIn(Copied')
    BY <1>2, <1>7, <1>10, <1>11 DEF TimesIn
  <1>14. NothingTwice'
    <2> SUFFICES ASSUME NEW t \in Telegrams PROVE dest'[t] <= 1
      BY DEF NothingTwice
    <2>1. CASE t \in stored
      <3>1. t \notin Copied
        BY <1>5, <1>10, <2>1 DEF TimesIn
      <3>2. dest[t] = 0
        BY <1>3, <3>1 DEF Copied
      <3> QED
        BY <1>9, <2>1, <3>2
    <2>2. CASE t \notin stored
      BY <1>1, <1>3, <1>9, <2>2 DEF NothingTwice
    <2> QED
      BY <2>1, <2>2
  <1>15. /\ offset' = offset + Len(page) /\ offset' \in Nat /\ limit' \in Nat
         /\ pc' \in {"count", "done"}
         /\ pc' = "count" => offset' < target /\ limit' = Batch(target, offset')
    BY <1>1, <1>2, <1>3, AdvanceDoes
  <1>16. Types'
    <2>1. page' \in Seq(used') /\ IsInjective(page')
      BY <1>2 DEF IsInjective
    <2>2. Copied' \subseteq used'
      BY <1>1, <1>2, <1>4, <1>11 DEF Types
    <2> QED
      BY <1>1, <1>2, <1>11, <1>12, <1>15, <2>1, <2>2 DEF Types
  <1>17. Course' /\ Knows' /\ ClientInv'
    BY <1>1, <1>2, <1>13, <1>15 DEF Course, Knows, ClientInv, Tool
  <1>18. ToolInv'
    <2> SUFFICES ASSUME NEW t \in kept, ~disturbed, Alone(t), t \notin Copied'
                 PROVE  ToolAhead(t)'
      BY <1>2 DEF ToolInv, Alone
    <2>1. t \notin Copied /\ t \notin stored /\ t \in used
      BY <1>1, <1>11 DEF Types
    <2>2. t \notin ToSet(page)
      <3>1. TimeOf[t] \notin known
        BY <1>1, <1>2, <2>1, KnownIsCopied
      <3> QED
        BY <1>6, <2>1, <3>1
    <2>3. /\ LimitReached(total, offset, limit) /\ offset + Len(page) <= Place(rows, t, desc)
          /\ ~desc => Place(rows, t, desc) < target
      BY <1>1, <1>2, <2>1, <2>2 DEF ToolInv, ToolAhead
    <2> QED
      BY <1>1, <1>2, <1>3, <2>3, AdvanceAhead
  <1> QED
    BY <1>14, <1>16, <1>17, <1>18 DEF Inv

LEMMA InvStep ==
  ASSUME Inv, [Next]_vars
  PROVE  Inv'
  <1>1. CASE UNCHANGED vars
    BY <1>1 DEF Inv, Types, Course, Knows, NothingTwice, ClientInv, ClientAhead, ToolInv, ToolAhead, Alone, Copied, Tool,
                vars, stores, progress, memory
  <1> QED
    BY <1>1, HostInv, StartInv, CountInv, ClientPageInv, LoadInv, MeasureInv, ToolPageInv, ToolStoreInv DEF Next

LEMMA Invariant == Spec => []Inv
  <1>1. Inv /\ [Next]_vars => Inv'
    BY InvStep
  <1> QED
    BY <1>1, InvInit, PTL DEF Spec

\* No telegram is copied twice, over any number of runs that are killed at any point, and while the source
\* is written (existing_timestamps of migrate_store.py).
THEOREM CopiedOnce == Spec => []NothingTwice
  BY Invariant, PTL DEF Inv

\* A client that follows next_offset to its end has been given every telegram that was there all along, but
\* for those that share a timestamp and for rows that were moved out of its way (query_telegrams of mcp/tools.py).
THEOREM ClientSeesAll == Spec => []PagesCover
  <1>1. Inv => PagesCover
    BY DEF Inv, ClientInv, ClientAhead, PagesCover, Tool
  <1> QED
    BY <1>1, Invariant, PTL

\* A run of the tool that ends has copied every telegram that was there all along, or with --limit-newest
\* those that are among the newest in the end, with the same exceptions (migrate of migrate_store.py).
THEOREM RunCopiesAll == Spec => []MigrationComplete
  <1>1. ASSUME Inv PROVE MigrationComplete
    <2> SUFFICES ASSUME pc = "done", reader = "tool", ~disturbed,
                        NEW t \in kept, Alone(t), desc => Rank(t) <= Newest, t \notin Copied
                 PROVE  FALSE
      BY DEF MigrationComplete
    <2>1. desc /\ Newest <= Place(rows, t, desc)
      BY <1>1 DEF Inv, ToolInv, ToolAhead, Tool
    <2>2. Place(rows, t, desc) \in Nat /\ Newest \in Nat
      BY <1>1, PlaceType, PagingAssumption DEF Inv, Types
    <2>3. Rank(t) = Place(rows, t, desc) + 1
      BY <2>1 DEF Rank, Place, Before
    <2>4. Rank(t) <= Newest
      BY <2>1, Zenon
    <2>5. Newest <= Place(rows, t, desc) /\ Place(rows, t, desc) + 1 <= Newest
      BY <2>1, <2>3, <2>4, Zenon
    <2> QED
      BY ONLY <2>2, <2>5
  <1> QED
    BY <1>1, Invariant, PTL
-----------------------------------------------------------------------------
(* Last values *)

\* The last value of a group address is the first of its newest telegrams, of those that were not cleared;
\* the deque may have dropped it.
LastOf(seq, lasts) ==
  \A k \in DOMAIN seq : LET n == NameOf[seq[k]] IN
    /\ n \in DOMAIN lasts
    /\ \/ TimeOf[seq[k]] < TimeOf[lasts[n]]
       \/ TimeOf[seq[k]] = TimeOf[lasts[n]] /\ \A j \in DOMAIN seq : seq[j] = lasts[n] => j <= k

LastInv ==
  /\ used \subseteq Telegrams
  /\ deque \in Seq(used) /\ IsInjective(deque)
  /\ \A n \in DOMAIN last : last[n] \in used /\ NameOf[last[n]] = n
  /\ last = [n \in DOMAIN last |-> last[n]]
  /\ LastOf(deque, last)

\* The winner of a batch is the first of its newest telegrams for a group address.
LEMMA WinnerIs ==
  ASSUME NEW batch \in Seq(Telegrams), NEW n, \E k \in DOMAIN batch : NameOf[batch[k]] = n
  PROVE  \E k \in DOMAIN batch :
           /\ Winner(batch, n) = batch[k] /\ NameOf[batch[k]] = n
           /\ \A j \in DOMAIN batch : NameOf[batch[j]] = n =>
                TimeOf[batch[j]] < TimeOf[batch[k]] \/ (TimeOf[batch[j]] = TimeOf[batch[k]] /\ k <= j)
  <1> DEFINE S == {k \in DOMAIN batch : NameOf[batch[k]] = n}
             Ahead(j, k) == TimeOf[batch[j]] > TimeOf[batch[k]] \/ (TimeOf[batch[j]] = TimeOf[batch[k]] /\ j < k)
             R == {e \in S \X S : Ahead(e[1], e[2])}
             First(k) == /\ NameOf[batch[k]] = n
                         /\ \A j \in DOMAIN batch : NameOf[batch[j]] = n =>
                              TimeOf[batch[j]] < TimeOf[batch[k]] \/ (TimeOf[batch[j]] = TimeOf[batch[k]] /\ k <= j)
  <1>1. DOMAIN batch = 1..Len(batch) /\ Len(batch) \in Nat /\ \A k \in DOMAIN batch : TimeOf[batch[k]] \in Nat
    BY QueriesAssumption
  <1>2. IsFiniteSet(S) /\ S # {}
    <2>1. 1 \in Int /\ Len(batch) \in Int
      BY <1>1
    <2>2. IsFiniteSet(1..Len(batch))
      BY <2>1, FS_Interval
    <2>3. S \in SUBSET (1..Len(batch)) /\ S # {}
      BY <1>1
    <2> HIDE DEF S
    <2> QED
      BY <2>2, <2>3, FS_Subset
  <1>3. /\ \A x \in S : ~Ahead(x, x)
        /\ \A x, y, z \in S : Ahead(x, y) /\ Ahead(y, z) => Ahead(x, z)
        /\ \A x, y \in S : ~Ahead(y, x) => TimeOf[batch[y]] < TimeOf[batch[x]] \/ (TimeOf[batch[y]] = TimeOf[batch[x]] /\ x <= y)
    BY <1>1
  <1>4. PICK x \in S : \A y \in S : ~Ahead(y, x)
    <2> HIDE DEF S, Ahead
    <2>1. /\ \A x \in S : <<x, x>> \notin R
          /\ \A x, y, z \in S : <<x, y>> \in R /\ <<y, z>> \in R => <<x, z>> \in R
          /\ \A x, y \in S : <<y, x>> \notin R => ~Ahead(y, x)
      BY <1>3
    <2> HIDE DEF R
    <2>2. \E x \in S : \A y \in S : <<y, x>> \notin R
      BY <1>2, <2>1, MinimalElement
    <2> QED
      BY <2>1, <2>2
  <1>5. x \in DOMAIN batch /\ First(x)
    BY <1>3, <1>4
  <1>6. Winner(batch, n) = batch[CHOOSE k \in DOMAIN batch : First(k)]
    BY DEF Winner
  <1> HIDE DEF First
  <1>7. PICK k \in DOMAIN batch : k = (CHOOSE j \in DOMAIN batch : First(j)) /\ First(k)
    BY <1>5
  <1> QED
    BY <1>6, <1>7 DEF First

\* The places of a sequence from the m-th on.
LEMMA LastPlaces ==
  ASSUME NEW S, NEW s \in Seq(S), NEW m \in Int, m >= 1, m <= Len(s)
  PROVE  /\ SubSeq(s, m, Len(s)) \in Seq(S)
         /\ Len(SubSeq(s, m, Len(s))) = Len(s) - m + 1
         /\ \A i \in 1..(Len(s) - m + 1) : SubSeq(s, m, Len(s))[i] = s[m + i - 1]
  OBVIOUS

\* Dropping the oldest places of the deque leaves last values as true as they were.
LEMMA KeptLast ==
  ASSUME NEW S \in SUBSET Telegrams, NEW s \in Seq(S), IsInjective(s), NEW lasts, LastOf(s, lasts)
  PROVE  Kept(s) \in Seq(S) /\ IsInjective(Kept(s)) /\ LastOf(Kept(s), lasts)
  <1>1. MaxTelegrams \in Nat /\ MaxTelegrams > 0 /\ Len(s) \in Nat /\ DOMAIN s = 1..Len(s)
    BY QueriesAssumption
  <1>2. CASE Len(s) <= MaxTelegrams
    BY <1>2 DEF Kept
  <1>3. CASE ~(Len(s) <= MaxTelegrams)
    <2> DEFINE from == Len(s) - MaxTelegrams
    <2>1. Kept(s) = SubSeq(s, from + 1, Len(s)) /\ from \in Nat /\ from < Len(s) /\ Len(s) - from = MaxTelegrams
      BY <1>1, <1>3 DEF Kept
    <2> HIDE DEF from
    <2>2. from + 1 \in Int /\ Len(s) \in Int /\ \A i \in (from + 1)..Len(s) : s[i] \in S
      BY <1>1, <2>1
    <2>3. /\ Kept(s) \in Seq(S) /\ DOMAIN Kept(s) = 1..MaxTelegrams
          /\ \A i \in 1..MaxTelegrams : from + i \in DOMAIN s /\ Kept(s)[i] = s[from + i]
      <3>1. from + 1 \in Int /\ from + 1 >= 1 /\ from + 1 <= Len(s) /\ Len(s) - (from + 1) + 1 = MaxTelegrams
        <4>1. from \in Nat /\ Len(s) \in Nat /\ MaxTelegrams \in Nat /\ from < Len(s) /\ Len(s) - from = MaxTelegrams
          BY <1>1, <2>1, Zenon
        <4> QED
          BY ONLY <4>1
      <3>2. /\ Kept(s) \in Seq(S) /\ Len(Kept(s)) = Len(s) - (from + 1) + 1
            /\ \A i \in 1..(Len(s) - (from + 1) + 1) : Kept(s)[i] = s[(from + 1) + i - 1]
        <4> DEFINE m == from + 1
                   tail == Kept(s)
        <4>1. m \in Int /\ m >= 1 /\ m <= Len(s) /\ tail = SubSeq(s, m, Len(s))
          BY <2>1, <3>1
        <4> HIDE DEF m, tail
        <4>2. /\ SubSeq(s, m, Len(s)) \in Seq(S)
              /\ Len(SubSeq(s, m, Len(s))) = Len(s) - m + 1
              /\ \A i \in 1..(Len(s) - m + 1) : SubSeq(s, m, Len(s))[i] = s[m + i - 1]
          BY <4>1, LastPlaces, Zenon
        <4>3. /\ tail \in Seq(S) /\ Len(tail) = Len(s) - m + 1
              /\ \A i \in 1..(Len(s) - m + 1) : tail[i] = s[m + i - 1]
          BY <4>1, <4>2, Zenon
        <4> QED
          BY <4>3 DEF m, tail
      <3>3. Len(Kept(s)) = MaxTelegrams
        BY <3>1, <3>2
      <3>4. DOMAIN Kept(s) = 1..MaxTelegrams
        BY <3>2, <3>3
      <3>5. ASSUME NEW i \in 1..MaxTelegrams PROVE from + i \in DOMAIN s /\ Kept(s)[i] = s[from + i]
        <4>1. from + i \in DOMAIN s /\ (from + 1) + i - 1 = from + i
          BY <1>1, <2>1
        <4>2. Kept(s)[i] = s[(from + 1) + i - 1]
          BY <3>1, <3>2
        <4> QED
          BY <4>1, <4>2, Zenon
      <3> QED
        BY <3>2, <3>4, <3>5
    <2>4. IsInjective(Kept(s))
      <3>1. ASSUME NEW i \in 1..MaxTelegrams, NEW j \in 1..MaxTelegrams, Kept(s)[i] = Kept(s)[j] PROVE i = j
        <4>1. from + i = from + j
          BY <2>3, <3>1 DEF IsInjective
        <4> QED
          BY <1>1, <2>1, <4>1
      <3> QED
        BY <2>3, <3>1 DEF IsInjective
    <2>5. LastOf(Kept(s), lasts)
      <3> SUFFICES ASSUME NEW k \in 1..MaxTelegrams
                   PROVE  LET n == NameOf[Kept(s)[k]] IN
                            /\ n \in DOMAIN lasts
                            /\ \/ TimeOf[Kept(s)[k]] < TimeOf[lasts[n]]
                               \/ /\ TimeOf[Kept(s)[k]] = TimeOf[lasts[n]]
                                  /\ \A j \in 1..MaxTelegrams : Kept(s)[j] = lasts[n] => j <= k
        BY <2>3 DEF LastOf
      <3> DEFINE n == NameOf[s[from + k]]
      <3>1. Kept(s)[k] = s[from + k] /\ from + k \in DOMAIN s
        BY <2>3
      <3>2. /\ n \in DOMAIN lasts
            /\ \/ TimeOf[s[from + k]] < TimeOf[lasts[n]]
               \/ TimeOf[s[from + k]] = TimeOf[lasts[n]] /\ \A j \in DOMAIN s : s[j] = lasts[n] => j <= from + k
        BY <3>1 DEF LastOf
      <3>3. ASSUME \A j \in DOMAIN s : s[j] = lasts[n] => j <= from + k, NEW j \in 1..MaxTelegrams, Kept(s)[j] = lasts[n]
            PROVE  j <= k
        <4>1. from + j <= from + k
          BY <2>3, <3>3
        <4> QED
          BY <1>1, <2>1, <4>1
      <3> HIDE DEF n
      <3> QED
        BY <3>1, <3>2, <3>3 DEF n
    <2> QED
      BY <2>3, <2>4, <2>5
  <1> QED
    BY <1>2, <1>3

\* A batch of telegrams that were never stored keeps the last values true of all that is in the deque.
LEMMA StoreLast ==
  ASSUME LastInv, NEW batch \in Seq(Telegrams), IsInjective(batch), StoreMany(batch)
  PROVE  LastInv'
  <1> DEFINE names == {NameOf[t] : t \in ToSet(batch)}
             s == deque \o batch
             m == Len(deque)
  <1>1. /\ used \subseteq Telegrams /\ deque \in Seq(used) /\ IsInjective(deque)
        /\ \A n \in DOMAIN last : last[n] \in used /\ NameOf[last[n]] = n
        /\ LastOf(deque, last)
    BY DEF LastInv
  <1>2. /\ ToSet(batch) \cap used = {} /\ used' = used \cup ToSet(batch) /\ deque' = Kept(s)
        /\ last' = [n \in DOMAIN last \cup names |->
                      IF n \in names /\ (n \notin DOMAIN last \/ TimeOf[Winner(batch, n)] > TimeOf[last[n]])
                      THEN Winner(batch, n) ELSE last[n]]
    BY DEF StoreMany
  <1>3. ToSet(batch) \subseteq Telegrams /\ used' \subseteq Telegrams
    BY <1>1, <1>2, RangeFinite
  <1>4. \A t \in Telegrams : TimeOf[t] \in Nat
    BY QueriesAssumption
  <1>5. /\ m \in Nat /\ DOMAIN deque = 1..m /\ Len(batch) \in Nat /\ DOMAIN batch = 1..Len(batch)
        /\ \A k \in 1..m : deque[k] \in used
        /\ \A k \in 1..Len(batch) : batch[k] \in ToSet(batch) /\ NameOf[batch[k]] \in names
    <2>1. m \in Nat /\ DOMAIN deque = 1..m /\ Len(batch) \in Nat /\ DOMAIN batch = 1..Len(batch)
      BY <1>1
    <2>2. \A k \in 1..m : deque[k] \in used
      BY <1>1
    <2>3. \A k \in 1..Len(batch) : batch[k] \in ToSet(batch)
      BY <2>1 DEF ToSet
    <2> QED
      BY <2>1, <2>2, <2>3
  \* the places of both, before the deque drops any
  <1>6. /\ s \in Seq(used') /\ DOMAIN s = 1..(m + Len(batch))
        /\ \A k \in 1..m : s[k] = deque[k]
        /\ \A k \in 1..Len(batch) : s[m + k] = batch[k]
    <2>1. deque \in Seq(used') /\ batch \in Seq(used')
      <3>1. deque \in Seq(used')
        BY <1>1, <1>2, SeqGrows
      <3>2. batch = [k \in 1..Len(batch) |-> batch[k]] /\ \A k \in 1..Len(batch) : batch[k] \in used'
        BY <1>2, <1>5
      <3> QED
        BY <1>5, <3>1, <3>2
    <2> QED
      BY <1>5, <2>1, ConcatProperties
  <1>7. ASSUME NEW k \in DOMAIN s
        PROVE  \/ k \in 1..m /\ s[k] = deque[k] /\ s[k] \in used
               \/ \E i \in 1..Len(batch) : k = m + i /\ s[k] = batch[i] /\ s[k] \notin used
    <2>1. CASE k <= m
      BY <1>5, <1>6, <2>1
    <2>2. CASE m < k
      <3>1. k - m \in 1..Len(batch) /\ k = m + (k - m)
        BY <1>5, <1>6, <2>2
      <3>2. s[k] = batch[k - m] /\ batch[k - m] \in ToSet(batch)
        BY <1>5, <1>6, <3>1
      <3> HIDE DEF s, m
      <3> QED
        BY <1>2, <3>1, <3>2
    <2> QED
      BY <1>5, <1>6, <2>1, <2>2
  <1>8. ASSUME NEW n \in names
        PROVE  \E i \in 1..Len(batch) :
                 /\ Winner(batch, n) = batch[i] /\ NameOf[batch[i]] = n
                 /\ \A j \in 1..Len(batch) : NameOf[batch[j]] = n =>
                      TimeOf[batch[j]] < TimeOf[batch[i]] \/ (TimeOf[batch[j]] = TimeOf[batch[i]] /\ i <= j)
    <2>1. \E k \in DOMAIN batch : NameOf[batch[k]] = n
      BY DEF ToSet
    <2> HIDE DEF names
    <2> QED
      BY <1>5, <2>1, WinnerIs
  <1> HIDE DEF s, m, names
  <1>9. IsInjective(s)
    <2> SUFFICES ASSUME NEW j \in DOMAIN s, NEW k \in DOMAIN s, s[j] = s[k] PROVE j = k
      BY DEF IsInjective
    <2>1. \A i, l \in 1..m : deque[i] = deque[l] => i = l
      BY <1>1, <1>5 DEF IsInjective
    <2>2. \A i, l \in 1..Len(batch) : batch[i] = batch[l] => i = l
      BY <1>5 DEF IsInjective
    <2>3. CASE s[j] \in used
      BY <1>7, <2>1, <2>3
    <2>4. CASE s[j] \notin used
      <3>1. PICK i \in 1..Len(batch) : j = m + i /\ s[j] = batch[i]
        BY <1>7, <2>4
      <3>2. PICK l \in 1..Len(batch) : k = m + l /\ s[k] = batch[l]
        BY <1>7, <2>4
      <3> QED
        BY <2>2, <3>1, <3>2
    <2> QED
      BY <2>3, <2>4
  <1>10. /\ DOMAIN last' = DOMAIN last \cup names
         /\ last' = [n \in DOMAIN last' |-> last'[n]]
         /\ \A n \in DOMAIN last' :
              last'[n] = IF n \in names /\ (n \notin DOMAIN last \/ TimeOf[Winner(batch, n)] > TimeOf[last[n]])
                         THEN Winner(batch, n) ELSE last[n]
    BY <1>2
  <1>11. ASSUME NEW n \in DOMAIN last'
         PROVE  last'[n] \in used' /\ NameOf[last'[n]] = n
    <2>1. CASE last'[n] = last[n] /\ n \in DOMAIN last
      BY <1>1, <1>2, <2>1
    <2>2. CASE n \in names /\ last'[n] = Winner(batch, n)
      BY <1>2, <1>5, <1>8, <2>2
    <2> QED
      BY <1>10, <2>1, <2>2
  <1>12. LastOf(s, last')
    <2> SUFFICES ASSUME NEW k \in DOMAIN s, NEW n, n = NameOf[s[k]]
                 PROVE  /\ n \in DOMAIN last'
                        /\ \/ TimeOf[s[k]] < TimeOf[last'[n]]
                           \/ TimeOf[s[k]] = TimeOf[last'[n]] /\ \A j \in DOMAIN s : s[j] = last'[n] => j <= k
      BY DEF LastOf
    \* an old telegram against the last value there was
    <2>1. ASSUME s[k] \in used
          PROVE  /\ k \in 1..m /\ n \in DOMAIN last /\ TimeOf[last[n]] \in Nat /\ TimeOf[s[k]] \in Nat
                 /\ \/ TimeOf[s[k]] < TimeOf[last[n]]
                    \/ TimeOf[s[k]] = TimeOf[last[n]] /\ \A j \in DOMAIN s : s[j] = last[n] => j <= k
      <3>1. k \in 1..m /\ s[k] = deque[k] /\ n = NameOf[deque[k]]
        BY <1>7, <2>1
      <3>2. /\ n \in DOMAIN last
            /\ \/ TimeOf[deque[k]] < TimeOf[last[n]]
               \/ TimeOf[deque[k]] = TimeOf[last[n]] /\ \A j \in 1..m : deque[j] = last[n] => j <= k
        BY <1>1, <1>5, <3>1 DEF LastOf
      <3>3. last[n] \in used /\ TimeOf[last[n]] \in Nat /\ TimeOf[s[k]] \in Nat
        BY <1>1, <1>4, <2>1, <3>2
      <3>4. \A j \in DOMAIN s : s[j] = last[n] => j \in 1..m /\ deque[j] = last[n]
        BY <1>7, <3>3
      <3> QED
        BY <3>1, <3>2, <3>3, <3>4
    <2>2. CASE n \notin names
      <3>1. s[k] \in used
        BY <1>5, <1>7, <2>2
      <3>2. n \in DOMAIN last' /\ last'[n] = last[n]
        BY <1>10, <2>1, <2>2, <3>1
      <3> QED
        BY <2>1, <3>1, <3>2
    <2>3. CASE n \in names
      <3>1. PICK i \in 1..Len(batch) :
              /\ Winner(batch, n) = batch[i] /\ NameOf[batch[i]] = n
              /\ \A j \in 1..Len(batch) : NameOf[batch[j]] = n =>
                   TimeOf[batch[j]] < TimeOf[batch[i]] \/ (TimeOf[batch[j]] = TimeOf[batch[i]] /\ i <= j)
        BY <1>8, <2>3
      <3>2. batch[i] \notin used /\ TimeOf[batch[i]] \in Nat /\ n \in DOMAIN last'
        BY <1>2, <1>3, <1>4, <1>5, <1>10, <2>3
      <3>3. ASSUME s[k] \notin used
            PROVE  \E j \in 1..Len(batch) :
                     /\ k = m + j /\ s[k] = batch[j] /\ TimeOf[s[k]] \in Nat
                     /\ TimeOf[s[k]] < TimeOf[batch[i]] \/ (TimeOf[s[k]] = TimeOf[batch[i]] /\ i <= j)
        <4>1. PICK j \in 1..Len(batch) : k = m + j /\ s[k] = batch[j]
          BY <1>7, <3>3
        <4>2. TimeOf[s[k]] \in Nat /\ NameOf[batch[j]] = n
          BY <1>3, <1>4, <1>5, <4>1
        <4> QED
          BY <3>1, <4>1, <4>2
      <3>4. CASE n \in DOMAIN last /\ ~(TimeOf[batch[i]] > TimeOf[last[n]])
        <4>1. last'[n] = last[n] /\ last[n] \in used /\ TimeOf[last[n]] \in Nat
          BY <1>1, <1>4, <1>10, <3>1, <3>2, <3>4
        <4>2. CASE s[k] \in used
          BY <2>1, <3>2, <4>1, <4>2
        <4>3. CASE s[k] \notin used
          <5>1. TimeOf[s[k]] <= TimeOf[last[n]] /\ TimeOf[s[k]] \in Nat /\ m < k /\ k \in Int
            BY <1>5, <3>2, <3>3, <3>4, <4>1, <4>3
          <5>2. ASSUME NEW j \in DOMAIN s, s[j] = last[n] PROVE j <= k
            <6>1. j \in 1..m
              BY <1>7, <4>1, <5>2
            <6> QED
              BY <1>5, <5>1, <6>1
          <5> QED
            BY <3>2, <4>1, <5>1, <5>2
        <4> QED
          BY <4>2, <4>3
      <3>5. CASE n \notin DOMAIN last \/ TimeOf[batch[i]] > TimeOf[last[n]]
        <4>1. last'[n] = batch[i]
          BY <1>10, <2>3, <3>1, <3>2, <3>5
        <4>2. CASE s[k] \in used
          BY <2>1, <3>2, <3>5, <4>1, <4>2
        <4>3. CASE s[k] \notin used
          <5>1. PICK j \in 1..Len(batch) :
                  /\ k = m + j
                  /\ TimeOf[s[k]] < TimeOf[batch[i]] \/ (TimeOf[s[k]] = TimeOf[batch[i]] /\ i <= j)
            BY <3>3, <4>3
          <5>2. \A l \in DOMAIN s : s[l] = batch[i] => l = m + i
            <6>1. m + i \in DOMAIN s /\ s[m + i] = batch[i]
              BY <1>5, <1>6
            <6> QED
              BY <1>9, <6>1 DEF IsInjective
          <5>3. i <= j => m + i <= k
            BY <1>5, <5>1
          <5> QED
            BY <3>2, <4>1, <5>1, <5>2, <5>3
        <4> QED
          BY <4>2, <4>3
      <3> QED
        BY <3>4, <3>5
    <2> QED
      BY <2>2, <2>3
  <1>13. deque' \in Seq(used') /\ IsInjective(deque') /\ LastOf(deque', last')
    BY <1>2, <1>3, <1>6, <1>9, <1>12, KeptLast
  <1> QED
    BY <1>3, <1>10, <1>11, <1>13 DEF LastInv

LEMMA LastInvStep ==
  ASSUME LastInv, [Next]_vars
  PROVE  LastInv'
  <1>1. ASSUME UNCHANGED <<last, deque, used>> PROVE LastInv'
    BY <1>1 DEF LastInv, LastOf
  <1>2. CASE Host
    <2>1. ASSUME NEW batch \in Batches, StoreMany(batch) PROVE LastInv'
      <3>1. batch \in Seq(Telegrams) /\ IsInjective(batch)
        BY QueriesAssumption
      <3> QED
        BY <2>1, <3>1, StoreLast
    <2>2. ASSUME Clear PROVE LastInv'
      <3>1. last' = << >> /\ deque' = << >> /\ used' = used
        BY <2>2 DEF Clear
      <3>2. DOMAIN << >> = {} /\ << >> = [n \in {} |-> << >>[n]]
        OBVIOUS
      <3> QED
        BY <3>1, <3>2 DEF LastInv, LastOf, IsInjective
    <2>3. ASSUME NEW cutoff \in Cutoffs, EvictOlderThan(cutoff) PROVE LastInv'
      BY <1>1, <2>3 DEF EvictOlderThan
    <2> QED
      BY <1>2, <2>1, <2>2, <2>3 DEF Host
  <1>3. CASE ~Host
    BY <1>1, <1>3 DEF Next, StartClient, StartTool, Begin, Quit, CountStatement, ClientPage, Load, Measure, ToolPage, ToolStore,
                      vars, stores
  <1> QED
    BY <1>2, <1>3

LEMMA LastInvariant == Spec => []LastInv
  <1>1. Init => LastInv
    <2>1. DOMAIN << >> = {} /\ << >> = [n \in {} |-> << >>[n]]
      OBVIOUS
    <2> QED
      BY <2>1 DEF Init, InitStores, LastInv, LastOf, IsInjective
  <1>2. LastInv /\ [Next]_vars => LastInv'
    BY LastInvStep
  <1> QED
    BY <1>1, <1>2, PTL DEF Spec

\* Last values are the same telegrams in a SQL store and in a memory store that were given the same calls, also among
\* equal timestamps, until the deque has dropped one of them (get_last_unique_telegrams of both).
THEOREM SameLastValues == Spec => []LastValuesAgree
  <1>1. LastInv => LastValuesAgree
    <2> SUFFICES ASSUME LastInv, \A n \in DOMAIN last : last[n] \in ToSet(deque) PROVE last = MemoryLast
      BY DEF LastValuesAgree
    <2> DEFINE First(n, k) == /\ NameOf[deque[k]] = n
                              /\ \A j \in DOMAIN deque : NameOf[deque[j]] = n =>
                                   \/ TimeOf[deque[j]] < TimeOf[deque[k]]
                                   \/ TimeOf[deque[j]] = TimeOf[deque[k]] /\ k <= j
               names == {NameOf[t] : t \in ToSet(deque)}
    <2>1. MemoryLast = [n \in names |-> deque[CHOOSE k \in DOMAIN deque : First(n, k)]]
      BY DEF MemoryLast
    <2>2. DOMAIN last = names
      <3>1. ToSet(deque) = {deque[k] : k \in DOMAIN deque}
        BY DEF ToSet
      <3>2. ASSUME NEW n \in DOMAIN last PROVE n \in names
        <4>1. NameOf[last[n]] = n /\ last[n] \in ToSet(deque)
          BY DEF LastInv
        <4> QED
          BY <4>1
      <3>3. ASSUME NEW n \in names PROVE n \in DOMAIN last
        <4>1. PICK k \in DOMAIN deque : n = NameOf[deque[k]]
          BY <3>1
        <4>2. LastOf(deque, last)
          BY DEF LastInv
        <4> QED
          BY <4>1, <4>2 DEF LastOf
      <3> QED
        BY <3>2, <3>3
    <2>3. ASSUME NEW n \in DOMAIN last PROVE deque[CHOOSE k \in DOMAIN deque : First(n, k)] = last[n]
      <3>1. PICK k \in DOMAIN deque : deque[k] = last[n]
        BY DEF ToSet
      <3>2. /\ deque \in Seq(Telegrams) /\ DOMAIN deque = 1..Len(deque) /\ Len(deque) \in Nat
            /\ \A j \in DOMAIN deque : TimeOf[deque[j]] \in Nat
        <4>1. deque \in Seq(Telegrams)
          BY SeqGrows DEF LastInv
        <4> QED
          BY <4>1, QueriesAssumption
      <3>3. First(n, k)
        BY <3>1, <3>2 DEF LastInv, LastOf
      <3>4. ASSUME NEW j \in DOMAIN deque, First(n, j) PROVE j = k
        BY <3>2, <3>3, <3>4
      <3> HIDE DEF First
      <3>5. (CHOOSE j \in DOMAIN deque : First(n, j)) = k
        BY <3>3, <3>4
      <3> QED
        BY <3>1, <3>5
    <2>4. last = [n \in DOMAIN last |-> last[n]]
      BY DEF LastInv
    <2> HIDE DEF First, names
    <2> QED
      BY <2>1, <2>2, <2>3, <2>4
  <1> QED
    BY <1>1, LastInvariant, PTL
-----------------------------------------------------------------------------
(* Queries of the two kinds of stores *)

\* The bisection finds a pivot in the window whenever there is one.
LEMMA PivotIs ==
  ASSUME NEW pivots \in SUBSET Nat, NEW low \in Int, NEW high \in Int
  PROVE  PivotBetween(pivots, low, high) <=> \E p \in pivots : low <= p /\ p <= high
  <1> DEFINE rest == {p \in pivots : ~(p < low)}
             Least(x) == \A y \in rest : x <= y
  <1>1. PivotBetween(pivots, low, high) <=> rest # {} /\ (CHOOSE x \in rest : Least(x)) <= high
    BY DEF PivotBetween, Min
  <1>2. \A p \in pivots : p \in Nat
    OBVIOUS
  <1>3. rest \in SUBSET Nat /\ (\A p \in rest : p \in pivots /\ low <= p) /\ (\A p \in pivots : low <= p => p \in rest)
    <2>1. \A p \in pivots : p \in rest <=> low <= p
      BY <1>2
    <2>2. rest \subseteq pivots
      OBVIOUS
    <2> HIDE DEF rest
    <2> QED
      BY <2>1, <2>2
  <1>4. CASE rest = {}
    BY <1>1, <1>3, <1>4
  <1>5. CASE rest # {}
    <2> HIDE DEF rest
    <2>1. \E x \in rest : Least(x)
      BY <1>3, <1>5, LeastNatural
    <2> DEFINE first == CHOOSE x \in rest : Least(x)
    <2>2. first \in rest /\ \A y \in rest : first <= y
      BY <2>1
    <2> HIDE DEF first
    <2>3. (first <= high) <=> \E p \in pivots : low <= p /\ p <= high
      BY <1>2, <1>3, <2>2
    <2> QED
      BY <1>1, <1>5, <2>3 DEF first
  <1> QED
    BY <1>4, <1>5

\* The deque as a memory store that was given the telegrams of the rows.
Deque == deque \in Seq(Telegrams) /\ IsInjective(deque) /\ ToSet(deque) = rows

\* The loops of the memory store find the rows the statement finds.
LEMMA MatchesAgree ==
  ASSUME Deque, NEW q \in Asked
  PROVE  /\ MemoryMatches(q) \subseteq DOMAIN deque
         /\ \A k \in DOMAIN deque : k \in MemoryMatches(q) <=> deque[k] \in SqlMatches(rows, q)
         /\ \A t \in SqlMatches(rows, q) : t \in rows
  <1> DEFINE results == {k \in DOMAIN deque : Filtered(q, deque[k])}
             found == {TimeOf[deque[k]] : k \in results}
             pivots == TimesIn({t \in rows : Filtered(q, t)})
             InWindow(t) == \E p \in pivots : TimeOf[t] >= p - q.before /\ TimeOf[t] <= p + q.after
  <1>1. /\ \A k \in DOMAIN deque : deque[k] \in rows /\ deque[k] \in Telegrams
        /\ \A t \in rows : t \in Telegrams /\ \E k \in DOMAIN deque : deque[k] = t
    <2>1. \A k \in DOMAIN deque : deque[k] \in Telegrams
      BY DEF Deque
    <2> QED
      BY <2>1 DEF Deque, ToSet
  <1>2. \A t \in Telegrams : TimeOf[t] \in Nat
    BY QueriesAssumption
  <1>3. q.before \in Nat /\ q.after \in Nat
    BY AskedAssumption
  <1>4. found = pivots
    BY <1>1 DEF TimesIn
  <1>5. pivots \in SUBSET Nat
    BY <1>1, <1>2 DEF TimesIn
  <1>6. SqlMatches(rows, q) = IF Window(q) /\ HasFilters(q) THEN {t \in rows : InWindow(t)} ELSE {t \in rows : Filtered(q, t)}
    BY DEF SqlMatches
  <1>7. MemoryMatches(q) =
          IF Window(q)
          THEN {k \in DOMAIN deque : PivotBetween(found, TimeOf[deque[k]] - q.after, TimeOf[deque[k]] + q.before)}
          ELSE results
    BY DEF MemoryMatches
  <1>8. ASSUME NEW t \in rows
        PROVE  PivotBetween(found, TimeOf[t] - q.after, TimeOf[t] + q.before) <=> InWindow(t)
    <2>1. TimeOf[t] \in Nat
      BY <1>1, <1>2
    <2> DEFINE low == TimeOf[t] - q.after
               high == TimeOf[t] + q.before
    <2>2. low \in Int /\ high \in Int
      BY <1>3, <2>1
    <2> HIDE DEF found, pivots
    <2>3. PivotBetween(found, low, high) <=> \E p \in pivots : low <= p /\ p <= high
      <3> HIDE DEF low, high
      <3> QED
        BY <1>4, <1>5, <2>2, PivotIs
    <2>4. \A p \in pivots : low <= p /\ p <= high <=> TimeOf[t] >= p - q.before /\ TimeOf[t] <= p + q.after
      BY <1>3, <1>5, <2>1
    <2> QED
      BY <2>3, <2>4
  <1>9. ASSUME ~HasFilters(q), NEW t \in rows PROVE Filtered(q, t) /\ InWindow(t)
    <2>1. Filtered(q, t)
      BY <1>9 DEF HasFilters, Filtered, InTime
    <2>2. TimeOf[t] \in pivots /\ TimeOf[t] \in Nat
      BY <1>1, <1>2, <2>1 DEF TimesIn
    <2> HIDE DEF pivots
    <2> QED
      BY <1>3, <2>1, <2>2
  <1> HIDE DEF found, pivots, InWindow
  <1>10. ASSUME NEW k \in DOMAIN deque PROVE k \in MemoryMatches(q) <=> deque[k] \in SqlMatches(rows, q)
    <2>1. deque[k] \in rows
      BY <1>1
    <2>2. PivotBetween(found, TimeOf[deque[k]] - q.after, TimeOf[deque[k]] + q.before) <=> InWindow(deque[k])
      BY <1>8, <2>1
    <2>3. CASE ~Window(q)
      BY <1>6, <1>7, <2>1, <2>3
    <2>4. CASE Window(q) /\ HasFilters(q)
      BY <1>6, <1>7, <2>1, <2>2, <2>4
    <2>5. CASE Window(q) /\ ~HasFilters(q)
      BY <1>6, <1>7, <1>9, <2>1, <2>2, <2>5
    <2> QED
      BY <2>3, <2>4, <2>5
  <1>11. MemoryMatches(q) \subseteq DOMAIN deque
    BY <1>7
  <1>12. \A t \in SqlMatches(rows, q) : t \in rows
    BY <1>6
  <1> QED
    BY <1>10, <1>11, <1>12
\* The sort leaves an order of the matches, which is stable and so one of those a database may choose.
LEMMA OrderAgrees ==
  ASSUME Deque, NEW q \in Asked
  PROVE  MemoryOrder(q) \in Orders(SqlMatches(rows, q), q.desc) /\ Len(MemoryOrder(q)) = Cardinality(SqlMatches(rows, q))
  <1> DEFINE picks == MemoryMatches(q)
             found == SqlMatches(rows, q)
             n == Cardinality(picks)
             R == {e \in picks \X picks : Earlier(e[1], e[2], q.desc)}
             Count(k) == Cardinality({j \in picks : Earlier(j, k, q.desc)})
             At(m) == CHOOSE k \in picks : Count(k) = m - 1
             order == MemoryOrder(q)
  <1>1. /\ picks \subseteq DOMAIN deque
        /\ \A k \in DOMAIN deque : k \in picks <=> deque[k] \in found
        /\ \A t \in found : t \in rows
    BY MatchesAgree, Zenon
  <1>2. /\ deque \in Seq(Telegrams) /\ DOMAIN deque = 1..Len(deque) /\ Len(deque) \in Nat
        /\ \A j, k \in DOMAIN deque : deque[j] = deque[k] => j = k
        /\ \A t \in rows : \E k \in DOMAIN deque : deque[k] = t
    BY DEF Deque, IsInjective, ToSet
  <1>3. \A k \in DOMAIN deque : TimeOf[deque[k]] \in Nat
    BY <1>2, QueriesAssumption
  <1>4. q.desc \in BOOLEAN
    BY AskedAssumption
  <1>5. order = [m \in 1..n |-> deque[At(m)]]
    BY DEF MemoryOrder
  <1> HIDE DEF picks, found, order
  <1>6. IsFiniteSet(picks) /\ n \in Nat
    <2>1. 1 \in Int /\ Len(deque) \in Int
      BY <1>2
    <2>2. IsFiniteSet(1..Len(deque))
      BY <2>1, FS_Interval
    <2>3. picks \in SUBSET (1..Len(deque))
      BY <1>1, <1>2
    <2>4. IsFiniteSet(picks)
      BY <2>2, <2>3, FS_Subset, Zenon
    <2> QED
      BY <2>4, FS_CardinalityType
  <1>7. /\ \A x \in picks : ~Earlier(x, x, q.desc)
        /\ \A x, y, z \in picks : Earlier(x, y, q.desc) /\ Earlier(y, z, q.desc) => Earlier(x, z, q.desc)
        /\ \A x, y \in picks : x # y => Earlier(x, y, q.desc) \/ Earlier(y, x, q.desc)
    <2>1. \A k \in picks : k \in Nat /\ TimeOf[deque[k]] \in Nat
      BY <1>1, <1>2, <1>3
    <2> QED
      BY <1>4, <2>1 DEF Earlier, Before
  <1>8. /\ \A x, y \in picks : Earlier(y, x, q.desc) => Count(y) < Count(x)
        /\ \A x \in picks : Count(x) \in 0..(n - 1)
        /\ \A m \in 1..n : \E x \in picks : Count(x) = m - 1
    <2>1. \A x, y \in picks : <<x, y>> \in R <=> Earlier(x, y, q.desc)
      OBVIOUS
    <2> HIDE DEF R
    <2>2. /\ \A x \in picks : <<x, x>> \notin R
          /\ \A x, y, z \in picks : <<x, y>> \in R /\ <<y, z>> \in R => <<x, z>> \in R
          /\ \A x, y \in picks : x # y => <<x, y>> \in R \/ <<y, x>> \in R
      BY <1>7, <2>1
    <2>3. /\ \A x, y \in picks : <<y, x>> \in R =>
               Cardinality({z \in picks : <<z, y>> \in R}) < Cardinality({z \in picks : <<z, x>> \in R})
          /\ \A x \in picks : Cardinality({z \in picks : <<z, x>> \in R}) \in 0..(Cardinality(picks) - 1)
          /\ \A m \in 1..Cardinality(picks) : \E x \in picks : Cardinality({z \in picks : <<z, x>> \in R}) = m - 1
      BY <1>6, <2>2, Ranked, Zenon
    <2>4. ASSUME NEW x \in picks PROVE Count(x) = Cardinality({z \in picks : <<z, x>> \in R})
      <3>1. {z \in picks : <<z, x>> \in R} = {j \in picks : Earlier(j, x, q.desc)}
        BY <2>1
      <3> QED
        BY <3>1
    <2> HIDE DEF Count
    <2> QED
      BY <2>1, <2>3, <2>4
  <1> HIDE DEF Count, n
  <1>9. ASSUME NEW m \in 1..n PROVE At(m) \in picks /\ Count(At(m)) = m - 1
    <2>1. \E x \in picks : Count(x) = m - 1
      BY <1>8
    <2> QED
      BY <2>1
  <1> HIDE DEF At
  <1>10. ASSUME NEW j \in 1..n, NEW k \in 1..n, order[j] = order[k] PROVE j = k
    <2>1. At(j) = At(k)
      BY <1>1, <1>2, <1>5, <1>9, <1>10
    <2>2. j - 1 = k - 1
      BY <1>9, <2>1
    <2> QED
      BY <1>6, <2>2
  <1>11. ASSUME NEW j \in 1..n, NEW k \in 1..n, j < k PROVE ~Before(order[k], order[j], q.desc)
    <2>1. SUFFICES ASSUME Before(deque[At(k)], deque[At(j)], q.desc) PROVE FALSE
      BY <1>5
    <2>2. Earlier(At(k), At(j), q.desc)
      BY <2>1 DEF Earlier
    <2>3. Count(At(k)) < Count(At(j))
      BY <1>8, <1>9, <2>2
    <2>4. k - 1 < j - 1
      BY <1>9, <2>3
    <2> QED
      BY <1>6, <1>11, <2>4
  <1>12. Cardinality(found) = n
    <2> DEFINE f == [k \in picks |-> deque[k]]
    <2>1. f \in Bijection(picks, found)
      <3>1. \A k \in picks : k \in DOMAIN deque /\ deque[k] \in found
        BY <1>1
      <3>2. \A t \in found : \E k \in picks : deque[k] = t
        BY <1>1, <1>2
      <3>3. \A j, k \in picks : deque[j] = deque[k] => j = k
        BY <1>2, <3>1
      <3> QED
        BY <3>1, <3>2, <3>3 DEF Bijection, Injection, Surjection, IsInjective
    <2> HIDE DEF f
    <2>2. ExistsBijection(picks, found)
      BY <2>1 DEF ExistsBijection
    <2> QED
      BY <1>6, <2>2, FS_Bijection DEF n
  <1>13. order \in [1..n -> found] /\ DOMAIN order = 1..n /\ Len(order) = n
    <2>1. \A m \in 1..n : deque[At(m)] \in found
      BY <1>1, <1>9
    <2> QED
      BY <1>5, <1>6, <2>1
  <1>14. order \in SetToSeqs(found)
    BY <1>10, <1>12, <1>13 DEF SetToSeqs
  <1>15. order \in Orders(found, q.desc)
    BY <1>11, <1>13, <1>14 DEF Orders
  <1> QED
    BY <1>12, <1>13, <1>15 DEF found, order

\* The memory store and the SQL statement answer every query alike, whatever is stored: as many matches, and on the
\* page the same telegrams up to the order of equal timestamps (MemoryStore.query, BaseSQLStore.query).
THEOREM SameAnswers == Spec => []BackendsAgree
  <1>1. ASSUME LastInv PROVE BackendsAgree
    <2> SUFFICES ASSUME ToSet(deque) = rows, NEW q \in Asked
                 PROVE  /\ Slice(MemoryOrder(q), q.offset, q.limit) \in SqlPages(rows, q)
                        /\ Len(MemoryOrder(q)) = Cardinality(SqlMatches(rows, q))
      BY DEF BackendsAgree
    <2>1. Deque
      <3>1. deque \in Seq(Telegrams)
        BY <1>1, SeqGrows DEF LastInv
      <3> QED
        BY <1>1, <3>1 DEF Deque, LastInv
    <2>2. MemoryOrder(q) \in Orders(SqlMatches(rows, q), q.desc) /\ Len(MemoryOrder(q)) = Cardinality(SqlMatches(rows, q))
      BY <2>1, OrderAgrees
    <2> QED
      BY <2>2 DEF SqlPages
  <1> QED
    BY <1>1, LastInvariant, PTL
=============================================================================
