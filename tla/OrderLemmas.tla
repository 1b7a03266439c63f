------------------------------- MODULE OrderLemmas -------------------------------
(***************************************************************************)
(* Extremes of finite sets and of sets of numbers, for the proofs about    *)
(* the modules of this project.                                            *)
(***************************************************************************)
EXTENDS Integers, FiniteSetTheorems, WellFoundedInduction, TLAPS

\* In a finite set that is not empty some element has none below it, whatever strict order "below" is.
LEMMA MinimalElement ==
  ASSUME NEW S, IsFiniteSet(S), S # {}, NEW R,
         \A x \in S : <<x, x>> \notin R,
         \A x, y, z \in S : <<x, y>> \in R /\ <<y, z>> \in R => <<x, z>> \in R
  PROVE  \E x \in S : \A y \in S : <<y, x>> \notin R
  <1> DEFINE Below(x) == {y \in S : <<y, x>> \in R}
             B == {Below(x) : x \in S}
             O == StrictSubsetOrdering(S)
  <1>1. B \subseteq SUBSET S
    OBVIOUS
  <1>2. B # {}
    <2> HIDE DEF Below
    <2> QED
      OBVIOUS
  <1>3. IsWellFoundedOn(O, SUBSET S)
    BY FS_StrictSubsetOrderingWellFounded, FS_FiniteSubsetsOfFinite
  <1>4. PICK b \in B : \A c \in B : <<c, b>> \notin O
    <2> HIDE DEF B, O
    <2> QED
      BY <1>2, <1>1, <1>3, WFMin
  <1>5. PICK x \in S : b = Below(x)
    OBVIOUS
  <1>6. ASSUME NEW y \in S, <<y, x>> \in R PROVE FALSE
    <2>1. Below(y) \subseteq Below(x) /\ y \in Below(x) /\ y \notin Below(y)
      BY <1>6
    <2>2. Below(y) \in SUBSET S /\ Below(x) \in SUBSET S /\ Below(y) \in B
      OBVIOUS
    <2> HIDE DEF Below
    <2>3. <<Below(y), Below(x)>> \in O
      BY <2>1, <2>2 DEF StrictSubsetOrdering
    <2> QED
      BY <1>4, <1>5, <2>2, <2>3
  <1> QED
    BY <1>6

\* A finite set of numbers has a smallest and a greatest one.
LEMMA LeastAndGreatest ==
  ASSUME NEW S \in SUBSET Int, IsFiniteSet(S), S # {}
  PROVE  /\ \E x \in S : \A y \in S : x <= y
         /\ \E x \in S : \A y \in S : y <= x
  <1>1. \E x \in S : \A y \in S : x <= y
    <2> DEFINE R == {e \in Int \X Int : e[1] < e[2]}
    <2>1. /\ \A x \in S : <<x, x>> \notin R
          /\ \A x, y, z \in S : <<x, y>> \in R /\ <<y, z>> \in R => <<x, z>> \in R
      OBVIOUS
    <2>2. \A x, y \in S : <<y, x>> \notin R => x <= y
      OBVIOUS
    <2> HIDE DEF R
    <2>3. \E x \in S : \A y \in S : <<y, x>> \notin R
      BY <2>1, MinimalElement
    <2> QED
      BY <2>2, <2>3
  <1>2. \E x \in S : \A y \in S : y <= x
    <2> DEFINE R == {e \in Int \X Int : e[2] < e[1]}
    <2>1. /\ \A x \in S : <<x, x>> \notin R
          /\ \A x, y, z \in S : <<x, y>> \in R /\ <<y, z>> \in R => <<x, z>> \in R
      OBVIOUS
    <2>2. \A x, y \in S : <<y, x>> \notin R => y <= x
      OBVIOUS
    <2> HIDE DEF R
    <2>3. \E x \in S : \A y \in S : <<y, x>> \notin R
      BY <2>1, MinimalElement
    <2> QED
      BY <2>2, <2>3
  <1> QED
    BY <1>1, <1>2

\* A set of natural numbers that is not empty has a least one.
LEMMA LeastNatural ==
  ASSUME NEW S \in SUBSET Nat, S # {}
  PROVE  \E x \in S : \A y \in S : x <= y
  <1> DEFINE R == OpToRel(<, Nat)
  <1>1. \A x, y \in Nat : <<y, x>> \notin R => x <= y
    BY DEF OpToRel
  <1> HIDE DEF R
  <1>2. \E x \in S : \A y \in S : <<y, x>> \notin R
    BY NatLessThanWellFounded, WFMin, Zenon DEF R
  <1> QED
    BY <1>1, <1>2
\* A strict order in which any two elements are ordered counts the elements of a finite set off.
LEMMA Ranked ==
  ASSUME NEW S, IsFiniteSet(S), NEW R,
         \A x \in S : <<x, x>> \notin R,
         \A x, y, z \in S : <<x, y>> \in R /\ <<y, z>> \in R => <<x, z>> \in R,
         \A x, y \in S : x # y => <<x, y>> \in R \/ <<y, x>> \in R
  PROVE  /\ \A x, y \in S : <<y, x>> \in R =>
              Cardinality({z \in S : <<z, y>> \in R}) < Cardinality({z \in S : <<z, x>> \in R})
         /\ \A x \in S : Cardinality({z \in S : <<z, x>> \in R}) \in 0..(Cardinality(S) - 1)
         /\ \A n \in 1..Cardinality(S) : \E x \in S : Cardinality({z \in S : <<z, x>> \in R}) = n - 1
  <1> DEFINE Below(x) == {z \in S : <<z, x>> \in R}
             N == Cardinality(S)
             count == [x \in S |-> Cardinality(Below(x))]
  <1>1. N \in Nat
    BY FS_CardinalityType
  <1>2. ASSUME NEW T \in SUBSET S, NEW U, U \subseteq T
        PROVE  IsFiniteSet(T) /\ Cardinality(T) \in Nat /\ Cardinality(U) \in Nat /\ Cardinality(U) <= Cardinality(T)
    <2>1. IsFiniteSet(T)
      BY FS_Subset, Zenon
    <2>2. U \in SUBSET T
      BY <1>2
    <2>3. IsFiniteSet(U) /\ Cardinality(U) <= Cardinality(T)
      BY <2>1, <2>2, FS_Subset, Zenon
    <2> QED
      BY <2>1, <2>3, FS_CardinalityType
  <1>3. ASSUME NEW T \in SUBSET S, NEW x \in T, NEW U, U \subseteq T \ {x}
        PROVE  Cardinality(U) < Cardinality(T) /\ Cardinality(U) \in Nat
    <2>1. IsFiniteSet(T) /\ Cardinality(T) \in Nat
      BY <1>2
    <2>2. Cardinality(T \ {x}) = Cardinality(T) - 1
      BY <2>1, FS_RemoveElement
    <2>3. Cardinality(U) \in Nat /\ Cardinality(U) <= Cardinality(T \ {x})
      <3>1. T \ {x} \in SUBSET S /\ U \subseteq T \ {x}
        BY <1>3
      <3> QED
        BY <3>1, <1>2
    <2> QED
      BY <2>1, <2>2, <2>3
  <1>4. ASSUME NEW x \in S, NEW y \in S, <<y, x>> \in R
        PROVE  Cardinality(Below(y)) < Cardinality(Below(x))
    <2>1. Below(x) \in SUBSET S /\ y \in Below(x) /\ Below(y) \subseteq Below(x) \ {y}
      BY <1>4
    <2> HIDE DEF Below
    <2> QED
      BY <1>3, <2>1
  <1>5. ASSUME NEW x \in S PROVE Cardinality(Below(x)) \in 0..(N - 1)
    <2>1. S \in SUBSET S /\ Below(x) \subseteq S \ {x}
      OBVIOUS
    <2>2. Cardinality(Below(x)) < Cardinality(S) /\ Cardinality(Below(x)) \in Nat
      BY <1>3, <2>1, Zenon
    <2> QED
      BY <1>1, <2>2
  <1>6. ASSUME NEW n \in 1..N PROVE \E x \in S : Cardinality(Below(x)) = n - 1
    <2>1. Cardinality(0..(N - 1)) = N /\ IsFiniteSet(0..(N - 1))
      <3>1. 0 \in Int /\ N - 1 \in Int
        BY <1>1
      <3>2. IsFiniteSet(0..(N - 1)) /\ Cardinality(0..(N - 1)) = IF 0 > N - 1 THEN 0 ELSE (N - 1) - 0 + 1
        <4> DEFINE m == N - 1
        <4> HIDE DEF m
        <4>1. IsFiniteSet(0..m) /\ Cardinality(0..m) = IF 0 > m THEN 0 ELSE m - 0 + 1
          BY <3>1, FS_Interval DEF m
        <4> QED
          BY <4>1 DEF m
      <3> HIDE DEF N
      <3> QED
        BY ONLY <1>1, <3>2
    <2> HIDE DEF Below, N
    <2>2. count \in [S -> 0..(N - 1)]
      BY <1>5
    <2>3. ASSUME NEW x \in S, NEW y \in S, count[x] = count[y] PROVE x = y
      <3>1. Cardinality(Below(x)) = Cardinality(Below(y))
        BY <2>3
      <3>2. Cardinality(Below(x)) \in 0..(N - 1)
        BY <1>5
      <3>3. Cardinality(Below(x)) \in Int
        BY ONLY <3>2, <1>1
      <3>4. <<x, y>> \notin R
        BY <1>4, <3>1, <3>3
      <3>5. <<y, x>> \notin R
        BY <1>4, <3>1, <3>3
      <3> QED
        BY <3>4, <3>5, Zenon
    <2>4. count \in Injection(S, 0..(N - 1))
      BY <2>2, <2>3 DEF Injection, IsInjective
    <2> HIDE DEF count
    <2>5. count \in Surjection(S, 0..(N - 1))
      <3>1. Cardinality(S) = Cardinality(0..(N - 1))
        BY <2>1 DEF N
      <3> QED
        BY <2>1, <2>4, <3>1, FS_Injection, Zenon
    <2>6. n - 1 \in 0..(N - 1)
      BY <1>1
    <2>7. PICK x \in S : count[x] = n - 1
      BY <2>5, <2>6 DEF Surjection
    <2> QED
      BY <2>7 DEF count
  <1> QED
    BY <1>4, <1>5, <1>6
=================================================================================
