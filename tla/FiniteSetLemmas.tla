--------------------------- MODULE FiniteSetLemmas ---------------------------
(***************************************************************************)
(* What the proofs need of finite sets and the folds of the community      *)
(* modules do not come with: that a sum does not depend on the order of    *)
(* its terms, that a set of integers has a largest and a smallest one, and *)
(* that it can be listed in order.                                         *)
(*                                                                         *)
(* Induction is by SmallestSubset: of the subsets that fail there would be *)
(* a smallest one.                                                         *)
(***************************************************************************)
EXTENDS Integers, Sequences, FiniteSets, FiniteSetsExt, Functions, SortedSets, FiniteSetTheorems,
        SequenceTheorems, WellFoundedInduction, TLAPS

\* A set of subsets of a finite set has a smallest one.
LEMMA SmallestSubset ==
  ASSUME NEW S, IsFiniteSet(S), NEW B \in SUBSET (SUBSET S), B # {}
  PROVE  \E s \in B : \A t \in B : ~(t \subseteq s /\ t # s)
<1>1. B \subseteq FiniteSubsetsOf(S)
  BY FS_Subset DEF FiniteSubsetsOf
<1>2. PICK s \in B : \A t \in B : <<t, s>> \notin StrictSubsetOrdering(S)
  BY <1>1, FS_StrictSubsetOrderingWellFounded, WFMin
<1>3. ASSUME NEW t \in B, t \subseteq s, t # s PROVE FALSE
  BY <1>2, <1>3 DEF StrictSubsetOrdering
<1> QED
  BY <1>2, <1>3

\* The image of a finite set is finite.
LEMMA ImageIsFinite ==
  ASSUME NEW S, IsFiniteSet(S), NEW f
  PROVE  IsFiniteSet({f[x] : x \in S})
<1> DEFINE T == {f[x] : x \in S}
           g == [x \in S |-> f[x]]
<1>1. g \in Surjection(S, T)
  BY DEF Surjection
<1> QED
  BY <1>1, FS_Surjection

-----------------------------------------------------------------------------
(* Sums                                                                    *)

Total(w, S) == MapThenSumSet(LAMBDA x : w[x], S)

\* f adds up the subsets of S, taking out one element after the other.
Adds(w, f, S) ==
  f = [s \in SUBSET S |-> IF s = {} THEN 0
                          ELSE LET x == CHOOSE x \in s : TRUE IN w[x] + f[s \ {x}]]

Adder(w, S) == CHOOSE f : Adds(w, f, S)

\* A sum is what that function says of the whole set.
LEMMA SumIsAdder == ASSUME NEW w, NEW S PROVE Total(w, S) = Adder(w, S)[S]
BY DEF Total, MapThenSumSet, MapThenFoldSet, Adder, Adds

\* The element taken out.
Some(s) == CHOOSE x \in s : TRUE

\* It is one of the set's.
LEMMA SomeIsIn == ASSUME NEW s, s # {} PROVE Some(s) \in s
BY DEF Some

\* How an adder goes on.
LEMMA AddsOne ==
  ASSUME NEW w, NEW f, NEW S, Adds(w, f, S), NEW s \in SUBSET S
  PROVE  f[s] = IF s = {} THEN 0 ELSE w[Some(s)] + f[s \ {Some(s)}]
BY DEF Adds, Some

\* Adders agree on the sets they both know.
LEMMA AddersAgree ==
  ASSUME NEW w, NEW S, IsFiniteSet(S), NEW T \in SUBSET S, NEW f, NEW g, Adds(w, f, S), Adds(w, g, T),
         NEW s \in SUBSET T
  PROVE  f[s] = g[s]
<1> DEFINE Bad == {t \in SUBSET T : f[t] # g[t]}
<1> SUFFICES ASSUME Bad # {} PROVE FALSE
  OBVIOUS
<1>1. Bad \in SUBSET (SUBSET S)
  OBVIOUS
<1>2. PICK t \in Bad : \A u \in Bad : ~(u \subseteq t /\ u # t)
  <2> HIDE DEF Bad
  <2> QED
    BY <1>1, SmallestSubset
<1>3. t # {}
  BY <1>2, AddsOne
<1>4. Some(t) \in t /\ t \ {Some(t)} \notin Bad
  BY <1>2, <1>3, SomeIsIn
<1>5. f[t \ {Some(t)}] = g[t \ {Some(t)}]
  BY <1>4
<1> QED
  BY <1>2, <1>3, <1>5, AddsOne

\* Every finite set has an adder.
LEMMA AdderAdds ==
  ASSUME NEW w, NEW S, IsFiniteSet(S)
  PROVE  Adds(w, Adder(w, S), S)
<1> DEFINE Bad == {t \in SUBSET S : ~Adds(w, Adder(w, t), t)}
<1> SUFFICES ASSUME Bad # {} PROVE FALSE
  OBVIOUS
<1>0. Bad \in SUBSET (SUBSET S)
  OBVIOUS
<1>1. PICK t \in Bad : \A u \in Bad : ~(u \subseteq t /\ u # t)
  <2> HIDE DEF Bad
  <2> QED
    BY <1>0, SmallestSubset
<1>2. \A u \in SUBSET t : u # t => Adds(w, Adder(w, u), u)
  BY <1>1
<1> DEFINE V(s) == IF s = {} THEN 0 ELSE w[Some(s)] + Adder(w, s \ {Some(s)})[s \ {Some(s)}]
           f == [s \in SUBSET t |-> V(s)]
<1>3. ASSUME NEW s \in SUBSET t, s # {} PROVE f[s \ {Some(s)}] = Adder(w, s \ {Some(s)})[s \ {Some(s)}]
  <2> DEFINE u == s \ {Some(s)}
  <2>1. u \in SUBSET t /\ u # t /\ IsFiniteSet(u)
    BY <1>3, SomeIsIn, FS_Subset
  <2>2. f[u] = V(u) /\ Adds(w, Adder(w, u), u)
    BY <1>2, <2>1
  <2>3. CASE u = {}
    BY <2>2, <2>3, AddsOne
  <2>4. CASE u # {}
    <3> DEFINE v == u \ {Some(u)}
    <3>1. v \in SUBSET u /\ v \in SUBSET t /\ v # t
      BY <2>1, <2>4, SomeIsIn
    <3>2. Adds(w, Adder(w, v), v) /\ v \in SUBSET v
      BY <1>2, <3>1
    <3>3. Adder(w, u)[v] = Adder(w, v)[v]
      BY <2>1, <2>2, <3>1, <3>2, AddersAgree
    <3>4. Adder(w, u)[u] = w[Some(u)] + Adder(w, u)[v]
      <4>1. Adds(w, Adder(w, u), u) /\ u \in SUBSET u
        BY <2>2
      <4> HIDE DEF u
      <4> QED
        BY <2>4, <4>1, AddsOne
    <3> QED
      BY <2>2, <2>4, <3>3, <3>4
  <2> QED
    BY <2>3, <2>4
<1>4. Adds(w, f, t)
  <2>1. \A s \in SUBSET t : V(s) = IF s = {} THEN 0 ELSE w[Some(s)] + f[s \ {Some(s)}]
    BY <1>3
  <2> QED
    BY <2>1 DEF Adds, Some
<1>5. Adds(w, Adder(w, t), t)
  BY <1>4 DEF Adder
<1> QED
  BY <1>1, <1>5

\* The sum of a set, one element taken out.
LEMMA SumSome ==
  ASSUME NEW w, NEW S, IsFiniteSet(S)
  PROVE  Total(w, S) = IF S = {} THEN 0 ELSE w[Some(S)] + Total(w, S \ {Some(S)})
<1>1. Adds(w, Adder(w, S), S)
  BY AdderAdds
<1>2. CASE S = {}
  BY <1>1, <1>2, AddsOne, SumIsAdder
<1>3. CASE S # {}
  <2> DEFINE T == S \ {Some(S)}
  <2>1. Adder(w, S)[T] = Adder(w, T)[T]
    <3>1. T \in SUBSET S /\ IsFiniteSet(T) /\ T \in SUBSET T
      BY FS_Subset
    <3> HIDE DEF T
    <3>2. Adds(w, Adder(w, T), T)
      BY <3>1, AdderAdds
    <3> QED
      BY <1>1, <3>1, <3>2, AddersAgree
  <2> QED
    BY <1>1, <1>3, <2>1, AddsOne, SumIsAdder
<1> QED
  BY <1>2, <1>3

\* Nothing adds up to 0.
LEMMA SumNone == ASSUME NEW w PROVE Total(w, {}) = 0
BY SumSome, FS_EmptySet

\* What is added up are integers.
LEMMA SumType ==
  ASSUME NEW w, NEW S, IsFiniteSet(S), \A x \in S : w[x] \in Int
  PROVE  Total(w, S) \in Int
<1> DEFINE Bad == {t \in SUBSET S : Total(w, t) \notin Int}
<1> SUFFICES ASSUME Bad # {} PROVE FALSE
  OBVIOUS
<1>0. Bad \in SUBSET (SUBSET S)
  OBVIOUS
<1>1. PICK t \in Bad : \A u \in Bad : ~(u \subseteq t /\ u # t)
  <2> HIDE DEF Bad
  <2> QED
    BY <1>0, SmallestSubset
<1>2. IsFiniteSet(t) /\ Total(w, t) \notin Int
  BY FS_Subset
<1>3. t # {}
  BY <1>2, SumNone
<1>4. Some(t) \in t /\ t \ {Some(t)} \notin Bad
  BY <1>1, <1>3, SomeIsIn
<1> QED
  BY <1>1, <1>2, <1>3, <1>4, SumSome

\* Which one is taken out first makes no difference.
LEMMA SumOne ==
  ASSUME NEW w, NEW S, IsFiniteSet(S), \A x \in S : w[x] \in Int, NEW x \in S
  PROVE  Total(w, S) = w[x] + Total(w, S \ {x})
<1> DEFINE Bad == {t \in SUBSET S : \E y \in t : Total(w, t) # w[y] + Total(w, t \ {y})}
<1> SUFFICES ASSUME Bad # {} PROVE FALSE
  OBVIOUS
<1>0. Bad \in SUBSET (SUBSET S)
  OBVIOUS
<1>1. PICK t \in Bad : \A u \in Bad : ~(u \subseteq t /\ u # t)
  <2> HIDE DEF Bad
  <2> QED
    BY <1>0, SmallestSubset
<1>2. PICK y \in t : Total(w, t) # w[y] + Total(w, t \ {y})
  BY <1>1
<1> DEFINE z == Some(t)
<1>3. z \in t /\ Total(w, t) = w[z] + Total(w, t \ {z})
  BY <1>1, SumSome, SomeIsIn, FS_Subset
<1>4. y # z
  BY <1>2, <1>3
<1>5. Total(w, t \ {z}) = w[y] + Total(w, (t \ {z}) \ {y})
  BY <1>1, <1>3, <1>4
<1>6. Total(w, t \ {y}) = w[z] + Total(w, (t \ {y}) \ {z})
  BY <1>1, <1>3, <1>4
<1>7. (t \ {z}) \ {y} = (t \ {y}) \ {z} /\ IsFiniteSet((t \ {y}) \ {z})
  BY FS_Subset
<1>8. Total(w, (t \ {y}) \ {z}) \in Int /\ w[y] \in Int /\ w[z] \in Int
  BY <1>3, <1>7, SumType
<1> DEFINE r == Total(w, (t \ {y}) \ {z})
<1>9. /\ Total(w, t) = w[z] + (w[y] + r)
      /\ Total(w, t \ {y}) = w[z] + r
  BY <1>3, <1>5, <1>6, <1>7
<1> HIDE DEF z, r, Bad
<1> QED
  BY <1>2, <1>8, <1>9 DEF r

\* Adding an element.
LEMMA SumPlusOne ==
  ASSUME NEW w, NEW S, IsFiniteSet(S), \A y \in S : w[y] \in Int, NEW x, x \notin S, w[x] \in Int
  PROVE  Total(w, S \cup {x}) = w[x] + Total(w, S)
<1>1. IsFiniteSet(S \cup {x}) /\ (S \cup {x}) \ {x} = S
  BY FS_AddElement
<1> QED
  BY <1>1, SumOne

\* Two sets that have no element in common.
LEMMA SumUnion ==
  ASSUME NEW w, NEW S, IsFiniteSet(S), NEW T, IsFiniteSet(T), S \cap T = {},
         \A y \in S \cup T : w[y] \in Int
  PROVE  Total(w, S \cup T) = Total(w, S) + Total(w, T)
<1> DEFINE Bad == {t \in SUBSET S : Total(w, t \cup T) # Total(w, t) + Total(w, T)}
<1> SUFFICES ASSUME Bad # {} PROVE FALSE
  OBVIOUS
<1>0. Bad \in SUBSET (SUBSET S)
  OBVIOUS
<1>1. PICK t \in Bad : \A u \in Bad : ~(u \subseteq t /\ u # t)
  <2> HIDE DEF Bad
  <2> QED
    BY <1>0, SmallestSubset
<1>2. IsFiniteSet(t) /\ Total(w, t \cup T) # Total(w, t) + Total(w, T) /\ t \subseteq S
  BY FS_Subset
<1>3. Total(w, T) \in Int
  BY SumType
<1>4. PICK x : x \in t
  <2>1. CASE t = {}
    BY <1>2, <1>3, <2>1, SumNone
  <2> QED
    BY <2>1
<1> DEFINE u == t \ {x}
<1>5. Total(w, u \cup T) = Total(w, u) + Total(w, T) /\ IsFiniteSet(u) /\ IsFiniteSet(t \cup T)
  <2>1. u \in SUBSET S /\ u \subseteq t /\ u # t
    BY <1>2, <1>4
  <2>2. u \notin Bad
    BY <1>1, <2>1
  <2>3. IsFiniteSet(u) /\ IsFiniteSet(t \cup T)
    BY <1>2, <2>1, FS_Subset, FS_Union
  <2> QED
    BY <2>1, <2>2, <2>3
<1>6. (t \cup T) \ {x} = u \cup T /\ w[x] \in Int
  BY <1>2, <1>4
<1>7. Total(w, t) = w[x] + Total(w, u)
  BY <1>2, <1>4, SumOne
<1>8. Total(w, t \cup T) = w[x] + Total(w, u \cup T)
  BY <1>2, <1>4, <1>5, <1>6, SumOne
<1>9. Total(w, u) \in Int
  BY <1>2, <1>5, SumType
<1> HIDE DEF u
<1> QED
  BY <1>2, <1>3, <1>5, <1>6, <1>7, <1>8, <1>9

\* A sum of natural numbers is one, and a larger set has no smaller sum.
LEMMA SumGrows ==
  ASSUME NEW w, NEW S, IsFiniteSet(S), \A y \in S : w[y] \in Nat, NEW T \in SUBSET S
  PROVE  Total(w, T) \in Nat /\ Total(w, S) \in Nat /\ Total(w, T) <= Total(w, S)
<1>1. ASSUME NEW U \in SUBSET S PROVE Total(w, U) \in Nat
  <2> DEFINE Bad == {t \in SUBSET S : Total(w, t) \notin Nat}
  <2> SUFFICES ASSUME Bad # {} PROVE FALSE
    OBVIOUS
  <2>0. Bad \in SUBSET (SUBSET S)
    OBVIOUS
  <2>1. PICK t \in Bad : \A u \in Bad : ~(u \subseteq t /\ u # t)
    <3> HIDE DEF Bad
    <3> QED
      BY <2>0, SmallestSubset
  <2>2. IsFiniteSet(t) /\ Total(w, t) \notin Nat /\ t \subseteq S
    BY FS_Subset
  <2>3. t # {}
    BY <2>2, SumNone
  <2>4. Some(t) \in t /\ Total(w, t \ {Some(t)}) \in Nat /\ w[Some(t)] \in Nat
    BY <2>1, <2>2, <2>3, SomeIsIn
  <2> QED
    BY <2>2, <2>3, <2>4, SumSome
<1>2. S = T \cup (S \ T) /\ T \cap (S \ T) = {} /\ IsFiniteSet(T) /\ IsFiniteSet(S \ T)
  BY FS_Subset
<1>3. Total(w, S) = Total(w, T) + Total(w, S \ T)
  <2>1. \A y \in T \cup (S \ T) : w[y] \in Int
    OBVIOUS
  <2> DEFINE U == S \ T
  <2>2. Total(w, T \cup U) = Total(w, T) + Total(w, U)
    <3>1. IsFiniteSet(U) /\ T \cap U = {} /\ \A y \in T \cup U : w[y] \in Int
      BY <1>2, <2>1
    <3> HIDE DEF U
    <3> QED
      BY <1>2, <3>1, SumUnion
  <2> QED
    BY <1>2, <2>2
<1> QED
  BY <1>1, <1>3
-----------------------------------------------------------------------------
(* The largest and the smallest of a set of integers                       *)

\* There is a largest one.
LEMMA LargestOne ==
  ASSUME NEW S, S \subseteq Int, IsFiniteSet(S), S # {}
  PROVE  \E x \in S : \A y \in S : x >= y
<1> DEFINE Bad == {t \in SUBSET S : t # {} /\ ~\E x \in t : \A y \in t : x >= y}
<1> SUFFICES ASSUME Bad # {} PROVE FALSE
  OBVIOUS
<1>1. Bad \in SUBSET (SUBSET S)
  OBVIOUS
<1>2. \E t \in Bad : \A u \in Bad : ~(u \subseteq t /\ u # t)
  <2>1. IsFiniteSet(S) /\ Bad # {}
    OBVIOUS
  <2> HIDE DEF Bad
  <2> QED
    BY ONLY <1>1, <2>1, SmallestSubset
<1>3. PICK t \in Bad : \A u \in Bad : ~(u \subseteq t /\ u # t)
  BY <1>2
<1>4. t \subseteq Int /\ t # {} /\ ~\E x \in t : \A y \in t : x >= y
  OBVIOUS
<1>5. PICK z : z \in t
  BY <1>4
<1>6. CASE t \ {z} = {}
  BY <1>4, <1>5, <1>6
<1>7. CASE t \ {z} # {}
  <2>1. t \ {z} \in SUBSET S /\ t \ {z} \subseteq t /\ t \ {z} # t
    BY <1>5
  <2>2. PICK x \in t \ {z} : \A y \in t \ {z} : x >= y
    BY <1>3, <1>7, <2>1
  <2>3. z \in Int /\ x \in Int
    BY <1>4, <1>5, <2>2
  <2>4. CASE x >= z
    BY <1>4, <2>2, <2>4
  <2>5. CASE ~(x >= z)
    BY <1>4, <1>5, <2>2, <2>3, <2>5
  <2> QED
    BY <2>4, <2>5
<1> QED
  BY <1>6, <1>7

\* Max is the largest one.
LEMMA MaxIs ==
  ASSUME NEW S, S \subseteq Int, IsFiniteSet(S), S # {}
  PROVE  Max(S) \in S /\ \A y \in S : Max(S) >= y
BY LargestOne DEF Max

\* There is a smallest one.
LEMMA SmallestOne ==
  ASSUME NEW S, S \subseteq Int, IsFiniteSet(S), S # {}
  PROVE  \E x \in S : \A y \in S : x <= y
<1> DEFINE Bad == {t \in SUBSET S : t # {} /\ ~\E x \in t : \A y \in t : x <= y}
<1> SUFFICES ASSUME Bad # {} PROVE FALSE
  OBVIOUS
<1>1. Bad \in SUBSET (SUBSET S)
  OBVIOUS
<1>2. \E t \in Bad : \A u \in Bad : ~(u \subseteq t /\ u # t)
  <2>1. IsFiniteSet(S) /\ Bad # {}
    OBVIOUS
  <2> HIDE DEF Bad
  <2> QED
    BY ONLY <1>1, <2>1, SmallestSubset
<1>3. PICK t \in Bad : \A u \in Bad : ~(u \subseteq t /\ u # t)
  BY <1>2
<1>4. t \subseteq Int /\ t # {} /\ ~\E x \in t : \A y \in t : x <= y
  OBVIOUS
<1>5. PICK z : z \in t
  BY <1>4
<1>6. CASE t \ {z} = {}
  BY <1>4, <1>5, <1>6
<1>7. CASE t \ {z} # {}
  <2>1. t \ {z} \in SUBSET S /\ t \ {z} \subseteq t /\ t \ {z} # t
    BY <1>5
  <2>2. PICK x \in t \ {z} : \A y \in t \ {z} : x <= y
    BY <1>3, <1>7, <2>1
  <2>3. z \in Int /\ x \in Int
    BY <1>4, <1>5, <2>2
  <2>4. CASE x <= z
    BY <1>4, <2>2, <2>4
  <2>5. CASE ~(x <= z)
    BY <1>4, <1>5, <2>2, <2>3, <2>5
  <2> QED
    BY <2>4, <2>5
<1> QED
  BY <1>6, <1>7

\* Min is the smallest one.
LEMMA MinIs ==
  ASSUME NEW S, S \subseteq Int, IsFiniteSet(S), S # {}
  PROVE  Min(S) \in S /\ \A y \in S : Min(S) <= y
BY SmallestOne DEF Min

-----------------------------------------------------------------------------
(* Listing a set in order                                                  *)

\* Number of elements that come before x, when less says which do.
Before(S, less, x) == {y \in S : <<y, x>> \in less}

\* An order that compares any two elements of S.
IsOrderOf(S, less) ==
  /\ \A x \in S : <<x, x>> \notin less
  /\ \A x, y \in S : x # y => <<x, y>> \in less \/ <<y, x>> \in less
  /\ \A x, y, z \in S : <<x, y>> \in less /\ <<y, z>> \in less => <<x, z>> \in less

\* The elements are told apart by how many come before them, and these are all the
\* numbers below the size of the set.
LEMMA RankedByCount ==
  ASSUME NEW S, IsFiniteSet(S), NEW less, IsOrderOf(S, less)
  PROVE  /\ \A x, y \in S : <<x, y>> \in less => Cardinality(Before(S, less, x)) < Cardinality(Before(S, less, y))
         /\ \A n \in 0..(Cardinality(S) - 1) : \E x \in S : Cardinality(Before(S, less, x)) = n
<1> DEFINE rank == [x \in S |-> Cardinality(Before(S, less, x))]
           N    == Cardinality(S)
<1>1. N \in Nat
  BY FS_CardinalityType
<1>2. ASSUME NEW x \in S PROVE IsFiniteSet(Before(S, less, x)) /\ rank[x] \in Nat
  BY FS_Subset, FS_CardinalityType DEF Before
<1>3. ASSUME NEW x \in S, NEW y \in S, <<x, y>> \in less PROVE rank[x] < rank[y]
  <2>1. Before(S, less, x) \subseteq Before(S, less, y) /\ x \in Before(S, less, y) /\ x \notin Before(S, less, x)
    BY <1>3 DEF Before, IsOrderOf
  <2>2. /\ Cardinality(Before(S, less, x)) <= Cardinality(Before(S, less, y))
        /\ Cardinality(Before(S, less, x)) # Cardinality(Before(S, less, y))
    BY <1>2, <2>1, FS_Subset
  <2> QED
    BY <1>2, <2>2
<1>4. ASSUME NEW x \in S PROVE rank[x] \in 0..(N - 1)
  <2>1. Before(S, less, x) \in SUBSET S /\ x \notin Before(S, less, x)
    BY DEF Before, IsOrderOf
  <2>2. rank[x] <= N /\ rank[x] # N
    BY <2>1, FS_Subset
  <2> QED
    BY <1>1, <1>2, <2>2
<1>5. rank \in Injection(S, 0..(N - 1))
  <2>1. rank \in [S -> 0..(N - 1)]
    BY <1>4
  <2>2. ASSUME NEW x \in S, NEW y \in S, rank[x] = rank[y] PROVE x = y
    <3>1. <<x, y>> \notin less /\ <<y, x>> \notin less
      BY <1>2, <1>3, <2>2
    <3> QED
      BY <3>1 DEF IsOrderOf
  <2> HIDE DEF rank
  <2> QED
    BY <2>1, <2>2 DEF Injection, IsInjective
<1>6. IsFiniteSet(0..(N - 1)) /\ Cardinality(0..(N - 1)) = N
  BY <1>1, FS_Interval
<1>7. rank \in Surjection(S, 0..(N - 1))
  <2> HIDE DEF rank
  <2> QED
    BY <1>5, <1>6, FS_Injection
<1> QED
  BY <1>3, <1>7 DEF Surjection

\* A list that has each element where the count of those before it says has every
\* element, in order.
LEMMA ListedByCount ==
  ASSUME NEW S, IsFiniteSet(S), NEW less, IsOrderOf(S, less),
         NEW f \in [1..Cardinality(S) -> S],
         \A i \in 1..Cardinality(S) : Cardinality(Before(S, less, f[i])) = i - 1
  PROVE  /\ f \in Seq(S) /\ Len(f) = Cardinality(S) /\ Range(f) = S
         /\ \A i, j \in 1..Len(f) : i < j => <<f[i], f[j]>> \in less
<1> DEFINE rank == [x \in S |-> Cardinality(Before(S, less, x))]
           N    == Cardinality(S)
<1>1. N \in Nat
  BY FS_CardinalityType
<1>2. ASSUME NEW x \in S PROVE rank[x] \in 0..(N - 1)
  <2>1. Before(S, less, x) \in SUBSET S /\ x \notin Before(S, less, x)
    BY DEF Before, IsOrderOf
  <2>2. rank[x] \in Nat /\ rank[x] <= N /\ rank[x] # N
    BY <2>1, FS_Subset, FS_CardinalityType
  <2> QED
    BY <1>1, <2>2
<1>3. ASSUME NEW x \in S, NEW y \in S, <<x, y>> \in less PROVE rank[x] < rank[y]
  BY <1>3, RankedByCount
<1>4. f \in [1..N -> S]
  OBVIOUS
<1>5. ASSUME NEW i \in 1..N PROVE f[i] \in S /\ rank[f[i]] = i - 1
  OBVIOUS
<1> HIDE DEF rank, N
<1>6. f \in Seq(S) /\ Len(f) = N /\ DOMAIN f = 1..N
  <2>1. f \in Seq(S)
    BY <1>1, <1>4, SeqDef
  <2> QED
    BY <1>1, <1>4, <2>1
<1>7. Range(f) = S
  <2>1. ASSUME NEW x \in S PROVE \E i \in 1..N : f[i] = x
    <3>1. rank[x] + 1 \in 1..N
      BY <1>1, <1>2
    <3>2. f[rank[x] + 1] \in S /\ rank[f[rank[x] + 1]] = rank[x] + 1 - 1 /\ rank[x] \in Int
      BY <1>2, <1>5, <3>1
    <3>3. <<f[rank[x] + 1], x>> \notin less /\ <<x, f[rank[x] + 1]>> \notin less
      BY <1>2, <1>3, <3>2
    <3>4. f[rank[x] + 1] = x
      BY <3>2, <3>3 DEF IsOrderOf
    <3> QED
      BY <3>1, <3>4
  <2> QED
    BY <1>4, <1>6, <2>1 DEF Range
<1>8. ASSUME NEW i \in 1..N, NEW j \in 1..N, i < j PROVE <<f[i], f[j]>> \in less
  <2>1. f[i] \in S /\ f[j] \in S /\ rank[f[i]] < rank[f[j]]
    BY <1>1, <1>5, <1>8
  <2>2. f[i] # f[j] /\ <<f[j], f[i]>> \notin less
    BY <1>2, <1>3, <2>1
  <2> QED
    BY <2>1, <2>2 DEF IsOrderOf
<1> QED
  BY <1>6, <1>7, <1>8 DEF N

\* Upwards lists every element once, smaller ones first.
LEMMA UpwardsIs ==
  ASSUME NEW S, S \subseteq Int, IsFiniteSet(S)
  PROVE  /\ Upwards(S) \in Seq(S) /\ Len(Upwards(S)) = Cardinality(S) /\ Range(Upwards(S)) = S
         /\ \A i, j \in 1..Len(Upwards(S)) : i < j => Upwards(S)[i] < Upwards(S)[j]
<1> DEFINE less == {p \in S \X S : p[1] < p[2]}
           f    == Upwards(S)
<1>1. IsOrderOf(S, less)
  BY DEF IsOrderOf
<1>2. \A x \in S : Before(S, less, x) = {y \in S : y < x}
  BY DEF Before
<1>3. Cardinality(S) \in Nat
  BY FS_CardinalityType
<1>4. ASSUME NEW i \in 1..Cardinality(S)
      PROVE  f[i] \in S /\ Cardinality({y \in S : y < f[i]}) = i - 1
  <2>1. i - 1 \in 0..(Cardinality(S) - 1)
    BY <1>3
  <2>2. PICK x \in S : Cardinality(Before(S, less, x)) = i - 1
    <3> HIDE DEF less
    <3> QED
      BY <1>1, <2>1, RankedByCount
  <2>3. \E y \in S : Cardinality({z \in S : z < y}) = i - 1
    BY <1>2, <2>2
  <2> QED
    BY <2>3 DEF Upwards
<1>5. f \in [1..Cardinality(S) -> S]
  BY <1>4 DEF Upwards
<1>6. \A i \in 1..Cardinality(S) : Cardinality(Before(S, less, f[i])) = i - 1
  BY <1>2, <1>4
<1> HIDE DEF f
<1>7. /\ f \in Seq(S) /\ Len(f) = Cardinality(S) /\ Range(f) = S
      /\ \A i, j \in 1..Len(f) : i < j => <<f[i], f[j]>> \in less
  <2> HIDE DEF less
  <2> QED
    BY <1>1, <1>5, <1>6, ListedByCount
<1> QED
  BY <1>7 DEF f

\* Downwards lists every element once, larger ones first.
LEMMA DownwardsIs ==
  ASSUME NEW S, S \subseteq Int, IsFiniteSet(S)
  PROVE  /\ Downwards(S) \in Seq(S) /\ Len(Downwards(S)) = Cardinality(S) /\ Range(Downwards(S)) = S
         /\ \A i, j \in 1..Len(Downwards(S)) : i < j => Downwards(S)[i] > Downwards(S)[j]
<1> DEFINE less == {p \in S \X S : p[1] > p[2]}
           f    == Downwards(S)
<1>1. IsOrderOf(S, less)
  BY DEF IsOrderOf
<1>2. \A x \in S : Before(S, less, x) = {y \in S : y > x}
  BY DEF Before
<1>3. Cardinality(S) \in Nat
  BY FS_CardinalityType
<1>4. ASSUME NEW i \in 1..Cardinality(S)
      PROVE  f[i] \in S /\ Cardinality({y \in S : y > f[i]}) = i - 1
  <2>1. i - 1 \in 0..(Cardinality(S) - 1)
    BY <1>3
  <2>2. PICK x \in S : Cardinality(Before(S, less, x)) = i - 1
    <3> HIDE DEF less
    <3> QED
      BY <1>1, <2>1, RankedByCount
  <2>3. \E y \in S : Cardinality({z \in S : z > y}) = i - 1
    BY <1>2, <2>2
  <2> QED
    BY <2>3 DEF Downwards
<1>5. f \in [1..Cardinality(S) -> S]
  BY <1>4 DEF Downwards
<1>6. \A i \in 1..Cardinality(S) : Cardinality(Before(S, less, f[i])) = i - 1
  BY <1>2, <1>4
<1> HIDE DEF f
<1>7. /\ f \in Seq(S) /\ Len(f) = Cardinality(S) /\ Range(f) = S
      /\ \A i, j \in 1..Len(f) : i < j => <<f[i], f[j]>> \in less
  <2> HIDE DEF less
  <2> QED
    BY <1>1, <1>5, <1>6, ListedByCount
<1> QED
  BY <1>7 DEF f
=============================================================================
