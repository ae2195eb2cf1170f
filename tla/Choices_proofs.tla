--------------------------- MODULE Choices_proofs ---------------------------
(***************************************************************************)
(* Machine-checked proofs about the stores of Choices.tla: of what fits,   *)
(* each answers with what its ranking promises, for any tests, skills,     *)
(* rules, entries and facts.  First come lemmas about rankings and sums,   *)
(* then for each store an inductive invariant and that what it answers     *)
(* follows from it.                                                        *)
(***************************************************************************)
EXTENDS Choices, Ranking, FiniteSetTheorems, SequenceTheorems, WellFoundedInduction, TLAPS

-----------------------------------------------------------------------------
(* Rankings.                                                                  *)

StrictOrder(S, R) ==
  /\ \A x \in S : <<x, x>> \notin R
  /\ \A x, y, z \in S : <<x, y>> \in R /\ <<y, z>> \in R => <<x, z>> \in R
  /\ \A x, y \in S : x # y => <<x, y>> \in R \/ <<y, x>> \in R

\* What comes before x.
Below(S, R, x) == {y \in S : <<y, x>> \in R}

IsRanking(q, S, R) ==
  /\ q \in [1..Cardinality(S) -> S]
  /\ \A n \in 1..Cardinality(S) : Cardinality(Below(S, R, q[n])) = n - 1

\* A non-empty set of numbers has a least one.
LEMMA LeastNumber ==
  ASSUME NEW T, T \subseteq Nat, T # {}
  PROVE  \E n \in T : \A m \in T : n <= m
<1>1. PICK n \in T : \A m \in T : <<m, n>> \notin OpToRel(<, Nat)
  BY NatLessThanWellFounded, WFMin
<1>2. \A m \in T : m < n => <<m, n>> \in OpToRel(<, Nat)
  BY DEF OpToRel
<1>3. \A m \in T : ~(m < n)
  BY <1>1, <1>2
<1> QED
  BY <1>3

\* An element that comes before another one has less before it.
LEMMA BelowGrows ==
  ASSUME NEW S, IsFiniteSet(S), NEW R, StrictOrder(S, R)
  PROVE  /\ \A x \in S : Cardinality(Below(S, R, x)) \in 0..(Cardinality(S) - 1)
         /\ \A x, y \in S : <<x, y>> \in R =>
              Cardinality(Below(S, R, x)) < Cardinality(Below(S, R, y))
         /\ \A x, y \in S : x # y => Cardinality(Below(S, R, x)) # Cardinality(Below(S, R, y))
<1>1. ASSUME NEW A, NEW B, A \subseteq B, B \subseteq S, A # B
      PROVE  /\ Cardinality(A) \in Nat /\ Cardinality(B) \in Nat
             /\ Cardinality(A) < Cardinality(B) /\ Cardinality(B) <= Cardinality(S)
             /\ Cardinality(S) \in Nat
  <2>1. IsFiniteSet(B) /\ Cardinality(B) <= Cardinality(S)
    BY <1>1, FS_Subset
  <2>2. IsFiniteSet(A) /\ Cardinality(A) <= Cardinality(B) /\ Cardinality(A) # Cardinality(B)
    BY <1>1, <2>1, FS_Subset
  <2>3. Cardinality(A) \in Nat /\ Cardinality(B) \in Nat /\ Cardinality(S) \in Nat
    BY <2>1, <2>2, FS_CardinalityType
  <2> QED
    BY <2>1, <2>2, <2>3
<1>2. ASSUME NEW x \in S PROVE Cardinality(Below(S, R, x)) \in 0..(Cardinality(S) - 1)
  <2>1. Below(S, R, x) \subseteq S /\ x \notin Below(S, R, x)
    BY DEF Below, StrictOrder
  <2> QED
    BY <1>1, <2>1
<1>3. ASSUME NEW x \in S, NEW y \in S, <<x, y>> \in R
      PROVE  Cardinality(Below(S, R, x)) < Cardinality(Below(S, R, y))
  <2>1. /\ Below(S, R, x) \subseteq Below(S, R, y) /\ Below(S, R, y) \subseteq S
        /\ x \in Below(S, R, y) /\ x \notin Below(S, R, x)
    BY <1>3 DEF Below, StrictOrder
  <2> QED
    BY <1>1, <2>1
<1>4. ASSUME NEW x \in S, NEW y \in S, x # y
      PROVE  Cardinality(Below(S, R, x)) # Cardinality(Below(S, R, y))
  <2>1. <<x, y>> \in R \/ <<y, x>> \in R
    BY <1>4 DEF StrictOrder
  <2> QED
    BY <1>2, <1>3, <2>1
<1> QED
  BY <1>2, <1>3, <1>4

\* So each place is taken.
LEMMA PlacesAreTaken ==
  ASSUME NEW S, IsFiniteSet(S), NEW R, StrictOrder(S, R)
  PROVE  \A n \in 1..Cardinality(S) : \E x \in S : Cardinality(Below(S, R, x)) = n - 1
<1> DEFINE f == [x \in S |-> Cardinality(Below(S, R, x))]
           T == 0..(Cardinality(S) - 1)
<1>1. f \in [S -> T] /\ \A x, y \in S : f[x] = f[y] => x = y
  BY BelowGrows
<1>2. f \in Injection(S, T)
  BY <1>1 DEF Injection, IsInjective
<1>3. Cardinality(S) \in Nat
  BY FS_CardinalityType
<1>4. IsFiniteSet(T) /\ Cardinality(T) = Cardinality(S)
  BY <1>3, FS_Interval
<1>5. f \in Surjection(S, T)
  BY <1>2, <1>4, FS_Injection
<1>6. \A n \in 1..Cardinality(S) : n - 1 \in T
  BY <1>3
<1> QED
  BY <1>5, <1>6 DEF Surjection

\* A ranking is in the order, and holds each element once.
LEMMA RankingIsInOrder ==
  ASSUME NEW S, IsFiniteSet(S), NEW R, StrictOrder(S, R), NEW q, IsRanking(q, S, R)
  PROVE  /\ \A i, j \in 1..Cardinality(S) : i < j => <<q[i], q[j]>> \in R
         /\ \A i, j \in 1..Cardinality(S) : q[i] = q[j] => i = j
         /\ \A x \in S : \E n \in 1..Cardinality(S) : q[n] = x
<1>1. Cardinality(S) \in Nat
  BY FS_CardinalityType
<1>2. \A n \in 1..Cardinality(S) : q[n] \in S /\ Cardinality(Below(S, R, q[n])) = n - 1
  BY DEF IsRanking
<1>3. ASSUME NEW i \in 1..Cardinality(S), NEW j \in 1..Cardinality(S), q[i] = q[j]
      PROVE  i = j
  BY <1>1, <1>2, <1>3
<1>4. ASSUME NEW i \in 1..Cardinality(S), NEW j \in 1..Cardinality(S), i < j
      PROVE  <<q[i], q[j]>> \in R
  <2>1. q[i] # q[j]
    BY <1>1, <1>3, <1>4
  <2>2. CASE <<q[j], q[i]>> \in R
    <3>1. Cardinality(Below(S, R, q[j])) < Cardinality(Below(S, R, q[i]))
      BY <1>2, <2>2, BelowGrows
    <3> QED
      BY <1>1, <1>2, <1>4, <3>1
  <2> QED
    BY <1>2, <2>1, <2>2 DEF StrictOrder
<1>5. ASSUME NEW x \in S PROVE \E n \in 1..Cardinality(S) : q[n] = x
  <2> DEFINE n == Cardinality(Below(S, R, x)) + 1
  <2>1. Cardinality(Below(S, R, x)) \in 0..(Cardinality(S) - 1)
    BY BelowGrows
  <2>2. n \in 1..Cardinality(S) /\ Cardinality(Below(S, R, x)) = n - 1
    BY <1>1, <2>1
  <2> HIDE DEF n
  <2>3. q[n] \in S /\ Cardinality(Below(S, R, q[n])) = Cardinality(Below(S, R, x))
    BY <1>2, <2>2
  <2> QED
    BY <2>2, <2>3, BelowGrows
<1> QED
  BY <1>3, <1>4, <1>5

\* The places are taken, so that the ranking that is built is one.
LEMMA RankedIsRanking ==
  ASSUME NEW S, IsFiniteSet(S), NEW R, StrictOrder(S, R)
  PROVE  IsRanking(Ranked(S, R), S, R)
<1>1. \A n \in 1..Cardinality(S) : \E x \in S : Cardinality({y \in S : <<y, x>> \in R}) = n - 1
  BY PlacesAreTaken DEF Below
<1>2. \A n \in 1..Cardinality(S) :
        Ranked(S, R)[n] \in S /\ Cardinality({y \in S : <<y, Ranked(S, R)[n]>> \in R}) = n - 1
  BY <1>1 DEF Ranked
<1>3. Ranked(S, R) \in [1..Cardinality(S) -> S]
  BY <1>2 DEF Ranked
<1> QED
  BY <1>2, <1>3 DEF IsRanking, Below

LEMMA MostFirstOrders ==
  ASSUME NEW S, S \subseteq Int, NEW sc, \A x \in S : sc[x] \in Int
  PROVE  /\ StrictOrder(S, MostFirst(S, sc))
         /\ \A x, y \in S : <<x, y>> \in MostFirst(S, sc) => sc[x] >= sc[y]
<1>1. \A x, y \in S : <<x, y>> \in MostFirst(S, sc) <=> sc[x] > sc[y] \/ (sc[x] = sc[y] /\ x < y)
  BY DEF MostFirst
<1>2. \A x \in S : x \in Int /\ sc[x] \in Int
  OBVIOUS
<1>3. \A x \in S : <<x, x>> \notin MostFirst(S, sc)
  BY <1>1, <1>2
<1>4. \A x, y, z \in S : <<x, y>> \in MostFirst(S, sc) /\ <<y, z>> \in MostFirst(S, sc)
        => <<x, z>> \in MostFirst(S, sc)
  BY <1>1, <1>2
<1>5. \A x, y \in S : x # y => <<x, y>> \in MostFirst(S, sc) \/ <<y, x>> \in MostFirst(S, sc)
  BY <1>1, <1>2
<1> QED
  BY <1>1, <1>2, <1>3, <1>4, <1>5 DEF StrictOrder

LEMMA AscendingOrders ==
  ASSUME NEW S, S \subseteq Int
  PROVE  /\ StrictOrder(S, Ascending(S))
         /\ \A x, y \in S : <<x, y>> \in Ascending(S) <=> x < y
<1>1. \A x, y \in S : <<x, y>> \in Ascending(S) <=> x < y
  BY DEF Ascending
<1> QED
  BY <1>1 DEF StrictOrder

\* What a slice of a ranking holds: some first of its elements.
LEMMA SliceOfRanking ==
  ASSUME NEW S, IsFiniteSet(S), NEW R, StrictOrder(S, R), NEW max \in Nat,
         NEW shown, shown = Slice(Ranked(S, R), max)
  PROVE  /\ shown \in Seq(S)
         /\ \A i \in DOMAIN shown : shown[i] \in S
         /\ \A i, j \in DOMAIN shown : shown[i] = shown[j] => i = j
         /\ \A i, j \in DOMAIN shown : i < j => <<shown[i], shown[j]>> \in R
         /\ \A x \in S : (\A i \in DOMAIN shown : shown[i] # x) =>
              Len(shown) >= max /\ \A i \in DOMAIN shown : <<shown[i], x>> \in R
<1> DEFINE q == Ranked(S, R)
           n == Cardinality(S)
           m == IF max > n THEN n ELSE max
<1>0. IsRanking(q, S, R)
  BY RankedIsRanking
<1>1. n \in Nat
  BY FS_CardinalityType
<1>2. q \in Seq(S) /\ Len(q) = n /\ \A i \in 1..n : q[i] \in S
  BY <1>0, <1>1, IsASeq, LenProperties DEF IsRanking
<1>3. m \in 0..n /\ (m = n \/ m = max)
  BY <1>1
<1>4. shown = SubSeq(q, 1, m)
  BY <1>2 DEF Slice
<1>6. /\ \A i, j \in 1..n : i < j => <<q[i], q[j]>> \in R
      /\ \A i, j \in 1..n : q[i] = q[j] => i = j
      /\ \A x \in S : \E k \in 1..n : q[k] = x
  BY <1>0, RankingIsInOrder DEF n
<1> HIDE DEF n, m, q
<1>5. /\ shown \in Seq(S) /\ Len(shown) = m /\ DOMAIN shown = 1..m
      /\ \A i \in 1..m : shown[i] = q[i]
  <2>1. 1 \in 1..(Len(q) + 1) /\ m \in 0..Len(q)
    BY <1>1, <1>2, <1>3
  <2>2. /\ SubSeq(q, 1, m) \in Seq(S) /\ Len(SubSeq(q, 1, m)) = m
        /\ \A i \in 1..m : SubSeq(q, 1, m)[i] = q[i]
    BY <1>1, <1>2, <1>3, <2>1, SubSeqProperties
  <2> QED
    BY <1>4, <2>2, LenProperties
<1>7. \A i \in 1..m : i \in 1..n
  BY <1>1, <1>3
<1>8. ASSUME NEW x \in S, \A i \in DOMAIN shown : shown[i] # x
      PROVE  /\ Len(shown) >= max
             /\ \A i \in DOMAIN shown : <<shown[i], x>> \in R
  <2>1. PICK k \in 1..n : q[k] = x
    BY <1>6
  <2>2. k > m
    <3>1. k \in Nat /\ k >= 1 /\ m \in Nat
      BY <1>1, <1>3
    <3>2. k <= m => k \in 1..m
      BY <3>1
    <3>3. k \in 1..m => shown[k] = x /\ k \in DOMAIN shown
      BY <1>5, <2>1
    <3> QED
      BY <1>8, <3>1, <3>2, <3>3
  <2>3. m = max
    BY <1>1, <1>3, <2>1, <2>2
  <2>4. ASSUME NEW i \in 1..m PROVE <<shown[i], x>> \in R
    <3>1. i \in 1..n /\ i < k /\ shown[i] = q[i]
      BY <1>1, <1>3, <1>5, <1>7, <2>2
    <3> QED
      BY <1>6, <2>1, <3>1
  <2> QED
    BY <1>5, <2>3, <2>4
<1>9. \A i, j \in 1..m : i < j => <<shown[i], shown[j]>> \in R
  BY <1>5, <1>6, <1>7
<1>10. \A i, j \in 1..m : shown[i] = shown[j] => i = j
  BY <1>5, <1>6, <1>7
<1>11. \A i \in 1..m : shown[i] \in S
  BY <1>2, <1>5, <1>7
<1> QED
  BY <1>5, <1>8, <1>9, <1>10, <1>11

Scored(S, sc) == S \subseteq Int /\ IsFiniteSet(S) /\ \A x \in S : sc[x] \in Int

\* What is shown of S has the most, at most so many of them, and each once.
FirstOf(shown, S, sc, max) ==
  /\ shown \in Seq(S)
  /\ \A i \in DOMAIN shown : shown[i] \in S
  /\ \A i, j \in DOMAIN shown : shown[i] = shown[j] => i = j
  /\ \A i, j \in DOMAIN shown : i < j => sc[shown[i]] >= sc[shown[j]]
  /\ \A x \in S : (\A i \in DOMAIN shown : shown[i] # x) =>
       Len(shown) >= max /\ \A i \in DOMAIN shown : sc[shown[i]] >= sc[x]

\* The first of a ranking by scores have the most.
LEMMA FirstHaveMost ==
  ASSUME NEW S, NEW sc, Scored(S, sc), NEW max \in Nat
  PROVE  FirstOf(Slice(Ranked(S, MostFirst(S, sc)), max), S, sc, max)
<1> DEFINE R == MostFirst(S, sc)
           shown == Slice(Ranked(S, R), max)
<1>1. StrictOrder(S, R) /\ \A x, y \in S : <<x, y>> \in R => sc[x] >= sc[y]
  BY MostFirstOrders DEF Scored
<1> HIDE DEF R
<1>2. IsFiniteSet(S)
  BY DEF Scored
<1>3. /\ shown \in Seq(S)
      /\ \A i \in DOMAIN shown : shown[i] \in S
      /\ \A i, j \in DOMAIN shown : shown[i] = shown[j] => i = j
      /\ \A i, j \in DOMAIN shown : i < j => <<shown[i], shown[j]>> \in R
      /\ \A x \in S : (\A i \in DOMAIN shown : shown[i] # x) =>
           Len(shown) >= max /\ \A i \in DOMAIN shown : <<shown[i], x>> \in R
  BY <1>1, <1>2, SliceOfRanking
<1> HIDE DEF shown
<1>4. FirstOf(shown, S, sc, max)
  BY <1>1, <1>3 DEF FirstOf
<1> QED
  BY <1>4 DEF shown, R

-----------------------------------------------------------------------------
(* Sums.                                                                      *)

Chosen(T) == CHOOSE x \in T : TRUE

\* What SumFunctionOnSet(f, S) builds: the sums of the subsets of S.
Sums(f, S, g) ==
  g = [s \in SUBSET S |-> IF s = {} THEN 0
                          ELSE f[CHOOSE x \in s : TRUE] + g[s \ {CHOOSE x \in s : TRUE}]]

Summed(f, S) == IsFiniteSet(S) /\ \A x \in S : f[x] \in Int

LEMMA SumsAreUnfolded ==
  ASSUME NEW f, NEW S, NEW g, Sums(f, S, g)
  PROVE  /\ g[{}] = 0
         /\ \A T \in SUBSET S : T # {} => g[T] = f[Chosen(T)] + g[T \ {Chosen(T)}]
<1>1. g[{}] = 0
  BY DEF Sums
<1>2. ASSUME NEW T \in SUBSET S, T # {} PROVE g[T] = f[Chosen(T)] + g[T \ {Chosen(T)}]
  BY <1>2 DEF Sums, Chosen
<1> QED
  BY <1>1, <1>2

\* The sums up to a number of elements.
SumsUpTo(f, S, n, g) ==
  LET small == {T \in SUBSET S : Cardinality(T) <= n}
  IN  /\ g \in [small -> Int]
      /\ \A T \in small : g[T] = IF T = {} THEN 0 ELSE f[Chosen(T)] + g[T \ {Chosen(T)}]

LEMMA Removed ==
  ASSUME NEW S, IsFiniteSet(S), NEW T, T \subseteq S
  PROVE  /\ IsFiniteSet(T) /\ Cardinality(T) \in Nat /\ Cardinality(T) <= Cardinality(S)
         /\ (Cardinality(T) = 0 <=> T = {})
         /\ \A x \in T : /\ IsFiniteSet(T \ {x}) /\ T \ {x} \subseteq S
                         /\ Cardinality(T \ {x}) = Cardinality(T) - 1
                         /\ Cardinality(T \ {x}) \in Nat
<1>1. IsFiniteSet(T) /\ Cardinality(T) <= Cardinality(S)
  BY FS_Subset
<1>2. Cardinality(T) \in Nat /\ (Cardinality(T) = 0 <=> T = {})
  BY <1>1, FS_CardinalityType, FS_EmptySet
<1>3. ASSUME NEW x \in T
      PROVE  IsFiniteSet(T \ {x}) /\ Cardinality(T \ {x}) = Cardinality(T) - 1
                /\ Cardinality(T \ {x}) \in Nat
  <2>1. IsFiniteSet(T \ {x}) /\ Cardinality(T \ {x}) = Cardinality(T) - 1
    BY <1>1, FS_RemoveElement
  <2> QED
    BY <2>1, FS_CardinalityType
<1> QED
  BY <1>1, <1>2, <1>3

LEMMA SumsExist ==
  ASSUME NEW f, NEW S, Summed(f, S)
  PROVE  \E g : Sums(f, S, g) /\ g \in [SUBSET S -> Int]
<1> DEFINE small(n) == {T \in SUBSET S : Cardinality(T) <= n}
           Bad == {n \in Nat : \A g : ~SumsUpTo(f, S, n, g)}
<1>0. IsFiniteSet(S) /\ \A x \in S : f[x] \in Int
  BY DEF Summed
<1>1. \A T \in SUBSET S : T # {} => /\ Chosen(T) \in T /\ f[Chosen(T)] \in Int
                                    /\ T \ {Chosen(T)} \in SUBSET S
                                    /\ Cardinality(T \ {Chosen(T)}) = Cardinality(T) - 1
  BY <1>0, Removed DEF Chosen
<1>2. \A T \in SUBSET S : /\ Cardinality(T) \in Nat /\ (Cardinality(T) = 0 <=> T = {})
                          /\ Cardinality(T) <= Cardinality(S)
  BY <1>0, Removed
<1>3. Bad = {}
  <2> SUFFICES ASSUME Bad # {} PROVE FALSE
    OBVIOUS
  <2>1. PICK n \in Bad : \A m \in Bad : n <= m
    BY LeastNumber
  <2>2. CASE n = 0
    <3> DEFINE g == [T \in small(0) |-> 0]
    <3>1. small(0) = {{}}
      BY <1>2
    <3>2. SumsUpTo(f, S, 0, g)
      BY <3>1 DEF SumsUpTo
    <3> QED
      BY <2>1, <2>2, <3>2
  <2>3. CASE n # 0
    <3>1. n - 1 \in Nat /\ n - 1 \notin Bad /\ n \in Nat
      BY <2>1, <2>3
    <3>2. PICK h : SumsUpTo(f, S, n - 1, h)
      BY <3>1
    <3> DEFINE g == [T \in small(n) |-> IF T = {} THEN 0 ELSE f[Chosen(T)] + h[T \ {Chosen(T)}]]
    <3>3. \A T \in small(n) : T # {} => T \ {Chosen(T)} \in small(n - 1)
      BY <1>1, <1>2, <3>1
    <3>4. h \in [small(n - 1) -> Int]
          /\ \A T \in small(n - 1) : h[T] = IF T = {} THEN 0 ELSE f[Chosen(T)] + h[T \ {Chosen(T)}]
      BY <3>2 DEF SumsUpTo
    <3>5. g \in [small(n) -> Int]
      BY <1>1, <3>3, <3>4
    <3>6. small(n - 1) \subseteq small(n)
      BY <1>2, <3>1
    <3>7. \A T \in small(n - 1) : g[T] = h[T]
      BY <3>4, <3>6
    <3>8. \A T \in small(n) : g[T] = IF T = {} THEN 0 ELSE f[Chosen(T)] + g[T \ {Chosen(T)}]
      BY <3>3, <3>7
    <3>9. SumsUpTo(f, S, n, g)
      BY <3>5, <3>8 DEF SumsUpTo
    <3> QED
      BY <2>1, <3>9
  <2> QED
    BY <2>2, <2>3
<1>4. Cardinality(S) \in Nat
  BY <1>2
<1>5. PICK g : SumsUpTo(f, S, Cardinality(S), g)
  BY <1>3, <1>4
<1>6. small(Cardinality(S)) = SUBSET S
  BY <1>2
<1>7. g \in [SUBSET S -> Int]
      /\ \A T \in SUBSET S : g[T] = IF T = {} THEN 0 ELSE f[Chosen(T)] + g[T \ {Chosen(T)}]
  BY <1>5, <1>6 DEF SumsUpTo
<1>8. Sums(f, S, g)
  BY <1>7 DEF Sums, Chosen
<1> QED
  BY <1>7, <1>8

LEMMA SumsAreOne ==
  ASSUME NEW f, NEW S, Summed(f, S), NEW A, A \subseteq S,
         NEW g, Sums(f, S, g), NEW h, Sums(f, A, h)
  PROVE  \A T \in SUBSET A : g[T] = h[T]
<1> DEFINE Bad == {n \in Nat : \E T \in SUBSET A : Cardinality(T) = n /\ g[T] # h[T]}
<1>0. IsFiniteSet(S) /\ IsFiniteSet(A)
  BY FS_Subset DEF Summed
<1>1. /\ g[{}] = 0 /\ h[{}] = 0
      /\ \A T \in SUBSET A : T # {} => g[T] = f[Chosen(T)] + g[T \ {Chosen(T)}]
      /\ \A T \in SUBSET A : T # {} => h[T] = f[Chosen(T)] + h[T \ {Chosen(T)}]
  <2>1. g[{}] = 0 /\ \A T \in SUBSET S : T # {} => g[T] = f[Chosen(T)] + g[T \ {Chosen(T)}]
    BY SumsAreUnfolded
  <2>2. h[{}] = 0 /\ \A T \in SUBSET A : T # {} => h[T] = f[Chosen(T)] + h[T \ {Chosen(T)}]
    <3>1. Sums(f, A, h)
      OBVIOUS
    <3> QED
      BY ONLY <3>1, SumsAreUnfolded
  <2> QED
    BY <2>1, <2>2
<1>2. \A T \in SUBSET A : Cardinality(T) \in Nat
  BY <1>0, Removed
<1>3. ASSUME Bad # {} PROVE FALSE
  <2>1. PICK n \in Bad : \A m \in Bad : n <= m
    BY <1>3, LeastNumber
  <2>2. PICK T \in SUBSET A : Cardinality(T) = n /\ g[T] # h[T]
    BY <2>1
  <2>3. T # {}
    BY <1>1, <2>2
  <2> DEFINE U == T \ {Chosen(T)}
  <2>4. Chosen(T) \in T
    BY <2>3 DEF Chosen
  <2>5. U \in SUBSET A /\ Cardinality(U) = n - 1 /\ n - 1 \in Nat
    <3>1. Cardinality(U) = Cardinality(T) - 1 /\ Cardinality(U) \in Nat
      BY <1>0, <2>4, Removed
    <3> QED
      BY <2>2, <3>1
  <2>6. n - 1 \notin Bad
    BY <2>1, <2>5
  <2>7. g[U] = h[U]
    BY <2>5, <2>6
  <2> QED
    BY <1>1, <2>2, <2>3, <2>7
<1> QED
  BY <1>2, <1>3

LEMMA SumIsBuilt ==
  ASSUME NEW f, NEW S, Summed(f, S)
  PROVE  \E g : Sums(f, S, g) /\ g \in [SUBSET S -> Int] /\ SumFunctionOnSet(f, S) = g[S]
<1> DEFINE g == CHOOSE g : g = [s \in SUBSET S |->
                                  IF s = {} THEN 0
                                  ELSE f[CHOOSE x \in s : TRUE] + g[s \ {CHOOSE x \in s : TRUE}]]
<1>1. PICK h : Sums(f, S, h) /\ h \in [SUBSET S -> Int]
  BY SumsExist
<1>2. Sums(f, S, g)
  BY <1>1 DEF Sums
<1>3. SumFunctionOnSet(f, S) = g[S]
  BY DEF SumFunctionOnSet, FoldFunctionOnSet, MapThenFoldSet
<1> HIDE DEF g
<1>4. \A T \in SUBSET S : g[T] = h[T]
  BY <1>1, <1>2, SumsAreOne
<1>5. g \in [SUBSET S -> Int]
  BY <1>1, <1>2, <1>4 DEF Sums
<1> QED
  BY <1>2, <1>3, <1>5

LEMMA SumOfChosen ==
  ASSUME NEW f, NEW S, Summed(f, S)
  PROVE  /\ SumFunctionOnSet(f, S) \in Int
         /\ S = {} => SumFunctionOnSet(f, S) = 0
         /\ S # {} => SumFunctionOnSet(f, S)
                        = f[Chosen(S)] + SumFunctionOnSet(f, S \ {Chosen(S)})
<1>1. PICK g : Sums(f, S, g) /\ g \in [SUBSET S -> Int] /\ SumFunctionOnSet(f, S) = g[S]
  BY SumIsBuilt
<1>2. g[{}] = 0 /\ \A T \in SUBSET S : T # {} => g[T] = f[Chosen(T)] + g[T \ {Chosen(T)}]
  BY <1>1, SumsAreUnfolded
<1>3. SumFunctionOnSet(f, S) \in Int /\ (S = {} => SumFunctionOnSet(f, S) = 0)
  BY <1>1, <1>2
<1>4. ASSUME S # {}
      PROVE  SumFunctionOnSet(f, S) = f[Chosen(S)] + SumFunctionOnSet(f, S \ {Chosen(S)})
  <2> DEFINE A == S \ {Chosen(S)}
  <2>1. Summed(f, A)
    BY FS_Subset DEF Summed
  <2>2. PICK h : Sums(f, A, h) /\ SumFunctionOnSet(f, A) = h[A]
    BY <2>1, SumIsBuilt
  <2>3. g[A] = h[A]
    BY <1>1, <2>2, SumsAreOne
  <2> QED
    BY <1>1, <1>2, <1>4, <2>2, <2>3
<1> QED
  BY <1>3, <1>4

\* The order does not matter: any element can be taken first.
LEMMA SumOfAny ==
  ASSUME NEW f, NEW S, Summed(f, S)
  PROVE  \A x \in S : SumFunctionOnSet(f, S) = f[x] + SumFunctionOnSet(f, S \ {x})
<1> DEFINE Wrong(T) == \E x \in T : SumFunctionOnSet(f, T) # f[x] + SumFunctionOnSet(f, T \ {x})
           Bad == {n \in Nat : \E T \in SUBSET S : Cardinality(T) = n /\ Wrong(T)}
<1>0. IsFiniteSet(S)
  BY DEF Summed
<1>1. ASSUME NEW T, T \subseteq S PROVE Summed(f, T) /\ Cardinality(T) \in Nat
  BY <1>0, <1>1, Removed DEF Summed
<1>2. ASSUME Bad # {} PROVE FALSE
  <2>1. PICK n \in Bad : \A m \in Bad : n <= m
    BY <1>2, LeastNumber
  <2>2. PICK T \in SUBSET S : Cardinality(T) = n /\ Wrong(T)
    BY <2>1
  <2>3. PICK x \in T : SumFunctionOnSet(f, T) # f[x] + SumFunctionOnSet(f, T \ {x})
    BY <2>2
  <2> DEFINE c == Chosen(T)
  <2>4. c \in T
    BY <2>3 DEF Chosen
  <2>5. SumFunctionOnSet(f, T) = f[c] + SumFunctionOnSet(f, T \ {c})
    BY <1>1, <2>3, SumOfChosen
  <2>6. x # c
    BY <2>3, <2>5
  <2>7. /\ T \ {c} \in SUBSET S /\ Cardinality(T \ {c}) = n - 1
        /\ T \ {x} \in SUBSET S /\ Cardinality(T \ {x}) = n - 1 /\ n - 1 \in Nat
    BY <1>0, <2>2, <2>4, Removed
  <2>8. n - 1 \notin Bad
    BY <2>1, <2>7
  <2>9. ~Wrong(T \ {c}) /\ ~Wrong(T \ {x})
    BY <2>7, <2>8
  <2> DEFINE U == T \ {x, c}
  <2>10. (T \ {c}) \ {x} = U /\ (T \ {x}) \ {c} = U
    OBVIOUS
  <2> HIDE DEF c, U
  <2>11. /\ SumFunctionOnSet(f, T \ {c}) = f[x] + SumFunctionOnSet(f, U)
         /\ SumFunctionOnSet(f, T \ {x}) = f[c] + SumFunctionOnSet(f, U)
    BY <2>4, <2>6, <2>9, <2>10
  <2>12. /\ f[x] \in Int /\ f[c] \in Int /\ SumFunctionOnSet(f, U) \in Int
    <3>1. Summed(f, U)
      BY <1>1 DEF U
    <3> QED
      BY <2>4, <3>1, SumOfChosen DEF Summed
  <2> QED
    BY <2>3, <2>5, <2>11, <2>12
<1>3. Cardinality(S) \in Nat
  BY <1>1
<1> QED
  BY <1>2, <1>3

LEMMA SumSplits ==
  ASSUME NEW f, NEW A, NEW B, Summed(f, A \union B), A \intersect B = {}
  PROVE  SumFunctionOnSet(f, A \union B) = SumFunctionOnSet(f, A) + SumFunctionOnSet(f, B)
<1> DEFINE Wrong(T) ==
             SumFunctionOnSet(f, A \union T) # SumFunctionOnSet(f, A) + SumFunctionOnSet(f, T)
           Bad == {n \in Nat : \E T \in SUBSET B : Cardinality(T) = n /\ Wrong(T)}
<1>1. \A T \in SUBSET (A \union B) : Summed(f, T) /\ IsFiniteSet(T) /\ Cardinality(T) \in Nat
                                     /\ SumFunctionOnSet(f, T) \in Int
  <2> TAKE T \in SUBSET (A \union B)
  <2>1. Summed(f, T) /\ IsFiniteSet(T) /\ Cardinality(T) \in Nat
    BY Removed DEF Summed
  <2> QED
    BY <2>1, SumOfChosen
<1>2. ASSUME Bad # {} PROVE FALSE
  <2>1. PICK n \in Bad : \A m \in Bad : n <= m
    BY <1>2, LeastNumber
  <2>2. PICK T \in SUBSET B : Cardinality(T) = n /\ Wrong(T)
    BY <2>1
  <2>3. CASE T = {}
    <3>1. SumFunctionOnSet(f, T) = 0 /\ A \union T = A /\ SumFunctionOnSet(f, A) \in Int
      BY <1>1, <2>3, SumOfChosen
    <3>2. SumFunctionOnSet(f, A \union T) = SumFunctionOnSet(f, A)
      BY <3>1
    <3>3. SumFunctionOnSet(f, A) + SumFunctionOnSet(f, T) = SumFunctionOnSet(f, A)
      BY <3>1
    <3> QED
      BY <2>2, <3>2, <3>3
  <2>4. ASSUME NEW x \in T PROVE FALSE
    <3>1. T \ {x} \in SUBSET B /\ Cardinality(T \ {x}) = n - 1 /\ n - 1 \in Nat
      BY <1>1, <2>2, Removed
    <3>2. n - 1 \notin Bad
      BY <2>1, <3>1
    <3>3. ~Wrong(T \ {x})
      BY <3>1, <3>2
    <3>4. (A \union T) \ {x} = A \union (T \ {x})
      OBVIOUS
    <3>5. SumFunctionOnSet(f, A \union T) = f[x] + SumFunctionOnSet(f, (A \union T) \ {x})
      BY <1>1, SumOfAny
    <3>6. SumFunctionOnSet(f, T) = f[x] + SumFunctionOnSet(f, T \ {x})
      BY <1>1, SumOfAny
    <3>7. f[x] \in Int /\ SumFunctionOnSet(f, A) \in Int /\ SumFunctionOnSet(f, T \ {x}) \in Int
      BY <1>1 DEF Summed
    <3> DEFINE a == SumFunctionOnSet(f, A)
               u == SumFunctionOnSet(f, T \ {x})
    <3>8. SumFunctionOnSet(f, A \union (T \ {x})) = a + u
      BY <3>3
    <3>9. a \in Int /\ u \in Int /\ f[x] \in Int
      BY <3>7
    <3>10. SumFunctionOnSet(f, A \union T) = f[x] + (a + u)
      BY <3>4, <3>5, <3>8
    <3>11. a + SumFunctionOnSet(f, T) = a + (f[x] + u)
      BY <3>6
    <3> HIDE DEF a, u
    <3>12. f[x] + (a + u) = a + (f[x] + u)
      BY <3>9
    <3> QED
      BY <2>2, <3>10, <3>11, <3>12 DEF a
  <2> QED
    BY <2>3, <2>4
<1>3. Cardinality(B) \in Nat
  BY <1>1
<1> QED
  BY <1>2, <1>3

LEMMA SumIsBounded ==
  ASSUME NEW f, NEW S, Summed(f, S), NEW lo \in Int, NEW hi \in Int,
         \A x \in S : lo <= f[x] /\ f[x] <= hi
  PROVE  /\ Cardinality(S) * lo <= SumFunctionOnSet(f, S)
         /\ SumFunctionOnSet(f, S) <= Cardinality(S) * hi
<1> DEFINE Wrong(T) == ~(/\ Cardinality(T) * lo <= SumFunctionOnSet(f, T)
                         /\ SumFunctionOnSet(f, T) <= Cardinality(T) * hi)
           Bad == {n \in Nat : \E T \in SUBSET S : Cardinality(T) = n /\ Wrong(T)}
<1>1. \A T \in SUBSET S : Summed(f, T) /\ IsFiniteSet(T) /\ Cardinality(T) \in Nat
                                     /\ SumFunctionOnSet(f, T) \in Int
  <2> TAKE T \in SUBSET S
  <2>1. Summed(f, T) /\ IsFiniteSet(T) /\ Cardinality(T) \in Nat
    BY Removed DEF Summed
  <2> QED
    BY <2>1, SumOfChosen
<1>2. ASSUME Bad # {} PROVE FALSE
  <2>1. PICK n \in Bad : \A m \in Bad : n <= m
    BY <1>2, LeastNumber
  <2>2. PICK T \in SUBSET S : Cardinality(T) = n /\ Wrong(T)
    BY <2>1
  <2>3. CASE T = {}
    <3>1. SumFunctionOnSet(f, T) = 0 /\ Cardinality(T) = 0
      BY <1>1, <2>3, SumOfChosen, FS_EmptySet
    <3> QED
      BY <2>2, <3>1
  <2>4. ASSUME NEW x \in T PROVE FALSE
    <3>1. T \ {x} \in SUBSET S /\ Cardinality(T \ {x}) = n - 1 /\ n - 1 \in Nat
      BY <1>1, <2>2, Removed
    <3>2. n - 1 \notin Bad
      BY <2>1, <3>1
    <3>3. ~Wrong(T \ {x})
      BY <3>1, <3>2
    <3> DEFINE u == SumFunctionOnSet(f, T \ {x})
               t == SumFunctionOnSet(f, T)
    <3>4. t = f[x] + u
      BY <1>1, SumOfAny
    <3>5. u \in Int /\ f[x] \in Int /\ lo <= f[x] /\ f[x] <= hi
      BY <1>1, <3>1 DEF Summed
    <3>6. (n - 1) * lo <= u /\ u <= (n - 1) * hi /\ ~(n * lo <= t /\ t <= n * hi)
      BY <2>2, <3>1, <3>3
    <3>7. (n - 1) * lo = n * lo - lo /\ (n - 1) * hi = n * hi - hi
          /\ n * lo \in Int /\ n * hi \in Int
      BY <2>1
    <3> HIDE DEF u, t
    <3> QED
      BY <3>4, <3>5, <3>6, <3>7
  <2> QED
    BY <2>3, <2>4
<1>3. Cardinality(S) \in Nat
  BY <1>1
<1> QED
  BY <1>2, <1>3

LEMMA SumOfSame ==
  ASSUME NEW f, NEW h, NEW S, Summed(f, S), \A x \in S : f[x] = h[x]
  PROVE  SumFunctionOnSet(f, S) = SumFunctionOnSet(h, S)
<1> DEFINE Wrong(T) == SumFunctionOnSet(f, T) # SumFunctionOnSet(h, T)
           Bad == {n \in Nat : \E T \in SUBSET S : Cardinality(T) = n /\ Wrong(T)}
<1>1. \A T \in SUBSET S : Summed(f, T) /\ Summed(h, T) /\ IsFiniteSet(T) /\ Cardinality(T) \in Nat
  BY Removed DEF Summed
<1>2. ASSUME Bad # {} PROVE FALSE
  <2>1. PICK n \in Bad : \A m \in Bad : n <= m
    BY <1>2, LeastNumber
  <2>2. PICK T \in SUBSET S : Cardinality(T) = n /\ Wrong(T)
    BY <2>1
  <2>3. CASE T = {}
    BY <1>1, <2>2, <2>3, SumOfChosen
  <2>4. ASSUME NEW x \in T PROVE FALSE
    <3>1. T \ {x} \in SUBSET S /\ Cardinality(T \ {x}) = n - 1 /\ n - 1 \in Nat
      BY <1>1, <2>2, Removed
    <3>2. n - 1 \notin Bad
      BY <2>1, <3>1
    <3>3. ~Wrong(T \ {x})
      BY <3>1, <3>2
    <3>4. SumFunctionOnSet(f, T) = f[x] + SumFunctionOnSet(f, T \ {x})
      BY <1>1, SumOfAny
    <3>5. SumFunctionOnSet(h, T) = h[x] + SumFunctionOnSet(h, T \ {x})
      BY <1>1, SumOfAny
    <3> QED
      BY <2>2, <3>3, <3>4, <3>5
  <2> QED
    BY <2>3, <2>4
<1>3. Cardinality(S) \in Nat
  BY <1>1
<1> QED
  BY <1>2, <1>3

\* Some element of a finite set has the most.
LEMMA SomeHasMost ==
  ASSUME NEW f, NEW S, Summed(f, S), S # {}
  PROVE  \E s \in S : \A t \in S : f[t] <= f[s]
<1> DEFINE Wrong(T) == T # {} /\ \A s \in T : \E t \in T : f[t] > f[s]
           Bad == {n \in Nat : \E T \in SUBSET S : Cardinality(T) = n /\ Wrong(T)}
<1>1. \A T \in SUBSET S : IsFiniteSet(T) /\ Cardinality(T) \in Nat
  BY Removed DEF Summed
<1>2. ASSUME Bad # {} PROVE FALSE
  <2>1. PICK n \in Bad : \A m \in Bad : n <= m
    BY <1>2, LeastNumber
  <2>2. PICK T \in SUBSET S : Cardinality(T) = n /\ Wrong(T)
    BY <2>1
  <2>3. PICK x \in T : TRUE
    BY <2>2
  <2>4. T \ {x} \in SUBSET S /\ Cardinality(T \ {x}) = n - 1 /\ n - 1 \in Nat
    BY <1>1, <2>2, <2>3, Removed
  <2>5. n - 1 \notin Bad
    BY <2>1, <2>4
  <2>6. ~Wrong(T \ {x})
    BY <2>4, <2>5
  <2>7. \A t \in T : f[t] \in Int
    BY DEF Summed
  <2>8. PICK y \in T : f[y] > f[x]
    BY <2>2, <2>3
  <2>9. y \in T \ {x}
    BY <2>3, <2>7, <2>8
  <2>10. PICK s \in T \ {x} : \A t \in T \ {x} : ~(f[t] > f[s])
    BY <2>6, <2>9
  <2>11. \A t \in T : ~(f[t] > f[s])
    BY <2>7, <2>8, <2>9, <2>10
  <2> QED
    BY <2>2, <2>10, <2>11
<1>3. Cardinality(S) \in Nat
  BY <1>1
<1>4. ~Wrong(S)
  BY <1>2, <1>3
<1> QED
  BY <1>4 DEF Summed

\* A sum of numbers that are not negative grows with its set.
LEMMA SumGrows ==
  ASSUME NEW f, NEW S, Summed(f, S), \A x \in S : f[x] >= 0, NEW A, A \subseteq S
  PROVE  /\ SumFunctionOnSet(f, A) <= SumFunctionOnSet(f, S)
         /\ SumFunctionOnSet(f, A) \in Int /\ SumFunctionOnSet(f, S) \in Int
<1> DEFINE B == S \ A
<1>1. Summed(f, A) /\ Summed(f, B) /\ A \union B = S /\ A \intersect B = {}
  BY FS_Subset DEF Summed
<1>2. /\ SumFunctionOnSet(f, A) \in Int /\ SumFunctionOnSet(f, B) \in Int
      /\ SumFunctionOnSet(f, S) \in Int
  BY <1>1, SumOfChosen
<1>3. SumFunctionOnSet(f, S) = SumFunctionOnSet(f, A) + SumFunctionOnSet(f, B)
  BY <1>1, SumSplits
<1>4. SumFunctionOnSet(f, B) >= 0
  <2>1. CASE B = {}
    <3>1. SumFunctionOnSet(f, B) = 0
      BY <1>1, <2>1, SumOfChosen
    <3> QED
      BY <3>1
  <2>2. CASE B # {}
    <3>1. PICK s \in B : \A t \in B : f[t] <= f[s]
      BY <1>1, <2>2, SomeHasMost
    <3>2. f[s] \in Int /\ \A t \in B : 0 <= f[t] /\ f[t] <= f[s]
      BY <1>1, <3>1 DEF Summed
    <3>3. Cardinality(B) * 0 <= SumFunctionOnSet(f, B) /\ Cardinality(B) \in Nat
      BY <1>1, <3>2, SumIsBounded, FS_CardinalityType DEF Summed
    <3> QED
      BY <1>2, <3>3
  <2> QED
    BY <2>1, <2>2
<1> QED
  BY <1>2, <1>3, <1>4

\* A set of numbers that are not too large has a greatest one.
LEMMA GreatestNumber ==
  ASSUME NEW T, NEW n \in Nat, T \subseteq 0..n, T # {}
  PROVE  \E k \in T : \A m \in T : k >= m
<1> DEFINE D == {n - k : k \in T}
<1>1. D \subseteq Nat /\ D # {}
  <2>1. \A k \in T : k \in Int /\ 0 <= k /\ k <= n
    OBVIOUS
  <2>2. \A k \in T : n - k \in Nat
    BY <2>1
  <2> QED
    BY <2>2
<1>2. PICK d \in D : \A e \in D : d <= e
  BY <1>1, LeastNumber
<1>3. PICK k \in T : d = n - k
  BY <1>2
<1>4. \A m \in T : n - k <= n - m
  BY <1>2, <1>3
<1> QED
  BY <1>3, <1>4

-----------------------------------------------------------------------------
(* Suggestions.                                                               *)

HintStep == [Hints!Next]_hintVars

SkillSet == [phrase : Phrases \union {{}}, tenant : OneTenant \union {Shared},
             enabled : BOOLEAN, uses : Int]
EntrySet == [keywords : Phrases, tenant : OneTenant \union {Shared}, enabled : BOOLEAN]

\* The names are given once, and each skill counts its invocations.
HintInv ==
  /\ IsFiniteSet(DOMAIN skills) /\ DOMAIN skills \subseteq Names
  /\ skills \in [DOMAIN skills -> SkillSet]
  /\ entries \in Seq(EntrySet)
  /\ invoked \in [Names -> Int] /\ overwritten \in [Names -> BOOLEAN]
  /\ Hints!UsesAreCounted

LEMMA HintsBegin ==
  ASSUME Hints!Init
  PROVE  HintInv
<1>1. DOMAIN skills = {} /\ skills \in [DOMAIN skills -> SkillSet]
  BY DEF Hints!Init
<1>2. IsFiniteSet(DOMAIN skills)
  BY <1>1, FS_EmptySet
<1> QED
  BY <1>1, <1>2 DEF Hints!Init, HintInv, Hints!UsesAreCounted

LEMMA HintsKeepInv ==
  ASSUME HintInv, HintStep
  PROVE  HintInv'
<1> USE DEF HintInv, Hints!UsesAreCounted
<1>1. ASSUME NEW n \in Names, NEW p \in Phrases \union {{}}, NEW t \in OneTenant \union {Shared},
             Hints!PostSkill(n, p, t), UNCHANGED entries
      PROVE  HintInv'
  <2>1. Hints!Skill(p, t) \in SkillSet /\ Hints!Skill(p, t).uses = 0
    BY <1>1 DEF Hints!PostSkill, Hints!CreateSkill, Hints!Skill, SkillSet
  <2>2. /\ DOMAIN skills' = DOMAIN skills \union {n}
        /\ skills'[n] = Hints!Skill(p, t) /\ n \notin DOMAIN skills
        /\ \A m \in DOMAIN skills : skills'[m] = skills[m]
        /\ skills' = [m \in DOMAIN skills' |-> skills'[m]]
    BY <1>1 DEF Hints!PostSkill, Hints!CreateSkill
  <2>3. IsFiniteSet(DOMAIN skills')
    BY <2>2, FS_AddElement
  <2>4. skills' \in [DOMAIN skills' -> SkillSet]
    BY <2>1, <2>2
  <2> QED
    BY <1>1, <2>1, <2>2, <2>3, <2>4 DEF Hints!PostSkill
<1>2. ASSUME NEW n \in Names, NEW name \in Names, NEW skill \in Hints!Patches,
             Hints!PatchSkill(n, name, skill), UNCHANGED entries
      PROVE  HintInv'
  <2>1. skill \in SkillSet
    <3>1. 0..Hints!MaxUses \subseteq Int
      BY DEF Hints!MaxUses
    <3> QED
      BY <3>1 DEF Hints!Patches, SkillSet
  <2>2. /\ DOMAIN skills' = (DOMAIN skills \ {n}) \union {name}
        /\ skills'[name] = skill
        /\ \A m \in DOMAIN skills \ {n} : m # name /\ skills'[m] = skills[m]
        /\ skills' = [m \in DOMAIN skills' |-> skills'[m]]
    BY <1>2 DEF Hints!PatchSkill, Hints!UpdateSkill
  <2>3. IsFiniteSet(DOMAIN skills')
    <3>1. IsFiniteSet(DOMAIN skills \ {n})
      BY FS_Subset
    <3>2. IsFiniteSet((DOMAIN skills \ {n}) \union {name})
      BY <3>1, FS_AddElement
    <3> QED
      BY <2>2, <3>2
  <2>4. skills' \in [DOMAIN skills' -> SkillSet]
    BY <2>1, <2>2
  <2>5. /\ n \in DOMAIN skills
        /\ invoked' = [invoked EXCEPT ![name] = invoked[n]]
        /\ overwritten' = [overwritten EXCEPT ![name] =
                              overwritten[n] \/ skill.uses # skills[n].uses]
    BY <1>2 DEF Hints!PatchSkill
  <2>6. invoked' \in [Names -> Int] /\ overwritten' \in [Names -> BOOLEAN]
    BY <2>5
  <2>7. ASSUME NEW m \in DOMAIN skills', ~overwritten'[m]
        PROVE  skills'[m].uses = invoked'[m]
    <3>1. CASE m = name
      BY <2>2, <2>5, <2>7, <3>1
    <3>2. CASE m # name
      BY <2>2, <2>5, <2>7, <3>2
    <3> QED
      BY <3>1, <3>2
  <2>8. DOMAIN skills' \subseteq Names
    BY <2>2
  <2> QED
    BY <1>2, <2>3, <2>4, <2>6, <2>7, <2>8
<1>3. ASSUME NEW n \in Names, Hints!DeleteSkill(n), UNCHANGED entries
      PROVE  HintInv'
  <2>1. DOMAIN skills' = DOMAIN skills \ {n} /\ skills' \in [DOMAIN skills' -> SkillSet]
        /\ \A m \in DOMAIN skills' : skills'[m] = skills[m]
    BY <1>3 DEF Hints!DeleteSkill
  <2>2. IsFiniteSet(DOMAIN skills')
    BY <2>1, FS_Subset
  <2> QED
    BY <1>3, <2>1, <2>2 DEF Hints!DeleteSkill
<1>4. ASSUME NEW n \in Names, Hints!InvokeSkill(n), UNCHANGED entries
      PROVE  HintInv'
  <2>0. skills[n] \in SkillSet
    BY <1>4 DEF Hints!InvokeSkill
  <2>1. [skills[n] EXCEPT !.uses = @ + 1] \in SkillSet
        /\ [skills[n] EXCEPT !.uses = @ + 1].uses = skills[n].uses + 1
    <3> DEFINE P == Phrases \union {{}}
               T == OneTenant \union {Shared}
    <3>1. skills[n] \in [phrase : P, tenant : T, enabled : BOOLEAN, uses : Int]
      BY <2>0 DEF SkillSet
    <3> HIDE DEF P, T
    <3>2. skills[n] = [phrase |-> skills[n].phrase, tenant |-> skills[n].tenant,
                       enabled |-> skills[n].enabled, uses |-> skills[n].uses]
          /\ skills[n].uses + 1 \in Int
      BY <3>1
    <3> DEFINE a == skills[n].phrase
               o == skills[n].tenant
               b == skills[n].enabled
               c == skills[n].uses
               d == c + 1
    <3> HIDE DEF a, o, b, c, d
    <3>5. skills[n] = [phrase |-> a, tenant |-> o, enabled |-> b, uses |-> c]
      BY <3>2 DEF a, o, b, c
    <3>6. [[phrase |-> a, tenant |-> o, enabled |-> b, uses |-> c] EXCEPT !.uses = d]
            = [phrase |-> a, tenant |-> o, enabled |-> b, uses |-> d]
      OBVIOUS
    <3>7. [skills[n] EXCEPT !.uses = d] = [phrase |-> a, tenant |-> o, enabled |-> b, uses |-> d]
      BY <3>5, <3>6
    <3>3. [skills[n] EXCEPT !.uses = @ + 1] =
            [phrase |-> skills[n].phrase, tenant |-> skills[n].tenant,
             enabled |-> skills[n].enabled, uses |-> skills[n].uses + 1]
      BY <3>7 DEF a, o, b, c, d
    <3>4. [skills[n] EXCEPT !.uses = @ + 1] \in
            [phrase : P, tenant : T, enabled : BOOLEAN, uses : Int]
      BY <3>1, <3>2, <3>3
    <3> QED
      BY <3>3, <3>4 DEF SkillSet, P, T
  <2>2. skills' = [skills EXCEPT ![n] = [skills[n] EXCEPT !.uses = @ + 1]]
    BY <1>4 DEF Hints!InvokeSkill, Hints!IncrementUsage
  <2> QED
    BY <1>4, <2>1, <2>2 DEF Hints!InvokeSkill
<1>5. ASSUME NEW k \in Phrases, NEW t \in OneTenant \union {Shared}, NEW b \in BOOLEAN,
             Hints!PostEntry(k, t, b), UNCHANGED Hints!skillVars
      PROVE  HintInv'
  <2>1. Hints!Entry(k, t, b) \in EntrySet
    BY DEF Hints!Entry, EntrySet
  <2> QED
    BY <1>5, <2>1 DEF Hints!PostEntry, Hints!CreateEntry, Hints!skillVars
<1>6. ASSUME NEW i \in DOMAIN entries, Hints!DeleteEntry(i), UNCHANGED Hints!skillVars
      PROVE  HintInv'
  <2>1. i \in 1..Len(entries) /\ Len(entries) \in Nat
    BY LenProperties
  <2>2. SubSeq(entries, 1, i - 1) \in Seq(EntrySet)
        /\ SubSeq(entries, i + 1, Len(entries)) \in Seq(EntrySet)
    BY <2>1, SubSeqProperties
  <2>3. entries' \in Seq(EntrySet)
    BY <1>6, <2>2 DEF Hints!DeleteEntry, Hints!RemoveAt
  <2> QED
    BY <1>6, <2>3 DEF Hints!skillVars
<1>7. ASSUME NEW i \in DOMAIN entries, NEW k \in Phrases, NEW b \in BOOLEAN,
             Hints!PutEntry(i, k, b), UNCHANGED Hints!skillVars
      PROVE  HintInv'
  <2>1. i \in 1..Len(entries) /\ entries[i] \in EntrySet
    BY LenProperties
  <2> DEFINE e == [keywords |-> k, tenant |-> entries[i].tenant, enabled |-> b]
  <2>2. e \in EntrySet
    BY <2>1 DEF EntrySet
  <2> DEFINE f == [entries EXCEPT ![i] = [entries[i] EXCEPT !.keywords = k]]
  <2>5. entries' = [f EXCEPT ![i] = [f[i] EXCEPT !.enabled = b]]
    BY <1>7 DEF Hints!PutEntry, Hints!UpdateEntry
  <2>6. [[entries[i] EXCEPT !.keywords = k] EXCEPT !.enabled = b] = e
    <3>1. entries[i] = [keywords |-> entries[i].keywords, tenant |-> entries[i].tenant,
                        enabled |-> entries[i].enabled]
      BY <2>1 DEF EntrySet
    <3> DEFINE a == entries[i].keywords
               o == entries[i].tenant
               c == entries[i].enabled
    <3> HIDE DEF a, o, c
    <3>2. [entries[i] EXCEPT !.keywords = k] = [keywords |-> k, tenant |-> o, enabled |-> c]
      BY <3>1 DEF a, o, c
    <3>3. [[keywords |-> k, tenant |-> o, enabled |-> c] EXCEPT !.enabled = b]
            = [keywords |-> k, tenant |-> o, enabled |-> b]
      OBVIOUS
    <3> QED
      BY <3>2, <3>3 DEF o
  <2>3. entries' = [entries EXCEPT ![i] = e]
    BY <2>1, <2>5, <2>6
  <2>4. entries' \in Seq(EntrySet)
    BY <2>1, <2>2, <2>3, ExceptSeq
  <2> QED
    BY <1>7, <2>4 DEF Hints!skillVars
<1>8. CASE UNCHANGED hintVars
  BY <1>8 DEF hintVars
<1> QED
  BY <1>1, <1>2, <1>3, <1>4, <1>5, <1>6, <1>7, <1>8
     DEF HintStep, Hints!Next, Hints!SkillsNext, Hints!PlaybookNext

\* What the best of those are that have anything at all.
HintsBest(shown, all, sc, max) ==
  /\ Hints!Range(shown) \subseteq {x \in all : sc[x] > 0}
  /\ Hints!IsInjective(shown)
  /\ \A i, j \in DOMAIN shown : i < j => sc[shown[i]] >= sc[shown[j]]
  /\ \A x \in all \ Hints!Range(shown) : sc[x] > 0 =>
       /\ Len(shown) >= max
       /\ \A y \in Hints!Range(shown) : sc[y] >= sc[x]

Having(all, sc) == {x \in all : sc[x] > 0}

LEMMA HintsAreBest ==
  ASSUME NEW all, NEW sc, Scored(all, sc), NEW max \in Nat
  PROVE  HintsBest(Hints!Slice(Hints!Ranked(Having(all, sc), Hints!MostFirst(Having(all, sc), sc)), max),
                   all, sc, max)
<1> DEFINE found == Having(all, sc)
           shown == Slice(Ranked(found, MostFirst(found, sc)), max)
<1>1. found \subseteq all /\ \A x \in found : x \in Int /\ sc[x] \in Int
  BY DEF Scored, Having
<1>2. Scored(found, sc)
  <2>1. IsFiniteSet(found)
    BY <1>1, FS_Subset DEF Scored
  <2> QED
    BY <1>1, <2>1 DEF Scored
<1>3. shown = Hints!Slice(Hints!Ranked(found, Hints!MostFirst(found, sc)), max)
  BY DEF Hints!Slice, Slice, Hints!Ranked, Ranked, Hints!MostFirst, MostFirst,
    Hints!Cardinality, Cardinality
<1> HIDE DEF found
<1>4. FirstOf(shown, found, sc, max)
  BY <1>2, FirstHaveMost
<1> HIDE DEF shown
<1>5. \A x : x \in found <=> x \in all /\ sc[x] > 0
  BY DEF found, Having
<1>6. HintsBest(shown, all, sc, max)
  BY <1>4, <1>5 DEF FirstOf, HintsBest, Hints!Range, Hints!IsInjective
<1> QED
  BY <1>3, <1>6 DEF found

LEMMA HintsAreSound ==
  ASSUME WordsAreFew, Shown \in Nat, HintInv
  PROVE  Hints!SuggestionsSound
<1>1. ASSUME NEW said \in Utterances, NEW words PROVE Hints!Cardinality(said \intersect words) \in Nat
  <2>1. IsFiniteSet(said \intersect words)
    BY FS_Subset DEF WordsAreFew
  <2> QED
    BY <2>1, FS_CardinalityType DEF Hints!Cardinality, Cardinality
<1>2. ASSUME NEW said \in Utterances, NEW t \in OneTenant, NEW max \in 0..2
      PROVE  LET all == {n \in DOMAIN skills : skills[n].enabled /\ Hints!InScope(skills[n], t)}
                 overlap(n) == Hints!Cardinality(said \intersect skills[n].phrase)
             IN  Hints!Best(Hints!SuggestSkills(said, t, max), all, overlap, max)
  <2> DEFINE all == Hints!ListSkills(t)
             sc == [n \in all |-> Hints!Cardinality(said \intersect skills[n].phrase)]
             shown == Hints!SuggestSkills(said, t, max)
  <2>1. all \subseteq Int /\ IsFiniteSet(all)
    BY FS_Subset DEF HintInv, WordsAreFew, Hints!ListSkills
  <2>2. /\ \A n \in all : sc[n] \in Int
        /\ \A n \in all : sc[n] = Hints!Cardinality(said \intersect skills[n].phrase)
    BY <1>1
  <2>3. shown = Hints!Slice(Hints!Ranked(Having(all, sc), Hints!MostFirst(Having(all, sc), sc)), max)
    BY DEF Hints!SuggestSkills, Having
  <2>4. all = {n \in DOMAIN skills : skills[n].enabled /\ Hints!InScope(skills[n], t)}
    BY DEF Hints!ListSkills
  <2>7. max \in Nat
    OBVIOUS
  <2> HIDE DEF all, sc, shown
  <2>5. HintsBest(shown, all, sc, max)
    BY <2>1, <2>2, <2>3, <2>7, HintsAreBest DEF Scored
  <2>6. Hints!Best(shown, all, LAMBDA n : Hints!Cardinality(said \intersect skills[n].phrase), max)
    BY <2>2, <2>5 DEF HintsBest, Hints!Best, Hints!Range
  <2> QED
    BY <2>4, <2>6 DEF shown
<1>3. ASSUME NEW said \in Utterances, NEW t \in OneTenant
      PROVE  LET all == {i \in DOMAIN entries : entries[i].enabled /\ Hints!InScope(entries[i], t)}
                 had(i) == Hints!Cardinality(said \intersect entries[i].keywords)
             IN  Hints!Best(Hints!SuggestEntries(said, t), all, had, Shown)
  <2> DEFINE all == {i \in DOMAIN entries : entries[i].enabled /\ Hints!InScope(entries[i], t)}
             every == [i \in DOMAIN entries |-> Hints!Cardinality(said \intersect entries[i].keywords)]
             shown == Hints!SuggestEntries(said, t)
  <2>1. all \subseteq Int /\ IsFiniteSet(all)
    <3>1. DOMAIN entries = 1..Len(entries) /\ Len(entries) \in Nat
      BY LenProperties DEF HintInv
    <3>2. IsFiniteSet(DOMAIN entries)
      BY <3>1, FS_Interval
    <3> QED
      BY <3>1, <3>2, FS_Subset
  <2>2. /\ \A n \in all : every[n] \in Int
        /\ \A n \in all : every[n] = Hints!Cardinality(said \intersect entries[n].keywords)
    BY <1>1
  <2>4. Having(all, every) = {i \in DOMAIN entries : /\ entries[i].enabled /\ Hints!InScope(entries[i], t)
                                       /\ every[i] > 0}
    BY DEF Having
  <2>3. shown = Hints!Slice(Hints!Ranked(Having(all, every), Hints!MostFirst(Having(all, every), every)), Shown)
    BY <2>4 DEF Hints!SuggestEntries
  <2> HIDE DEF all, every, shown
  <2>5. HintsBest(shown, all, every, Shown)
    BY <2>1, <2>2, <2>3, HintsAreBest DEF Scored
  <2>6. Hints!Best(shown, all, LAMBDA n : Hints!Cardinality(said \intersect entries[n].keywords), Shown)
    BY <2>2, <2>5 DEF HintsBest, Hints!Best, Hints!Range
  <2> QED
    BY <2>6 DEF shown, all
<1> QED
  BY <1>2, <1>3 DEF Hints!SuggestionsSound, Hints!SuggestsBest, HintInv

-----------------------------------------------------------------------------
(* A/B tests.                                                                 *)

AbStep == [Ab!Next]_abVars

\* An average that is higher by two points is so for some pair of scores too.
LEMMA SomePairLeads ==
  ASSUME NEW f, NEW A, NEW B, Summed(f, A), Summed(f, B), A # {}, B # {},
         SumFunctionOnSet(f, A) * Cardinality(B)
           >= SumFunctionOnSet(f, B) * Cardinality(A) + 2 * Cardinality(A) * Cardinality(B)
  PROVE  \E s \in A, r \in B : f[s] >= f[r] + 2
<1> DEFINE nA == Cardinality(A)
           nB == Cardinality(B)
           a == SumFunctionOnSet(f, A)
           b == SumFunctionOnSet(f, B)
<1>1. nA \in Nat /\ nB \in Nat /\ nA > 0 /\ nB > 0
  BY FS_CardinalityType, FS_EmptySet DEF Summed
<1>2. a \in Int /\ b \in Int
  BY SumOfChosen
<1>3. PICK s \in A : \A t \in A : f[t] <= f[s]
  BY SomeHasMost
<1>4. SUFFICES ASSUME \A r \in B : ~(f[s] >= f[r] + 2) PROVE FALSE
  BY <1>3
<1> DEFINE hi == f[s]
<1>5. hi \in Int
  BY DEF Summed
<1>6. a <= nA * hi
  <2>0. PICK t \in A : \A u \in A : f[t] <= f[u]
    <3> DEFINE h == [x \in A |-> -f[x]]
    <3>1. Summed(h, A)
      BY DEF Summed
    <3>2. PICK t \in A : \A u \in A : h[u] <= h[t]
      BY <3>1, SomeHasMost
    <3>3. \A u \in A : f[u] \in Int /\ h[u] = -f[u]
      BY DEF Summed
    <3> QED
      BY <3>2, <3>3
  <2>1. f[t] \in Int /\ \A x \in A : f[t] <= f[x] /\ f[x] <= hi
    BY <1>3, <2>0 DEF Summed
  <2> HIDE DEF hi
  <2> QED
    BY <1>5, <2>1, SumIsBounded
<1>7. b >= nB * (hi - 1)
  <2>1. PICK q \in B : \A u \in B : f[u] <= f[q]
    BY SomeHasMost
  <2>2. hi - 1 \in Int /\ f[q] \in Int /\ \A x \in B : hi - 1 <= f[x] /\ f[x] <= f[q]
    BY <1>4, <1>5, <2>1 DEF Summed
  <2> HIDE DEF hi
  <2>3. nB * (hi - 1) <= b
    BY <2>2, SumIsBounded
  <2> QED
    BY <1>1, <1>2, <1>5, <2>3
<1>8. a * nB >= b * nA + 2 * nA * nB
  OBVIOUS
<1> HIDE DEF nA, nB, a, b, hi
<1> DEFINE m == nA * nB
<1>9. m \in Int /\ m > 0
  BY <1>1
<1>10. a * nB <= (nA * hi) * nB
  BY <1>1, <1>2, <1>5, <1>6
<1>11. b * nA >= (nB * (hi - 1)) * nA
  BY <1>1, <1>2, <1>5, <1>7
<1>12. (nA * hi) * nB = m * hi /\ (nB * (hi - 1)) * nA = m * hi - m /\ 2 * nA * nB = 2 * m
  BY <1>1, <1>5
<1>13. m * hi \in Int /\ a * nB \in Int /\ b * nA \in Int
  BY <1>1, <1>2, <1>5, <1>9
<1> HIDE DEF m
<1> QED
  BY <1>8, <1>9, <1>10, <1>11, <1>12, <1>13

TestSet == [status : {"none", "active", "concluded", "paused"}, winner : {"none", "A", "B"},
            min : Int, share : Int]

\* Everybody was sent where the test's share says.
AbInv ==
  /\ test \in TestSet
  /\ variant \in [Visitors -> {"", "A", "B"}]
  /\ score \in [Visitors -> Int]
  /\ Ab!VerdictIsEarned
  /\ \A s \in Visitors : variant[s] # "" => variant[s] = Ab!HashVariant(s)
  /\ test = Ab!NoTest => \A s \in Visitors : variant[s] = "" /\ score[s] = Ab!Unscored
  /\ test.status = "none" => test = Ab!NoTest

LEMMA NoTestIsOne ==
  Ab!NoTest \in TestSet /\ Ab!NoTest.winner = "none" /\ Ab!NoTest.status = "none"
<1>1. Ab!NoTest = [status |-> "none", winner |-> "none", min |-> 0, share |-> 0]
  BY DEF Ab!NoTest
<1> QED
  BY <1>1 DEF TestSet

LEMMA AbBegins ==
  ASSUME Ab!Init
  PROVE  AbInv
<1>1. Ab!Unscored \in Int
  BY SMT DEF Ab!Unscored
<1>2. test \in TestSet /\ test = Ab!NoTest /\ test.winner = "none"
  BY NoTestIsOne DEF Ab!Init
<1>3. Ab!VerdictIsEarned
  BY <1>2 DEF Ab!VerdictIsEarned
<1> QED
  BY <1>1, <1>2, <1>3 DEF Ab!Init, AbInv

LEMMA AbScored ==
  ASSUME AbInv, IsFiniteSet(Visitors), NEW v
  PROVE  /\ Summed(score, Ab!Scored(v))
         /\ Ab!Total(v) = SumFunctionOnSet(score, Ab!Scored(v))
         /\ Ab!Cardinality(Ab!Scored(v)) = Cardinality(Ab!Scored(v))
         /\ Cardinality(Ab!Scored(v)) \in Nat
         /\ Ab!Total(v) \in Int
<1>1. Ab!Scored(v) \subseteq Visitors
  BY DEF Ab!Scored
<1>2. Summed(score, Ab!Scored(v))
  BY <1>1, FS_Subset DEF AbInv, Summed
<1>3. Ab!Total(v) = SumFunctionOnSet(score, Ab!Scored(v))
  BY DEF Ab!Total, Ab!SumFunctionOnSet, Ab!FoldFunctionOnSet, Ab!MapThenFoldSet,
    SumFunctionOnSet, FoldFunctionOnSet, MapThenFoldSet
<1>4. Ab!Cardinality(Ab!Scored(v)) = Cardinality(Ab!Scored(v))
  BY DEF Ab!Cardinality, Cardinality
<1> QED
  BY <1>2, <1>3, <1>4, SumOfChosen, FS_CardinalityType DEF Summed

\* What a report that names a winner says.
Leads(v, w) ==
  /\ Ab!Cardinality(Ab!Scored("A")) >= test.min /\ Ab!Cardinality(Ab!Scored("B")) >= test.min
  /\ \E s \in Ab!Scored(v), r \in Ab!Scored(w) : score[s] >= score[r] + 2
  /\ Ab!Total(v) * Ab!Cardinality(Ab!Scored(w)) > Ab!Total(w) * Ab!Cardinality(Ab!Scored(v))

LEMMA ReportIsEarned ==
  ASSUME AbInv, IsFiniteSet(Visitors)
  PROVE  /\ Ab!WinnerSuggestion \in {"insufficient_data", "error", "none", "A", "B"}
         /\ Ab!WinnerSuggestion = "A" => Leads("A", "B")
         /\ Ab!WinnerSuggestion = "B" => Leads("B", "A")
         /\ test.min > 0 => Ab!WinnerSuggestion # "error"
<1> DEFINE A == Ab!Scored("A")
           B == Ab!Scored("B")
           nA == Cardinality(A)
           nB == Cardinality(B)
           tA == Ab!Total("A")
           tB == Ab!Total("B")
           a == tA * nB
           b == tB * nA
           margin == 2 * nA * nB
           win == Ab!WinnerSuggestion
<1>1. /\ Summed(score, A) /\ Summed(score, B) /\ nA \in Nat /\ nB \in Nat
      /\ tA = SumFunctionOnSet(score, A) /\ tB = SumFunctionOnSet(score, B)
      /\ Ab!Cardinality(A) = nA /\ Ab!Cardinality(B) = nB
      /\ tA \in Int /\ tB \in Int /\ test.min \in Int
  BY AbScored DEF AbInv, TestSet
<1>2. win = CASE nA < test.min \/ nB < test.min -> "insufficient_data"
              [] nA >= test.min /\ nB >= test.min /\ nA * nB = 0 -> "error"
              [] OTHER -> IF a < b + margin /\ b < a + margin THEN "none"
                          ELSE IF a > b THEN "A" ELSE "B"
  BY <1>1 DEF Ab!WinnerSuggestion
<1> HIDE DEF win
<1>3. a \in Int /\ b \in Int /\ margin \in Int /\ nA * nB \in Int
  BY <1>1
<1>4. CASE nA < test.min \/ nB < test.min
  BY <1>1, <1>2, <1>4 DEF win
<1>5. CASE ~(nA < test.min \/ nB < test.min) /\ nA * nB = 0
  <2>1. ~(test.min > 0)
    <3>1. test.min > 0 => nA > 0 /\ nB > 0
      BY <1>1, <1>5
    <3>2. nA > 0 /\ nB > 0 => nA * nB # 0
      BY <1>1
    <3> QED
      BY <1>5, <3>1, <3>2
  <2>2. win = "error"
    BY <1>1, <1>2, <1>5
  <2> QED
    BY <2>1, <2>2 DEF win
<1>6. CASE ~(nA < test.min \/ nB < test.min) /\ nA * nB # 0
  <2>1. win = IF a < b + margin /\ b < a + margin THEN "none" ELSE IF a > b THEN "A" ELSE "B"
    BY <1>1, <1>2, <1>6
  <2>2. nA # 0 /\ nB # 0 /\ A # {} /\ B # {} /\ margin > 0
    <3>1. nA # 0 /\ nB # 0
      BY <1>1, <1>6
    <3>2. margin > 0
      BY <1>1, <3>1
    <3> QED
      BY <1>1, <3>1, <3>2, FS_EmptySet
  <2>3. nA >= test.min /\ nB >= test.min
    BY <1>1, <1>6
  <2>4. CASE win = "A"
    <3>1. a >= b + margin /\ a > b
      <4> HIDE DEF a, b, margin
      <4> QED
        BY <1>3, <2>1, <2>2, <2>4
    <3>2. \E s \in A, r \in B : score[s] >= score[r] + 2
      BY <1>1, <2>2, <3>1, SomePairLeads
    <3> QED
      BY <1>1, <2>3, <2>4, <3>1, <3>2 DEF Leads, win
  <2>5. CASE win = "B"
    <3>1. b >= a + margin /\ b > a
      <4> HIDE DEF a, b, margin
      <4> QED
        BY <1>3, <2>1, <2>2, <2>5
    <3>3. margin = 2 * nB * nA
      BY <1>1
    <3>2. \E s \in B, r \in A : score[s] >= score[r] + 2
      BY <1>1, <2>2, <3>1, <3>3, SomePairLeads
    <3> QED
      BY <1>1, <2>3, <2>5, <3>1, <3>2 DEF Leads, win
  <2>6. win \in {"none", "A", "B"}
    BY <2>1
  <2> QED
    BY <2>4, <2>5, <2>6 DEF win
<1> QED
  BY <1>4, <1>5, <1>6

LEMMA AbKeepsInv ==
  ASSUME IsFiniteSet(Visitors), Scores \subseteq Int, AbInv, AbStep
  PROVE  AbInv'
<1>0. Ab!Unscored \in Int
  BY SMT DEF Ab!Unscored
<1>1. ASSUME NEW min \in {0, 1}, NEW share \in {0, 500, 1000, 1001}, Ab!PostTest(min, share)
      PROVE  AbInv'
  <2>1. test' \in TestSet /\ test'.winner = "none" /\ test'.status = "active"
    BY <1>1 DEF Ab!PostTest, TestSet
  <2>2. test' # Ab!NoTest
    BY <2>1, NoTestIsOne
  <2>5. variant' = variant /\ score' = score /\ test = Ab!NoTest
    BY <1>1 DEF Ab!PostTest
  <2>3. \A s \in Visitors : variant'[s] = ""
    BY <2>5 DEF AbInv
  <2>4. Ab!VerdictIsEarned'
    BY <2>1 DEF Ab!VerdictIsEarned
  <2> QED
    <3>1. /\ variant' \in [Visitors -> {"", "A", "B"}] /\ score' \in [Visitors -> Int]
      BY <2>5 DEF AbInv
    <3>2. ASSUME NEW s \in Visitors, variant'[s] # "" PROVE variant'[s] = Ab!HashVariant(s)'
      <4>1. variant'[s] = ""
        BY <2>3
      <4>2. FALSE
        BY <3>2, <4>1
      <4> QED
        BY <4>2
    <3>3. test'.status # "none"
      BY <2>1
    <3> QED
      BY <2>1, <2>2, <2>4, <3>1, <3>2, <3>3 DEF AbInv
<1>2. ASSUME NEW s \in Visitors, Ab!AssignSession(s)
      PROVE  AbInv'
  <2>1. touched' = TRUE /\ test' = test /\ score' = score /\ test.status = "active"
        /\ variant' = [variant EXCEPT ![s] = Ab!HashVariant(s)]
    BY <1>2 DEF Ab!AssignSession
  <2>2. Ab!HashVariant(s) \in {"A", "B"}
    BY DEF Ab!HashVariant
  <2>3. \A v \in Visitors : Ab!HashVariant(v)' = Ab!HashVariant(v)
    BY <2>1 DEF Ab!HashVariant
  <2>4. Ab!VerdictIsEarned'
    BY <2>1 DEF Ab!VerdictIsEarned
  <2>5. test # Ab!NoTest
    BY <2>1 DEF Ab!NoTest
  <2> QED
    BY <2>1, <2>2, <2>3, <2>4, <2>5 DEF AbInv
<1>3. ASSUME NEW s \in Visitors, NEW q \in Scores, Ab!RecordMetrics(s, q)
      PROVE  AbInv'
  <2>1. touched' = TRUE /\ test' = test /\ variant' = variant /\ variant[s] # ""
        /\ score' = [score EXCEPT ![s] = q]
    BY <1>3 DEF Ab!RecordMetrics
  <2>3. \A v \in Visitors : Ab!HashVariant(v)' = Ab!HashVariant(v)
    BY <2>1 DEF Ab!HashVariant
  <2>4. Ab!VerdictIsEarned'
    BY <2>1 DEF Ab!VerdictIsEarned
  <2> QED
    BY <2>1, <2>3, <2>4 DEF AbInv
<1>4. ASSUME UNCHANGED <<variant, score>>, test' = [test EXCEPT !.status = test'.status],
             test # Ab!NoTest, test'.status \in {"active", "concluded", "paused"},
             touched' = TRUE \/ (touched' = touched)
      PROVE  AbInv'
  <2>1. /\ test' \in TestSet /\ test'.winner = test.winner /\ test'.min = test.min
        /\ test'.share = test.share /\ test'.status # "none"
    BY <1>4 DEF AbInv, TestSet
  <2>2. test' # Ab!NoTest
    BY <2>1 DEF Ab!NoTest
  <2>3. \A v \in Visitors : Ab!HashVariant(v)' = Ab!HashVariant(v)
    BY <2>1 DEF Ab!HashVariant
  <2>4. \A v : Ab!Scored(v)' = Ab!Scored(v) /\ Ab!Total(v)' = Ab!Total(v)
    BY <1>4 DEF Ab!Scored, Ab!Total
  <2>5. Ab!VerdictIsEarned'
    <3>1. CASE touched' = TRUE
      BY <3>1 DEF Ab!VerdictIsEarned
    <3>2. CASE touched' = touched
      <4>1. Ab!VerdictIsEarned /\ score' = score
        BY <1>4 DEF AbInv
      <4> QED
        BY <2>1, <2>4, <3>2, <4>1 DEF Ab!VerdictIsEarned
    <3> QED
      BY <1>4, <3>1, <3>2
  <2> QED
    BY <1>4, <2>1, <2>2, <2>3, <2>5 DEF AbInv
<1>5. ASSUME Ab!PauseTest \/ Ab!ResumeTest
      PROVE  AbInv'
  <2>1. test'.status \in {"active", "paused"} /\ test' = [test EXCEPT !.status = test'.status]
    BY <1>5 DEF Ab!PauseTest, Ab!ResumeTest, AbInv, TestSet
  <2> QED
    BY <1>4, <1>5, <2>1 DEF Ab!PauseTest, Ab!ResumeTest
<1>6. ASSUME Ab!DeleteTest
      PROVE  AbInv'
  <2>1. test' = Ab!NoTest /\ test' \in TestSet /\ test'.winner = "none"
    BY <1>6, NoTestIsOne DEF Ab!DeleteTest
  <2>2. Ab!VerdictIsEarned'
    BY <2>1 DEF Ab!VerdictIsEarned
  <2> QED
    BY <1>0, <1>6, <2>1, <2>2 DEF Ab!DeleteTest, AbInv
<1>7. ASSUME NEW w \in {"none", "A", "B"}, UNCHANGED <<variant, score>>, test # Ab!NoTest,
             test' = [test EXCEPT !.status = "concluded", !.winner = w],
             touched' = TRUE \/ w = "none" \/ w = Ab!WinnerSuggestion
      PROVE  AbInv'
  <2>1. /\ test' \in TestSet /\ test'.winner = w /\ test'.min = test.min
        /\ test'.share = test.share /\ test'.status = "concluded"
    BY <1>7 DEF AbInv, TestSet
  <2>2. test' # Ab!NoTest
    BY <2>1 DEF Ab!NoTest
  <2>3. \A v \in Visitors : Ab!HashVariant(v)' = Ab!HashVariant(v)
    BY <2>1 DEF Ab!HashVariant
  <2>4. \A v : Ab!Scored(v)' = Ab!Scored(v) /\ Ab!Total(v)' = Ab!Total(v)
    BY <1>7 DEF Ab!Scored, Ab!Total
  <2>5. Ab!VerdictIsEarned'
    <3>1. CASE touched' = TRUE \/ w = "none"
      BY <2>1, <3>1 DEF Ab!VerdictIsEarned
    <3>2. CASE w = "A" /\ w = Ab!WinnerSuggestion
      <4>1. Leads("A", "B")
        BY <3>2, ReportIsEarned
      <4> QED
        BY <1>7, <2>1, <2>4, <3>2, <4>1 DEF Ab!VerdictIsEarned, Leads
    <3>3. CASE w = "B" /\ w = Ab!WinnerSuggestion
      <4>1. Leads("B", "A")
        BY <3>3, ReportIsEarned
      <4> QED
        BY <1>7, <2>1, <2>4, <3>3, <4>1 DEF Ab!VerdictIsEarned, Leads
    <3> QED
      BY <1>7, <3>1, <3>2, <3>3
  <2> QED
    BY <1>7, <2>1, <2>2, <2>3, <2>5 DEF AbInv
<1>8. ASSUME NEW w \in {"A", "B", "none", "maybe"}, Ab!PostConclude(w)
      PROVE  AbInv'
  <2>1. CASE w \in {"A", "B", "none"}
    BY <1>7, <1>8, <2>1 DEF Ab!PostConclude
  <2>2. CASE w = "maybe"
    <3>1. Ab!Conclude
      BY <1>8, <2>2 DEF Ab!PostConclude
    <3>2. test # Ab!NoTest /\ Ab!WinnerSuggestion # "error" /\ Ab!Report = Ab!WinnerSuggestion
      BY <3>1 DEF Ab!Conclude, Ab!Report
    <3>3. Ab!WinnerSuggestion \in {"insufficient_data", "error", "none", "A", "B"}
      BY ReportIsEarned
    <3> QED
      BY <1>7, <3>1, <3>2, <3>3 DEF Ab!Conclude
  <2> QED
    BY <2>1, <2>2
<1>9. CASE UNCHANGED abVars
  <2>1. \A v \in Visitors : Ab!HashVariant(v)' = Ab!HashVariant(v)
    BY <1>9 DEF Ab!HashVariant, abVars
  <2>2. \A v : Ab!Scored(v)' = Ab!Scored(v) /\ Ab!Total(v)' = Ab!Total(v)
    BY <1>9 DEF Ab!Scored, Ab!Total, abVars
  <2>3. Ab!VerdictIsEarned'
    BY <1>9, <2>2 DEF Ab!VerdictIsEarned, AbInv, abVars
  <2> QED
    BY <1>9, <2>1, <2>3 DEF AbInv, abVars
<1> QED
  BY <1>1, <1>2, <1>3, <1>5, <1>6, <1>8, <1>9 DEF AbStep, Ab!Next

\* The hash of a name falls into a thousand buckets.
LEMMA AbTestsAreSound ==
  ASSUME IsFiniteSet(Visitors), \A s \in Visitors : Bucket(s) \in 0..999, AbInv
  PROVE  Ab!AbTestsSound
<1>1. Ab!VerdictIsEarned
  BY DEF AbInv
<1>0. test.share \in Int /\ \A s \in Visitors : variant[s] # "" => variant[s] = Ab!HashVariant(s)
  BY DEF AbInv, TestSet
<1>2. ASSUME NEW s \in Visitors
      PROVE  /\ test.share = 0 => variant[s] # "A"
             /\ test.share = 1000 => variant[s] # "B"
  <2>1. Ab!HashVariant(s) = IF Bucket(s) < test.share THEN "A" ELSE "B"
    BY DEF Ab!HashVariant
  <2>2. Bucket(s) \in 0..999
    OBVIOUS
  <2>3. ~(Bucket(s) < 0) /\ Bucket(s) < 1000
    BY ONLY <2>2
  <2>4. test.share = 0 => Ab!HashVariant(s) = "B"
    BY <2>1, <2>3
  <2>5. test.share = 1000 => Ab!HashVariant(s) = "A"
    BY <2>1, <2>3
  <2>6. variant[s] # "" => variant[s] = Ab!HashVariant(s)
    BY <1>0
  <2>7. test.share = 0 => variant[s] # "A"
    BY <2>4, <2>6
  <2>8. test.share = 1000 => variant[s] # "B"
    BY <2>5, <2>6
  <2> QED
    BY <2>7, <2>8
<1>4. test.min > 0 => Ab!Report # "error"
  BY ReportIsEarned DEF Ab!Report
<1>5. test = Ab!NoTest => \A s \in Visitors : variant[s] = "" /\ score[s] = Ab!Unscored
  BY DEF AbInv
<1>7. test.share = 0 => \A s \in Visitors : variant[s] # "A"
  BY <1>2
<1>8. test.share = 1000 => \A s \in Visitors : variant[s] # "B"
  BY <1>2
<1>6. Ab!TestIsWhole
  BY <1>4, <1>5, <1>7, <1>8 DEF Ab!TestIsWhole
<1> QED
  BY <1>1, <1>6 DEF Ab!AbTestsSound

-----------------------------------------------------------------------------
(* Retrieval.                                                                 *)

RetrievalStep == [Retrieve!Next]_retrievalVars

CallSet == [op : {"idle", "connect", "query", "delete", "recreate"}, uses : Int]

RetrievalInv ==
  /\ call \in [Readers -> CallSet]
  /\ collection \in Int
  /\ server \in Nat /\ retrievalVersions \in Nat
  /\ connected => collection # 0
  /\ Retrieve!TalksToServer

LEMMA RetrievalBegins ==
  ASSUME Retrieve!Init
  PROVE  RetrievalInv
BY DEF Retrieve!Init, Retrieve!Idle, RetrievalInv, CallSet, Retrieve!TalksToServer

LEMMA RetrievalKeepsInv ==
  ASSUME RetrievalInv, RetrievalStep
  PROVE  RetrievalInv'
<1> USE DEF RetrievalInv, Retrieve!TalksToServer, Retrieve!GetOrCreate, Retrieve!Delete
<1>0. Retrieve!Idle \in CallSet /\ Retrieve!Idle.op = "idle"
  BY DEF Retrieve!Idle, CallSet
<1>1. ASSUME NEW c \in Readers, NEW op \in {"connect", "query", "delete"}, NEW uses \in Int,
             Retrieve!Await(c, op, uses)
      PROVE  RetrievalInv'
  <2>1. call[c].op = "idle"
    BY <1>0, <1>1 DEF Retrieve!Await
  <2>2. [op |-> op, uses |-> uses] \in CallSet
    BY DEF CallSet
  <2> QED
    BY <1>1, <2>1, <2>2 DEF Retrieve!Await
<1>2. ASSUME NEW c \in Readers, Retrieve!Connected(c) PROVE RetrievalInv'
  BY <1>0, <1>2 DEF Retrieve!Connected
<1>3. ASSUME NEW c \in Readers, Retrieve!Answered(c) PROVE RetrievalInv'
  BY <1>0, <1>3 DEF Retrieve!Answered
<1>4. ASSUME NEW c \in Readers, Retrieve!Deleted(c) PROVE RetrievalInv'
  <2>1. [call[c] EXCEPT !.op = "recreate"] \in CallSet
        /\ [call[c] EXCEPT !.op = "recreate"].op = "recreate"
    BY <1>4 DEF Retrieve!Deleted, CallSet
  <2>2. call' = [call EXCEPT ![c] = [call[c] EXCEPT !.op = "recreate"]]
    BY <1>4 DEF Retrieve!Deleted
  <2>3. call'[c].op = "recreate" /\ call' \in [Readers -> CallSet]
    BY <2>1, <2>2
  <2> QED
    BY <1>4, <2>3 DEF Retrieve!Deleted
<1>5. ASSUME NEW c \in Readers, Retrieve!Recreated(c) PROVE RetrievalInv'
  BY <1>0, <1>5 DEF Retrieve!Recreated
<1>6. ASSUME NEW c \in Readers, Retrieve!Fails(c) PROVE RetrievalInv'
  <2>1. /\ call' \in [Readers -> CallSet]
        /\ \A b \in Readers : b # c => call'[b] = call[b]
        /\ connected' = connected /\ collection' = collection
    BY <1>0, <1>6 DEF Retrieve!Fails
  <2>2. server' \in Nat /\ retrievalVersions' \in Nat
    BY <1>6 DEF Retrieve!Fails
  <2>3. broken => broken'
    BY <1>6 DEF Retrieve!Fails
  <2>4. call[c].op = "recreate" => broken'
    BY <1>6 DEF Retrieve!Fails
  <2>5. connected /\ server' # server => broken' \/ collection # server
    BY <1>6 DEF Retrieve!Fails
  <2> QED
    BY <2>1, <2>2, <2>3, <2>4, <2>5
<1>7. CASE Retrieve!Close
  BY <1>7 DEF Retrieve!Close
<1>8. CASE Retrieve!LoadCatalogue \/ Retrieve!ResetCache \/ Retrieve!FileChanges
  BY <1>8 DEF Retrieve!LoadCatalogue, Retrieve!ResetCache, Retrieve!FileChanges, Retrieve!storeVars
<1>9. CASE UNCHANGED retrievalVars
  BY <1>9 DEF retrievalVars
<1> QED
  BY <1>1, <1>2, <1>3, <1>4, <1>5, <1>6, <1>7, <1>8, <1>9
     DEF RetrievalStep, Retrieve!Next, Retrieve!Connect, Retrieve!Query, Retrieve!Clear

\* The similar facts, the most similar first.
LEMMA FoundAreSources ==
  ASSUME FactsAreKnown, NEW topK \in Nat
  PROVE  Retrieve!Found(topK) \in Seq(Sources)
<1> DEFINE S == {f \in Sources : f.score > 0}
           R == {p \in S \X S : \/ p[1].score > p[2].score
                                \/ p[1].score = p[2].score /\ p[1].id < p[2].id}
<1>1. IsFiniteSet(S)
  BY FS_Subset DEF FactsAreKnown
<1>2. \A f, g \in S : <<f, g>> \in R <=> f.score > g.score \/ (f.score = g.score /\ f.id < g.id)
  OBVIOUS
<1>3. \A f \in S : f.score \in Int /\ f.id \in Int
  BY DEF FactsAreKnown
<1>4. \A f, g \in S : f # g => f.id # g.id
  BY DEF FactsAreKnown
<1>5. S \subseteq Sources
  OBVIOUS
<1>6. Retrieve!Found(topK) = Slice(Ranked(S, R), topK)
  BY DEF Retrieve!Found, Retrieve!Slice, Slice, Retrieve!Ranked, Ranked, Retrieve!Cardinality,
    Cardinality
<1> HIDE DEF S, R
<1>7. StrictOrder(S, R)
  <2>1. \A f \in S : <<f, f>> \notin R
    BY <1>2, <1>3
  <2>2. \A f, g, h \in S : <<f, g>> \in R /\ <<g, h>> \in R => <<f, h>> \in R
    BY <1>2, <1>3
  <2>3. \A f, g \in S : f # g => <<f, g>> \in R \/ <<g, f>> \in R
    BY <1>2, <1>3, <1>4
  <2> QED
    BY <2>1, <2>2, <2>3 DEF StrictOrder
<1>8. Slice(Ranked(S, R), topK) \in Seq(S)
  BY <1>1, <1>7, SliceOfRanking
<1> QED
  BY <1>5, <1>6, <1>8

LEMMA PackIsSound ==
  ASSUME FactsAreKnown, NEW topK \in Nat, NEW cap \in Int
  PROVE  LET pack == Retrieve!Pack(topK, cap)
             found == Retrieve!Found(topK)
         IN  /\ Retrieve!Fits({}, {}, cap) => Retrieve!Fits(pack.facts, pack.notes, cap)
             /\ pack.facts = Retrieve!Range(found)
                  \/ ~Retrieve!Fits(Retrieve!Range(found), pack.notes, cap)
             /\ Retrieve!Fits({}, Retrieve!Required(found), cap) =>
                  \A f \in pack.facts :
                    \A d \in Disclaimers : d.for = f.category => d \in pack.notes
<1> DEFINE found == Retrieve!Found(topK)
           notes == Retrieve!PackNotes(found, cap)
           taken == Retrieve!PackFacts(found, cap)
           first(n) == {found[i] : i \in 1..n}
           fit(n) == Retrieve!Fits(first(n), notes, cap)
           fitting == {n \in 0..Len(found) : \A m \in 1..n : fit(m)}
           required == Retrieve!Required(found)
<1>1. found \in Seq(Sources) /\ Len(found) \in Nat /\ DOMAIN found = 1..Len(found)
      /\ \A i \in 1..Len(found) : found[i] \in Sources
  BY FoundAreSources, LenProperties, ElementOfSeq
<1>2. taken = first(Retrieve!Max(fitting))
  BY DEF Retrieve!PackFacts
<1>3. notes = IF Retrieve!Fits({}, required, cap) THEN required ELSE {}
  BY DEF Retrieve!PackNotes
<1>4. required = {d \in Disclaimers : d.for = "all" \/ \E i \in DOMAIN found : found[i].category = d.for}
  BY DEF Retrieve!Required
<1>5. Retrieve!Pack(topK, cap).facts = taken /\ Retrieve!Pack(topK, cap).notes = notes
  BY DEF Retrieve!Pack
<1>6. Retrieve!Range(found) = first(Len(found))
  BY <1>1 DEF Retrieve!Range
<1> HIDE DEF found, notes, taken, required
<1>7. fitting \subseteq 0..Len(found) /\ 0 \in fitting
  BY <1>1
<1> DEFINE best == Retrieve!Max(fitting)
<1>8. best \in fitting /\ \A m \in fitting : best >= m
  <2> HIDE DEF fitting
  <2>1. \E k \in fitting : \A m \in fitting : k >= m
    BY <1>1, <1>7, GreatestNumber
  <2> QED
    BY <2>1 DEF Retrieve!Max
<1> HIDE DEF best
<1>9. best \in 0..Len(found) /\ \A m \in 1..best : fit(m)
  BY <1>8
<1>10. taken = first(best)
  BY <1>2 DEF best
<1>11. Retrieve!Fits({}, {}, cap) => Retrieve!Fits(taken, notes, cap)
  <2>1. CASE best = 0
    <3>1. taken = {}
      BY <1>10, <2>1
    <3> QED
      BY <1>3, <3>1
  <2>2. CASE best # 0
    <3>1. best \in 1..best
      BY <1>1, <1>9, <2>2
    <3> QED
      BY <1>9, <1>10, <3>1
  <2> QED
    BY <2>1, <2>2
<1>12. taken = first(Len(found)) \/ ~Retrieve!Fits(first(Len(found)), notes, cap)
  <2> SUFFICES ASSUME best # Len(found), fit(Len(found)) PROVE FALSE
    BY <1>10
  <2>1. best + 1 \in 0..Len(found) /\ best + 1 \notin fitting
    <3> DEFINE l == Len(found)
    <3>1. best \in 0..l /\ l \in Nat /\ best # l
      BY <1>1, <1>9
    <3>2. best + 1 \in fitting => best >= best + 1
      BY <1>8
    <3> HIDE DEF fitting, l
    <3>3. best \in Nat /\ best < l /\ ~(best >= best + 1)
      BY <3>1
    <3>4. best + 1 \in 0..l
      BY <3>1, <3>3
    <3> QED
      BY <3>2, <3>3, <3>4 DEF l
  <2>2. PICK m \in 1..(best + 1) : ~fit(m)
    BY <2>1
  <2>3. m \in 1..Len(found)
    BY <1>1, <2>1
  <2>4. first(m) \subseteq first(Len(found)) /\ first(Len(found)) \subseteq Sources
    BY <1>1, <2>3
  <2> DEFINE size == [x \in Sources |-> x.size]
             total(T) == SumFunctionOnSet(size, T)
  <2>5. ASSUME NEW T, T \subseteq Sources PROVE Retrieve!Size(T) = total(T)
    <3> DEFINE g == [x \in T |-> x.size]
    <3>1. Retrieve!Size(T) = SumFunctionOnSet(g, T)
      BY DEF Retrieve!Size, Retrieve!SumFunction, Retrieve!SumFunctionOnSet,
        Retrieve!FoldFunctionOnSet, Retrieve!MapThenFoldSet, SumFunctionOnSet, FoldFunctionOnSet,
        MapThenFoldSet
    <3>2. Summed(g, T) /\ \A x \in T : g[x] = size[x]
      BY <2>5, FS_Subset DEF FactsAreKnown, Summed
    <3> QED
      BY <3>1, <3>2, SumOfSame
  <2>6. /\ total(first(m)) <= total(first(Len(found)))
        /\ total(first(m)) \in Int /\ total(first(Len(found))) \in Int
    <3>1. Summed(size, first(Len(found))) /\ \A x \in first(Len(found)) : size[x] >= 0
      BY <2>4, FS_Subset DEF FactsAreKnown, Summed
    <3> HIDE DEF size
    <3> QED
      BY <2>4, <3>1, SumGrows
  <2>7. Retrieve!Size(notes) \in Int
    <3> DEFINE g == [x \in notes |-> x.size]
    <3>1. notes \subseteq Disclaimers
      BY <1>3, <1>4
    <3>2. Retrieve!Size(notes) = SumFunctionOnSet(g, notes)
      BY DEF Retrieve!Size, Retrieve!SumFunction, Retrieve!SumFunctionOnSet,
        Retrieve!FoldFunctionOnSet, Retrieve!MapThenFoldSet, SumFunctionOnSet, FoldFunctionOnSet,
        MapThenFoldSet
    <3>3. Summed(g, notes)
      BY <3>1, FS_Subset DEF FactsAreKnown, Summed
    <3> QED
      BY <3>2, <3>3, SumOfChosen
  <2>8. Retrieve!Size(first(m)) = total(first(m))
        /\ Retrieve!Size(first(Len(found))) = total(first(Len(found)))
    BY <2>4, <2>5
  <2> DEFINE a == Retrieve!Size(first(m))
             b == Retrieve!Size(first(Len(found)))
             k == Retrieve!Size(notes)
  <2>9. ~(TopicSize + a + k <= cap) /\ TopicSize + b + k <= cap
    BY <2>2 DEF Retrieve!Fits
  <2>10. a <= b /\ a \in Int /\ b \in Int /\ k \in Int /\ TopicSize \in Int
    BY <2>6, <2>7, <2>8 DEF FactsAreKnown
  <2> HIDE DEF a, b, k
  <2> QED
    BY <2>9, <2>10
<1>13. Retrieve!Fits({}, required, cap) =>
         \A f \in taken : \A d \in Disclaimers : d.for = f.category => d \in notes
  <2>1. \A f \in taken : \E i \in DOMAIN found : found[i] = f
    BY <1>1, <1>9, <1>10
  <2> QED
    BY <1>3, <1>4, <2>1
<1> QED
  BY <1>5, <1>6, <1>11, <1>12, <1>13 DEF found, required

\* Sizes are numbers, and facts have names of their own.
LEMMA RetrievalIsSound ==
  ASSUME FactsAreKnown, Cap \in Int, RetrievalInv
  PROVE  Retrieve!RetrievalSound
<1>1. Retrieve!PackIsGrounded
  <2>1. \A k \in 0..TopK : k \in Nat
    BY DEF FactsAreKnown
  <2>2. \A k \in 0..Cap : k \in Int
    OBVIOUS
  <2> QED
    BY <2>1, <2>2, PackIsSound DEF Retrieve!PackIsGrounded
<1>2. Retrieve!NothingDropped
  BY DEF Retrieve!NothingDropped, Retrieve!Block
<1> QED
  BY <1>1, <1>2 DEF RetrievalInv, Retrieve!RetrievalSound

-----------------------------------------------------------------------------
(* Knowledge bases.                                                           *)

KnownStep == [Known!Next]_knownVars

\* What a store has of its tenants is what it read, and no entry is written twice.
KnownInv ==
  /\ knownCache \subseteq Entries
  /\ hits \in [Entries -> Nat] /\ knownFile \in [Entries -> Int]
  /\ knownFailures \in Nat
  /\ knownCache \union Known!OnFile \union deleted \subseteq knownBorn
  /\ Known!NamesLeadToEntries

LEMMA KnownBegins ==
  ASSUME Known!Init
  PROVE  KnownInv
BY DEF Known!Init, KnownInv, Known!NamesLeadToEntries, Known!OnFile, Known!Of

\* A store that read a tenant, or changed what it has of it.
Changed(t, m) ==
  /\ m.cache \subseteq Entries /\ m.index = m.cache /\ m.hits \in [Entries -> Nat]
  /\ \A e \in Entries : Owner(e) # t => /\ e \in m.cache <=> e \in knownCache
                                        /\ m.hits[e] = hits[e]

LEMMA ReadIsChanged ==
  ASSUME KnownInv, NEW t
  PROVE  /\ Changed(t, Known!Read(t))
         /\ Known!Read(t).cache \subseteq knownCache \union Known!OnFile
         /\ knownFailures = 0 =>
              \A e \in Entries : Owner(e) = t =>
                /\ e \in Known!Read(t).cache <=> e \in Known!OnFile
                /\ e \in Known!Read(t).cache => Known!Read(t).hits[e] = knownFile[e]
<1> USE DEF KnownInv, Known!NamesLeadToEntries, Changed, Known!Of
<1>1. CASE t \in knownLoaded
  <2>1. Known!Read(t) = [cache |-> knownCache, index |-> knownIndex, hits |-> hits]
    BY <1>1 DEF Known!Read
  <2>2. Known!OnFile \subseteq Entries
    BY DEF Known!OnFile
  <2> QED
    BY <1>1, <2>1, <2>2
<1>2. CASE t \notin knownLoaded
  <2> DEFINE own == Known!Of(t, Known!OnFile)
             now == [e \in Entries |-> IF e \in own THEN knownFile[e] ELSE hits[e]]
  <2>1. Known!Read(t) = [cache |-> knownCache \union own, index |-> knownIndex \union own,
                         hits |-> now]
    BY <1>2 DEF Known!Read
  <2>2. /\ own \subseteq Entries /\ \A e \in own : Owner(e) = t /\ knownFile[e] \in Nat
        /\ own \subseteq Known!OnFile
        /\ \A e \in Known!OnFile : Owner(e) = t => e \in own
    BY DEF Known!OnFile
  <2>3. now \in [Entries -> Nat] /\ \A e \in Entries : Owner(e) # t => now[e] = hits[e]
    BY <2>2
  <2>4. \A e \in own : now[e] = knownFile[e]
    BY <2>2
  <2>5. \A e \in knownCache : Owner(e) # t
    BY <1>2
  <2> HIDE DEF own, now
  <2> QED
    BY <2>1, <2>2, <2>3, <2>4, <2>5
<1> QED
  BY <1>1, <1>2

\* What is written whole agrees with what is in memory.
LEMMA KnownIsKept ==
  ASSUME KnownInv, NEW t, NEW m, Changed(t, m), Known!Keep(t, m),
         m.cache \subseteq knownBorn', knownBorn \subseteq knownBorn', deleted' \subseteq knownBorn',
         \/ Known!SaveTenant(t, m)
         \/ /\ UNCHANGED <<knownFile, knownFailures>>
            /\ knownFailures = 0 => \A e \in Entries : Owner(e) = t =>
                 /\ e \in m.cache <=> e \in Known!OnFile
                 /\ e \in m.cache => m.hits[e] = knownFile[e],
         knownFailures = 0 => /\ m.cache \intersect deleted' = {}
                              /\ \A e \in deleted' : e \in deleted \/ Owner(e) = t
  PROVE  KnownInv'
<1> USE DEF KnownInv, Known!NamesLeadToEntries, Changed, Known!Of, Known!Keep
<1>1. /\ knownCache' = m.cache /\ knownIndex' = m.cache /\ hits' = m.hits
      /\ knownLoaded' = knownLoaded \union {t} /\ knownFailures' = knownFailures
  BY DEF Known!SaveTenant
<1>2. /\ knownFile' \in [Entries -> Int]
      /\ \A e \in Entries : Owner(e) # t => knownFile'[e] = knownFile[e]
  BY DEF Known!SaveTenant, Known!Written
<1>3. \A e \in Entries : (e \in Known!OnFile' <=> knownFile'[e] >= 0)
                         /\ (e \in Known!OnFile <=> knownFile[e] >= 0)
  BY DEF Known!OnFile
<1>4. Known!OnFile' \subseteq Entries
  BY DEF Known!OnFile
<1>5. knownFailures = 0 => \A e \in Entries : Owner(e) = t =>
        /\ e \in m.cache <=> e \in Known!OnFile'
        /\ e \in m.cache => m.hits[e] = knownFile'[e]
  <2>1. CASE Known!SaveTenant(t, m)
    BY <1>3, <2>1 DEF Known!SaveTenant, Known!Written
  <2>2. CASE ~Known!SaveTenant(t, m)
    BY <1>3, <2>2
  <2> QED
    BY <2>1, <2>2
<1>6. Known!OnFile' \subseteq m.cache \union Known!OnFile
  <2>1. CASE Known!SaveTenant(t, m)
    BY <1>2, <1>3, <1>4, <2>1 DEF Known!SaveTenant, Known!Written
  <2>2. CASE UNCHANGED knownFile
    BY <1>3, <1>4, <2>2
  <2> QED
    BY <2>1, <2>2
<1>7. knownCache' \union Known!OnFile' \union deleted' \subseteq knownBorn'
  BY <1>1, <1>6
<1>8. knownFailures = 0 => (knownCache \union Known!OnFile) \intersect deleted = {}
  OBVIOUS
<1>9. knownFailures' = 0 => (knownCache' \union Known!OnFile') \intersect deleted' = {}
  <2> SUFFICES ASSUME knownFailures = 0, NEW e \in deleted', e \in m.cache \union Known!OnFile'
               PROVE  FALSE
    BY <1>1
  <2>1. e \in Known!OnFile' /\ e \notin m.cache
    OBVIOUS
  <2>2. Owner(e) # t
    BY <1>4, <1>5, <2>1
  <2>3. e \in deleted /\ e \in Known!OnFile
    BY <1>2, <1>3, <1>4, <2>1, <2>2
  <2> QED
    BY <1>8, <2>3
<1>10. knownFailures' = 0 => \A u \in knownLoaded' :
         {e \in knownCache' : Owner(e) = u} = {e \in Known!OnFile' : Owner(e) = u}
  <2> SUFFICES ASSUME knownFailures = 0, NEW u \in knownLoaded \union {t}, NEW e \in Entries, Owner(e) = u
               PROVE  e \in m.cache <=> e \in Known!OnFile'
    BY <1>1, <1>4
  <2>1. CASE u = t
    BY <1>5, <2>1
  <2>2. CASE u # t
    BY <1>2, <1>3, <2>2
  <2> QED
    BY <2>1, <2>2
<1>11. knownFailures' = 0 => \A e \in knownCache' : hits'[e] = knownFile'[e]
  BY <1>1, <1>2, <1>5
<1>12. \A e \in knownCache' : Owner(e) \in knownLoaded'
  BY <1>1
<1> QED
  BY <1>1, <1>2, <1>7, <1>9, <1>10, <1>11, <1>12

LEMMA KnownFails ==
  ASSUME KnownInv, NEW t, NEW m, Changed(t, m), Known!Keep(t, m),
         m.cache \subseteq knownBorn', knownBorn \subseteq knownBorn', deleted' \subseteq knownBorn',
         knownFailures' = knownFailures + 1, knownFile' \in [Entries -> Int],
         Known!OnFile' \subseteq knownBorn'
  PROVE  KnownInv'
<1> USE DEF KnownInv, Known!NamesLeadToEntries, Changed, Known!Of, Known!Keep
<1>1. /\ knownCache' = m.cache /\ knownIndex' = m.cache /\ hits' = m.hits
      /\ knownLoaded' = knownLoaded \union {t} /\ knownFailures' # 0 /\ knownFailures' \in Nat
  OBVIOUS
<1>2. \A e \in knownCache' : Owner(e) \in knownLoaded'
  BY <1>1
<1> QED
  BY <1>1, <1>2

LEMMA SearchFindsOwn ==
  ASSUME EntriesAreKnown, NEW t, NEW m, m.cache \subseteq Entries, m.hits \in [Entries -> Nat],
         NEW q
  PROVE  /\ Known!Search(m, t, q) \in Seq(m.cache)
         /\ \A i \in 1..Len(Known!Search(m, t, q)) : Owner(Known!Search(m, t, q)[i]) = t
<1> DEFINE S == {e \in Known!Of(t, m.cache) : Title(e) \intersect q # {}}
           sc == m.hits
<1>1. S \subseteq Entries /\ S \subseteq m.cache /\ \A e \in S : Owner(e) = t
  BY DEF Known!Of
<1>2. Scored(S, sc)
  <2>1. IsFiniteSet(S)
    BY <1>1, FS_Subset DEF EntriesAreKnown
  <2>2. S \subseteq Int /\ \A e \in S : sc[e] \in Int
    <3>1. \A e \in Entries : sc[e] \in Int
      OBVIOUS
    <3> HIDE DEF S, sc
    <3> QED
      BY <1>1, <3>1 DEF EntriesAreKnown
  <2> QED
    BY <2>1, <2>2 DEF Scored
<1>3. Known!Search(m, t, q) = Slice(Ranked(S, MostFirst(S, sc)), TopN)
  BY DEF Known!Search, Known!Slice, Slice, Known!Ranked, Ranked, Known!MostFirst, MostFirst,
    Known!Cardinality, Cardinality
<1> HIDE DEF S, sc
<1>4. FirstOf(Known!Search(m, t, q), S, sc, TopN)
  BY <1>2, <1>3, FirstHaveMost DEF EntriesAreKnown
<1>5. Known!Search(m, t, q) \in Seq(S)
  BY <1>4 DEF FirstOf
<1> QED
  BY <1>1, <1>5

LEMMA KnownKeepsInv ==
  ASSUME EntriesAreKnown, KnownInv, KnownStep
  PROVE  KnownInv'
<1>0. /\ knownCache \subseteq Entries /\ knownCache \subseteq knownBorn /\ deleted \subseteq knownBorn
      /\ Known!OnFile \subseteq knownBorn /\ knownFile \in [Entries -> Int]
      /\ knownFailures = 0 => (knownCache \union Known!OnFile) \intersect deleted = {}
      /\ knownIndex = knownCache /\ \A e \in knownCache : Owner(e) \in knownLoaded
  BY DEF KnownInv, Known!NamesLeadToEntries
<1>1. ASSUME NEW e \in Entries, Known!PostEntry(e)
      PROVE  KnownInv'
  <2> DEFINE t == Owner(e)
             m == Known!Read(t)
             n == [m EXCEPT !.cache = @ \union {e}, !.index = @ \union {e}]
  <2>1. Changed(t, m) /\ m.cache \subseteq knownCache \union Known!OnFile
    BY ReadIsChanged
  <2>2. n.cache = m.cache \union {e} /\ n.index = m.index \union {e} /\ n.hits = m.hits
    BY DEF Known!Read
  <2> HIDE DEF m
  <2>3. /\ e \notin knownBorn /\ knownBorn' = knownBorn \union {e} /\ deleted' = deleted
        /\ Known!Keep(t, n) /\ (Known!SaveTenant(t, n) \/ Known!SaveFails)
    BY <1>1 DEF Known!PostEntry, m
  <2> HIDE DEF n
  <2>4. Changed(t, n)
    BY <2>1, <2>2 DEF Changed
  <2>5. n.cache \subseteq knownBorn' /\ knownBorn \subseteq knownBorn' /\ deleted' \subseteq knownBorn'
    BY <1>0, <2>1, <2>2, <2>3
  <2>6. knownFailures = 0 => n.cache \intersect deleted' = {}
    BY <1>0, <2>1, <2>2, <2>3
  <2>7. CASE Known!SaveTenant(t, n)
    <3> HIDE DEF t
    <3> QED
      BY <2>3, <2>4, <2>5, <2>6, <2>7, KnownIsKept
  <2>8. CASE Known!SaveFails
    <3> HIDE DEF t
    <3>1. knownFailures' = knownFailures + 1 /\ knownFile' = knownFile /\ Known!OnFile' = Known!OnFile
      BY <2>8 DEF Known!SaveFails, Known!OnFile
    <3> QED
      BY <1>0, <2>3, <2>4, <2>5, <3>1, KnownFails
  <2> QED
    BY <2>3, <2>7, <2>8
<1>2. ASSUME NEW e \in Entries, Known!PutEntry(e)
      PROVE  KnownInv'
  <2> DEFINE t == Owner(e)
             m == Known!Read(t)
  <2>1. t \in knownLoaded /\ m = [cache |-> knownCache, index |-> knownIndex, hits |-> hits]
    BY <1>0, <1>2 DEF Known!PutEntry, Known!GetEntry, Known!Read
  <2>2. Changed(t, m) /\ m.cache \subseteq knownCache \union Known!OnFile
    BY ReadIsChanged
  <2>3. Known!Keep(t, m) /\ knownBorn' = knownBorn /\ deleted' = deleted
    BY <1>2, <2>1 DEF Known!PutEntry, Known!Keep
  <2>4. Known!SaveTenant(t, m) \/ Known!SaveFails
    BY <1>2 DEF Known!PutEntry
  <2> HIDE DEF t, m
  <2>5. m.cache \subseteq knownBorn' /\ knownBorn \subseteq knownBorn' /\ deleted' \subseteq knownBorn'
    BY <1>0, <2>2, <2>3
  <2>6. knownFailures = 0 => m.cache \intersect deleted' = {}
    BY <1>0, <2>2, <2>3
  <2>7. CASE Known!SaveTenant(t, m)
    BY <2>2, <2>3, <2>5, <2>6, <2>7, KnownIsKept
  <2>8. CASE Known!SaveFails
    <3>1. knownFailures' = knownFailures + 1 /\ knownFile' = knownFile /\ Known!OnFile' = Known!OnFile
      BY <2>8 DEF Known!SaveFails, Known!OnFile
    <3> QED
      BY <1>0, <2>2, <2>3, <2>5, <3>1, KnownFails
  <2> QED
    BY <2>4, <2>7, <2>8
<1>3. ASSUME NEW e \in Entries, Known!DeleteEntry(e)
      PROVE  KnownInv'
  <2> DEFINE t == Owner(e)
             m == Known!Read(t)
             n == [m EXCEPT !.cache = @ \ {e}, !.index = @ \ {e}]
  <2>1. Changed(t, m) /\ m.cache \subseteq knownCache \union Known!OnFile
    BY ReadIsChanged
  <2>2. n.cache = m.cache \ {e} /\ n.index = m.index \ {e} /\ n.hits = m.hits
    BY DEF Known!Read
  <2> HIDE DEF m
  <2>3. /\ e \in knownCache /\ knownBorn' = knownBorn /\ Known!Keep(t, n)
        /\ \/ Known!SaveTenant(t, n) /\ deleted' = deleted \union {e}
           \/ Known!SaveFails /\ deleted' = deleted
    BY <1>0, <1>3 DEF Known!DeleteEntry, Known!GetEntry, m
  <2> HIDE DEF n
  <2>4. Changed(t, n)
    BY <2>1, <2>2 DEF Changed
  <2>5. n.cache \subseteq knownBorn' /\ knownBorn \subseteq knownBorn' /\ deleted' \subseteq knownBorn'
    BY <1>0, <2>1, <2>2, <2>3
  <2>6. knownFailures = 0 => /\ n.cache \intersect deleted' = {}
                             /\ \A d \in deleted' : d \in deleted \/ Owner(d) = t
    BY <1>0, <2>1, <2>2, <2>3
  <2>7. CASE Known!SaveTenant(t, n)
    <3> HIDE DEF t
    <3> QED
      BY <2>3, <2>4, <2>5, <2>6, <2>7, KnownIsKept
  <2>8. CASE Known!SaveFails
    <3> HIDE DEF t
    <3>1. knownFailures' = knownFailures + 1 /\ knownFile' = knownFile /\ Known!OnFile' = Known!OnFile
      BY <2>8 DEF Known!SaveFails, Known!OnFile
    <3> QED
      BY <1>0, <2>3, <2>4, <2>5, <3>1, KnownFails
  <2> QED
    BY <2>3, <2>7, <2>8
<1>4. ASSUME NEW t \in Tenants, Known!ListEntries(t)
      PROVE  KnownInv'
  <2> DEFINE m == Known!Read(t)
  <2>1. /\ Changed(t, m) /\ m.cache \subseteq knownCache \union Known!OnFile
        /\ knownFailures = 0 => \A e \in Entries : Owner(e) = t =>
             /\ e \in m.cache <=> e \in Known!OnFile
             /\ e \in m.cache => m.hits[e] = knownFile[e]
    BY ReadIsChanged
  <2>2. Known!Keep(t, m) /\ UNCHANGED <<knownFile, knownBorn, knownFailures, deleted>>
    BY <1>4 DEF Known!ListEntries
  <2> HIDE DEF m
  <2>3. m.cache \subseteq knownBorn' /\ knownBorn \subseteq knownBorn' /\ deleted' \subseteq knownBorn'
    BY <1>0, <2>1, <2>2
  <2>4. knownFailures = 0 => m.cache \intersect deleted' = {}
    BY <1>0, <2>1, <2>2
  <2> QED
    BY <2>1, <2>2, <2>3, <2>4, KnownIsKept
<1>5. ASSUME NEW t \in Tenants, NEW q \in Queries, Known!SearchRoute(t, q)
      PROVE  KnownInv'
  <2> DEFINE m == Known!Read(t)
             found == Known!Search(m, t, q)
             after(n) == [m EXCEPT !.hits = [e \in Entries |->
                            @[e] + IF \E i \in 1..n : found[i] = e THEN 1 ELSE 0]]
  <2>1. /\ Changed(t, m) /\ m.cache \subseteq knownCache \union Known!OnFile
        /\ knownFailures = 0 => \A e \in Entries : Owner(e) = t =>
             /\ e \in m.cache <=> e \in Known!OnFile
             /\ e \in m.cache => m.hits[e] = knownFile[e]
    BY ReadIsChanged
  <2>2. /\ \/ /\ Known!Keep(t, after(Len(found)))
              /\ IF found = <<>> THEN UNCHANGED <<knownFile, knownFailures>>
                 ELSE Known!SaveTenant(t, after(Len(found)))
           \/ \E n \in 1..Len(found) :
                /\ Known!Keep(t, after(n))
                /\ knownFailures' = knownFailures + 1
                /\ knownFile' = IF n = 1 THEN knownFile ELSE Known!Written(t, after(n - 1))
        /\ UNCHANGED <<knownBorn, deleted>>
    BY <1>5 DEF Known!SearchRoute
  <2>3. ASSUME NEW n
        PROVE  /\ after(n).cache = m.cache /\ after(n).index = m.index
               /\ after(n).hits = [e \in Entries |->
                                     m.hits[e] + IF \E i \in 1..n : found[i] = e THEN 1 ELSE 0]
    BY DEF Known!Read
  <2>4. \A i \in 1..Len(found) : Owner(found[i]) = t
    BY <2>1, SearchFindsOwn DEF Changed
  <2>5. Len(found) \in Nat /\ (found = <<>> => Len(found) = 0)
    <3>1. found \in Seq(m.cache)
      BY <2>1, SearchFindsOwn DEF Changed
    <3> HIDE DEF found
    <3> QED
      BY <3>1
  <2> HIDE DEF m, found
  <2>6. ASSUME NEW n \in 0..Len(found)
        PROVE  Changed(t, after(n))
    <3>1. \A e \in Entries : m.hits[e] \in Nat
      BY <2>1 DEF Changed
    <3>2. after(n).hits \in [Entries -> Nat]
      BY <2>3, <3>1
    <3>3. \A e \in Entries : Owner(e) # t => ~\E i \in 1..n : found[i] = e
      BY <2>4, <2>5
    <3>4. \A e \in Entries : Owner(e) # t => after(n).hits[e] = m.hits[e]
      BY <2>3, <3>1, <3>3
    <3> QED
      BY <2>1, <2>3, <3>2, <3>4 DEF Changed
  <2>7. /\ \A n : after(n).cache \subseteq knownBorn'
        /\ knownBorn \subseteq knownBorn' /\ deleted' \subseteq knownBorn'
        /\ knownFailures = 0 => /\ \A n : after(n).cache \intersect deleted' = {}
                                /\ \A d \in deleted' : d \in deleted \/ Owner(d) = t
    BY <1>0, <2>1, <2>2, <2>3
  <2>8. CASE /\ Known!Keep(t, after(Len(found)))
             /\ IF found = <<>> THEN UNCHANGED <<knownFile, knownFailures>>
                ELSE Known!SaveTenant(t, after(Len(found)))
    <3> DEFINE k == after(Len(found))
    <3>0. Len(found) \in 0..Len(found)
      BY <2>5
    <3>1. Changed(t, k)
      BY <3>0, <2>6
    <3>2. CASE found # <<>>
      <4>1. Known!SaveTenant(t, k) /\ Known!Keep(t, k)
        BY <2>8, <3>2
      <4> HIDE DEF k
      <4> QED
        BY <2>7, <3>1, <4>1, KnownIsKept DEF k
    <3>3. CASE found = <<>>
      <4>1. k.cache = m.cache /\ \A e \in Entries : k.hits[e] = m.hits[e]
        <5>1. \A e \in Entries : m.hits[e] \in Nat
          BY <2>1 DEF Changed
        <5> QED
          BY <2>3, <2>5, <3>3, <5>1
      <4>2. Known!Keep(t, k) /\ UNCHANGED <<knownFile, knownFailures>>
        BY <2>8, <3>3
      <4>3. k.cache \subseteq knownBorn' /\ (knownFailures = 0 => k.cache \intersect deleted' = {})
        BY <2>7
      <4> HIDE DEF k
      <4> QED
        BY <2>1, <2>7, <3>1, <4>1, <4>2, <4>3, KnownIsKept
    <3> QED
      BY <3>2, <3>3
  <2>9. ASSUME NEW n \in 1..Len(found), Known!Keep(t, after(n)),
               knownFailures' = knownFailures + 1,
               knownFile' = IF n = 1 THEN knownFile ELSE Known!Written(t, after(n - 1))
        PROVE  KnownInv'
    <3>0. n \in 0..Len(found) /\ n - 1 \in 0..Len(found)
      BY <2>5
    <3>1. Changed(t, after(n)) /\ Changed(t, after(n - 1))
      BY <3>0, <2>6
    <3>2. knownFile' \in [Entries -> Int]
          /\ \A e \in Entries : knownFile'[e] >= 0 => e \in Known!OnFile \/ e \in after(n - 1).cache
      BY <1>0, <2>9, <3>1 DEF Known!Written, Changed, Known!OnFile
    <3>3. Known!OnFile' \subseteq knownBorn'
      BY <1>0, <2>7, <3>2 DEF Known!OnFile
    <3> DEFINE k == after(n)
    <3>4. k.cache \subseteq knownBorn' /\ Changed(t, k) /\ Known!Keep(t, k)
      BY <2>7, <2>9, <3>1
    <3> HIDE DEF k
    <3> QED
      BY <2>7, <2>9, <3>2, <3>3, <3>4, KnownFails
  <2> QED
    BY <2>2, <2>8, <2>9
<1>6. ASSUME NEW t \in Tenants, Known!ClearTenant(t)
      PROVE  KnownInv'
  <2> USE DEF KnownInv, Known!NamesLeadToEntries, Known!Of
  <2>1. /\ knownCache' = {e \in knownCache : Owner(e) # t} /\ knownIndex' = knownCache'
        /\ knownLoaded' = knownLoaded \ {t} /\ hits' = hits /\ knownBorn' = knownBorn
    BY <1>6 DEF Known!ClearTenant
  <2>2. \A e \in knownCache' : Owner(e) \in knownLoaded'
    BY <2>1
  <2>3. CASE /\ knownFile' = [e \in Entries |-> IF Owner(e) = t THEN -1 ELSE knownFile[e]]
             /\ deleted' = deleted \union {e \in Known!OnFile : Owner(e) = t}
             /\ UNCHANGED knownFailures
    <3>1. knownFile' \in [Entries -> Int]
      BY <2>3
    <3>2. Known!OnFile' = {e \in Known!OnFile : Owner(e) # t}
      BY <2>3 DEF Known!OnFile
    <3>3. knownCache' \union Known!OnFile' \union deleted' \subseteq knownBorn'
      BY <2>1, <2>3, <3>2
    <3>4. knownFailures' = 0 => \A e \in knownCache' : hits'[e] = knownFile'[e]
      BY <2>1, <2>3
    <3>5. knownFailures' = 0 => (knownCache' \union Known!OnFile') \intersect deleted' = {}
      BY <2>1, <2>3, <3>2
    <3>6. knownFailures' = 0 => \A u \in knownLoaded' :
            {e \in knownCache' : Owner(e) = u} = {e \in Known!OnFile' : Owner(e) = u}
      <4> SUFFICES ASSUME knownFailures = 0, NEW u \in knownLoaded, u # t
                   PROVE {e \in knownCache' : Owner(e) = u} = {e \in Known!OnFile' : Owner(e) = u}
        BY <2>1, <2>3
      <4>1. {e \in knownCache : Owner(e) = u} = {e \in Known!OnFile : Owner(e) = u}
        OBVIOUS
      <4> QED
        BY <2>1, <3>2, <4>1
    <3> QED
      BY <2>1, <2>2, <2>3, <3>1, <3>3, <3>4, <3>5, <3>6
  <2>4. CASE Known!SaveFails /\ UNCHANGED deleted
    <3>1. knownFailures' = knownFailures + 1 /\ knownFile' = knownFile /\ Known!OnFile' = Known!OnFile
      BY <2>4 DEF Known!SaveFails, Known!OnFile
    <3> QED
      BY <2>1, <2>2, <2>4, <3>1
  <2> QED
    BY <1>6, <2>3, <2>4 DEF Known!ClearTenant
<1>7. CASE Known!Restart
  <2>1. /\ knownCache' = {} /\ knownIndex' = {} /\ knownLoaded' = {} /\ hits' \in [Entries -> Nat]
        /\ UNCHANGED <<knownFile, knownBorn, knownFailures, deleted>> /\ Known!OnFile' = Known!OnFile
    BY <1>7 DEF Known!Restart, Known!OnFile
  <2> QED
    BY <2>1 DEF KnownInv, Known!NamesLeadToEntries, Known!Of
<1>8. CASE UNCHANGED knownVars
  BY <1>8 DEF knownVars, KnownInv, Known!NamesLeadToEntries, Known!Of, Known!OnFile
<1> QED
  BY <1>1, <1>2, <1>3, <1>4, <1>5, <1>6, <1>7, <1>8 DEF KnownStep, Known!Next

LEMMA LiveSearchShowsBest ==
  ASSUME EntriesAreKnown, KnownInv
  PROVE  Known!LiveSearchIsBest
<1> SUFFICES ASSUME NEW t \in Tenants, NEW q \in Queries
             PROVE  LET shown == Known!Range(Known!LiveSearch(t, q))
                    IN  /\ \A e \in shown : Owner(e) = t /\ (Title(e) \union Body(e)) \intersect q # {}
                        /\ \A e \in Known!Of(t, Known!Read(t).cache) \ shown :
                             Known!Cardinality(shown) = TopN =>
                               \A o \in shown : Known!Weight(o, q) >= Known!Weight(e, q)
  BY DEF Known!LiveSearchIsBest
<1> DEFINE all == Known!Of(t, Known!Read(t).cache)
           found == {e \in all : q # {} /\ 10 * Known!Weight(e, q) >= 2 * Known!Cardinality(q)}
           sc == [e \in found |-> Known!Weight(e, q)]
           list == Known!LiveSearch(t, q)
<1>1. \A S : Known!Cardinality(S) = Cardinality(S)
  BY DEF Known!Cardinality, Cardinality
<1>2. IsFiniteSet(q) /\ Known!Cardinality(q) \in Nat /\ (q # {} => Known!Cardinality(q) > 0)
  BY <1>1, FS_CardinalityType, FS_EmptySet DEF EntriesAreKnown
<1>3. ASSUME NEW e
      PROVE  /\ Known!Weight(e, q) \in Nat
             /\ Known!Weight(e, q) > 0 => (Title(e) \union Body(e)) \intersect q # {}
  <2> DEFINE A == q \intersect Title(e)
             B == (q \intersect Body(e)) \ Title(e)
  <2>1. IsFiniteSet(A) /\ IsFiniteSet(B)
    BY <1>2, FS_Subset
  <2>2. /\ Known!Cardinality(A) \in Nat /\ Known!Cardinality(B) \in Nat
        /\ (A = {} => Known!Cardinality(A) = 0) /\ (B = {} => Known!Cardinality(B) = 0)
    BY <1>1, <2>1, FS_CardinalityType, FS_EmptySet
  <2>3. Known!Weight(e, q) = 2 * Known!Cardinality(A) + Known!Cardinality(B)
    BY DEF Known!Weight
  <2>4. A # {} \/ B # {} => (Title(e) \union Body(e)) \intersect q # {}
    OBVIOUS
  <2> HIDE DEF A, B
  <2> QED
    BY <2>2, <2>3, <2>4
<1>4. all \subseteq Entries /\ \A e \in all : Owner(e) = t
  <2>1. Known!Read(t).cache \subseteq Entries
    BY ReadIsChanged DEF Changed
  <2> QED
    BY <2>1 DEF Known!Of
<1>5. Scored(found, sc)
  <2>1. found \subseteq Entries
    BY <1>4
  <2>2. IsFiniteSet(found)
    BY <2>1, FS_Subset DEF EntriesAreKnown
  <2>3. \A e \in found : sc[e] \in Int
    BY <1>3
  <2> HIDE DEF found, sc
  <2> QED
    BY <2>1, <2>2, <2>3 DEF Scored, EntriesAreKnown
<1>6. list = Slice(Ranked(found, MostFirst(found, sc)), TopN)
  BY DEF Known!LiveSearch, Known!Slice, Slice, Known!Ranked, Ranked, Known!MostFirst, MostFirst,
    Known!Cardinality, Cardinality
<1>7. \A e \in found : e \in all /\ sc[e] = Known!Weight(e, q) /\ Known!Weight(e, q) > 0
  <2> SUFFICES ASSUME NEW e \in found PROVE Known!Weight(e, q) > 0
    OBVIOUS
  <2>1. q # {} /\ 10 * Known!Weight(e, q) >= 2 * Known!Cardinality(q) /\ Known!Weight(e, q) \in Nat
    BY <1>3
  <2> HIDE DEF found
  <2> QED
    BY <1>2, <2>1
<1>8. \A e \in all : e \in found \/ (q # {} => 10 * Known!Weight(e, q) < 2 * Known!Cardinality(q))
  <2> SUFFICES ASSUME NEW e \in all, e \notin found, q # {}
               PROVE  10 * Known!Weight(e, q) < 2 * Known!Cardinality(q)
    OBVIOUS
  <2>1. ~(10 * Known!Weight(e, q) >= 2 * Known!Cardinality(q)) /\ Known!Weight(e, q) \in Nat
    BY <1>3
  <2> HIDE DEF found, all
  <2> QED
    BY <1>2, <2>1
<1>9. \A e \in found : q # {} /\ 10 * Known!Weight(e, q) >= 2 * Known!Cardinality(q)
  OBVIOUS
<1> HIDE DEF all, found, sc, list
<1>10. FirstOf(list, found, sc, TopN)
  BY <1>5, <1>6, FirstHaveMost DEF EntriesAreKnown
<1> DEFINE shown == Known!Range(list)
<1>11. shown \subseteq found /\ \A e \in shown : \E i \in DOMAIN list : list[i] = e
  BY <1>10 DEF FirstOf, Known!Range
<1>12. ASSUME NEW e \in all \ shown, NEW o \in shown
       PROVE  Known!Weight(o, q) >= Known!Weight(e, q)
  <2>1. o \in found /\ Known!Weight(o, q) \in Nat /\ Known!Weight(e, q) \in Nat
    BY <1>3, <1>11
  <2>2. CASE e \in found
    <3>1. \A i \in DOMAIN list : list[i] # e
      BY DEF Known!Range
    <3>2. \A i \in DOMAIN list : sc[list[i]] >= sc[e]
      BY <1>10, <2>2, <3>1 DEF FirstOf
    <3>3. sc[o] >= sc[e]
      BY <1>11, <3>2
    <3> QED
      BY <1>7, <2>1, <2>2, <3>3
  <2>3. CASE e \notin found
    <3>1. 10 * Known!Weight(e, q) < 2 * Known!Cardinality(q)
      BY <1>8, <1>9, <2>1, <2>3
    <3>2. 10 * Known!Weight(o, q) >= 2 * Known!Cardinality(q)
      BY <1>9, <2>1
    <3> QED
      BY <1>2, <2>1, <3>1, <3>2
  <2> QED
    BY <2>2, <2>3
<1>13. \A e \in shown : Owner(e) = t /\ (Title(e) \union Body(e)) \intersect q # {}
  BY <1>3, <1>4, <1>7, <1>11
<1> QED
  BY <1>12, <1>13 DEF all, list

\* What is said is said by somebody.
LEMMA FaqsComeFirst ==
  ASSUME NEW W, Transcripts \subseteq Seq(W \X W), MaxFaqs \in Nat
  PROVE  Known!FaqsAreFirst
<1> SUFFICES ASSUME NEW talk \in Transcripts
             PROVE  LET faqs == Known!Extract(talk)
                        said == {i \in DOMAIN talk : talk[i][1] = "user" /\ talk[i][2] \in Questions}
                        alike(i, j) == Opening(talk[i][2]) = Opening(talk[j][2])
                    IN  \E at \in [DOMAIN faqs -> said] :
                          /\ \A n, m \in DOMAIN faqs : n < m => at[n] < at[m]
                          /\ \A n \in DOMAIN faqs :
                               /\ talk[at[n]][2] = faqs[n][1]
                               /\ \A i \in said : alike(i, at[n]) => at[n] <= i
                               /\ \E j \in at[n]..Len(talk) :
                                    /\ faqs[n][2] # "" => talk[j] = <<"assistant", faqs[n][2]>>
                                    /\ \A k \in (at[n] + 1)..(j - 1) : talk[k][1] # "assistant"
                          /\ \A i \in said :
                               \/ \E n \in DOMAIN faqs : alike(i, at[n])
                               \/ Len(faqs) >= MaxFaqs /\ \A n \in DOMAIN faqs : at[n] < i
  BY DEF Known!FaqsAreFirst
<1> DEFINE later(i) == {j \in DOMAIN talk : j > i /\ talk[j][1] = "assistant"}
           answer(i) == IF later(i) = {} THEN "" ELSE talk[Known!Min(later(i))][2]
           asked(i) == talk[i][1] = "user" /\ talk[i][2] \in Questions
           first(i) == asked(i) /\ \A j \in 1..(i - 1) :
                                     asked(j) => Opening(talk[j][2]) # Opening(talk[i][2])
           firsts == {i \in DOMAIN talk : first(i)}
           taken == Known!Slice(Known!Ranked(firsts, Known!Ascending(firsts)), MaxFaqs)
           faqs == Known!Extract(talk)
<1>1. faqs = [n \in DOMAIN taken |-> <<talk[taken[n]][2], answer(taken[n])>>]
  BY DEF Known!Extract
<1>2. /\ talk \in Seq(W \X W) /\ Len(talk) \in Nat /\ DOMAIN talk = 1..Len(talk)
      /\ \A i \in 1..Len(talk) : talk[i] = <<talk[i][1], talk[i][2]>>
  <2>1. talk \in Seq(W \X W)
    OBVIOUS
  <2>2. \A i \in 1..Len(talk) : talk[i] \in W \X W
    BY <2>1, ElementOfSeq
  <2> QED
    BY <2>1, <2>2, LenProperties
<1> HIDE DEF faqs
<1>3. /\ taken \in Seq(firsts)
      /\ \A i \in DOMAIN taken : taken[i] \in firsts
      /\ \A i, j \in DOMAIN taken : i < j => taken[i] < taken[j]
      /\ \A x \in firsts : (\A i \in DOMAIN taken : taken[i] # x) =>
           Len(taken) >= MaxFaqs /\ \A i \in DOMAIN taken : taken[i] < x
  <2>1. firsts \subseteq 1..Len(talk)
    BY <1>2
  <2>2. firsts \subseteq Int /\ IsFiniteSet(firsts)
    <3>1. IsFiniteSet(1..Len(talk)) /\ 1..Len(talk) \subseteq Int
      BY <1>2, FS_Interval
    <3> HIDE DEF firsts
    <3> QED
      BY <2>1, <3>1, FS_Subset
  <2>3. taken = Slice(Ranked(firsts, Ascending(firsts)), MaxFaqs)
    BY DEF Known!Slice, Slice, Known!Ranked, Ranked, Known!Ascending, Ascending,
      Known!Cardinality, Cardinality
  <2> HIDE DEF firsts, taken
  <2>4. StrictOrder(firsts, Ascending(firsts))
    BY <2>2, AscendingOrders
  <2> DEFINE R == Ascending(firsts)
  <2>8. \A x, y : <<x, y>> \in R => x < y
    BY DEF Ascending
  <2> HIDE DEF R
  <2>5. taken = Slice(Ranked(firsts, R), MaxFaqs) /\ StrictOrder(firsts, R)
    BY <2>3, <2>4 DEF R
  <2>6. MaxFaqs \in Nat
    OBVIOUS
  <2>7. /\ taken \in Seq(firsts)
        /\ \A i \in DOMAIN taken : taken[i] \in firsts
        /\ \A i, j \in DOMAIN taken : taken[i] = taken[j] => i = j
        /\ \A i, j \in DOMAIN taken : i < j => <<taken[i], taken[j]>> \in R
        /\ \A x \in firsts : (\A i \in DOMAIN taken : taken[i] # x) =>
             Len(taken) >= MaxFaqs /\ \A i \in DOMAIN taken : <<taken[i], x>> \in R
    BY ONLY <2>2, <2>5, <2>6, SliceOfRanking
  <2> QED
    BY <2>7, <2>8
<1>4. \A i : i \in firsts <=> i \in 1..Len(talk) /\ first(i)
  BY <1>2
<1> HIDE DEF firsts, taken
<1>5. Len(taken) \in Nat /\ DOMAIN taken = 1..Len(taken) /\ DOMAIN faqs = 1..Len(taken)
      /\ Len(faqs) = Len(taken)
  <2>1. Len(taken) \in Nat /\ DOMAIN taken = 1..Len(taken)
    BY <1>3, LenProperties
  <2>2. DOMAIN faqs = 1..Len(taken)
    BY <1>1, <2>1
  <2>3. faqs \in [1..Len(taken) -> {faqs[n] : n \in 1..Len(taken)}]
    BY <1>1, <2>1
  <2>4. Len(faqs) = Len(taken)
    BY <2>1, <2>3, IsASeq, LenProperties
  <2> QED
    BY <2>1, <2>2, <2>4
<1> DEFINE l == Len(talk)
           k == Len(taken)
           text(i) == talk[i][2]
           open(i) == Opening(talk[i][2])
           said == {i \in DOMAIN talk : talk[i][1] = "user" /\ talk[i][2] \in Questions}
<1>6. /\ l \in Nat /\ DOMAIN talk = 1..l /\ k \in Nat /\ DOMAIN taken = 1..k /\ DOMAIN faqs = 1..k
      /\ Len(faqs) = k
  BY <1>2, <1>5
<1>7. \A i : first(i) <=> asked(i) /\ \A j \in 1..(i - 1) : asked(j) => open(j) # open(i)
  OBVIOUS
<1>8. /\ \A i \in 1..l : talk[i] = <<talk[i][1], text(i)>>
      /\ \A i : i \in said <=> i \in 1..l /\ asked(i)
  BY <1>2
<1>9. \A i, j : j \in later(i) <=> j \in 1..l /\ j > i /\ talk[j][1] = "assistant"
  BY <1>2
<1>10. \A i : /\ later(i) = {} => answer(i) = ""
              /\ later(i) # {} => answer(i) = text(Known!Min(later(i)))
  OBVIOUS
<1>11. \A n \in 1..k : faqs[n][1] = text(taken[n]) /\ faqs[n][2] = answer(taken[n])
  <2> SUFFICES ASSUME NEW n \in 1..k
               PROVE  faqs[n][1] = text(taken[n]) /\ faqs[n][2] = answer(taken[n])
    OBVIOUS
  <2>1. n \in DOMAIN taken
    BY <1>5
  <2> HIDE DEF answer, k
  <2>2. faqs[n] = <<talk[taken[n]][2], answer(taken[n])>>
    BY <1>1, <2>1
  <2> QED
    BY <2>2
<1> HIDE DEF first
<1>12. \A n \in 1..k : taken[n] \in 1..l /\ first(taken[n]) /\ asked(taken[n])
  BY <1>3, <1>4, <1>5, <1>7
<1>13. /\ \A n, m \in 1..k : n < m => taken[n] < taken[m]
       /\ \A i \in 1..l : first(i) /\ (\A n \in 1..k : taken[n] # i) =>
            k >= MaxFaqs /\ \A n \in 1..k : taken[n] < i
  BY <1>3, <1>4, <1>5
<1>14. taken \in [1..k -> said]
  BY <1>3, <1>6, <1>8, <1>12, LenProperties
<1>15. \A n \in 1..k : talk[taken[n]][2] = faqs[n][1]
  BY <1>11
<1> HIDE DEF l, k, text, open, asked, later, answer, said
<1>16. ASSUME NEW n \in 1..k, NEW i \in said, open(i) = open(taken[n])
       PROVE  taken[n] <= i
  <2> DEFINE j == taken[n]
  <2>1. i \in 1..l /\ asked(i) /\ j \in 1..l /\ first(j) /\ open(i) = open(j)
    BY <1>8, <1>12, <1>16
  <2> HIDE DEF j
  <2>2. ~(i \in 1..(j - 1))
    BY <1>7, <2>1
  <2>3. j <= i
    BY <1>6, <2>1, <2>2
  <2> QED
    BY <2>3 DEF j
<1>17. ASSUME NEW n \in 1..k
       PROVE  \E j \in taken[n]..l :
                /\ faqs[n][2] # "" => talk[j] = <<"assistant", faqs[n][2]>>
                /\ \A m \in (taken[n] + 1)..(j - 1) : talk[m][1] # "assistant"
  <2> DEFINE i == taken[n]
             L == later(i)
  <2>1. i \in 1..l /\ faqs[n][2] = answer(i)
    BY <1>11, <1>12
  <2>2. /\ \A j : j \in L <=> j \in 1..l /\ j > i /\ talk[j][1] = "assistant"
        /\ (L = {} => answer(i) = "") /\ (L # {} => answer(i) = text(Known!Min(L)))
    BY <1>9, <1>10
  <2> SUFFICES \E j \in i..l :
                 /\ faqs[n][2] # "" => talk[j] = <<"assistant", faqs[n][2]>>
                 /\ \A m \in (i + 1)..(j - 1) : talk[m][1] # "assistant"
    OBVIOUS
  <2> HIDE DEF i, L
  <2>4. CASE L = {}
    <3>1. faqs[n][2] = ""
      BY <2>1, <2>2, <2>4
    <3>2. i \in Int /\ l \in Int /\ i <= l
      BY <1>6, <2>1
    <3>3. i \in i..l /\ \A m \in (i + 1)..(i - 1) : FALSE
      BY <3>2
    <3> QED
      BY <3>1, <3>3
  <2>5. CASE L # {}
    <3> DEFINE j == Known!Min(L)
    <3>a. l \in Nat
      BY <1>6
    <3>b. 1..l \subseteq Nat
      BY <3>a
    <3>0. 1..l \subseteq Nat /\ \A y \in L : y \in 1..l
      BY <2>2, <3>b
    <3>1. L \subseteq Nat
      BY <3>0
    <3>2. \E x \in L : \A y \in L : x <= y
      BY <2>5, <3>1, LeastNumber
    <3>3. j \in L /\ \A y \in L : j <= y
      BY <3>2 DEF Known!Min
    <3>4. faqs[n][2] = text(j)
      BY <2>1, <2>2, <2>5
    <3> HIDE DEF j
    <3>5. j \in 1..l /\ j > i /\ talk[j][1] = "assistant"
      BY <2>2, <3>3
    <3>6. j \in i..l
      BY <1>6, <2>1, <3>5
    <3>7. talk[j] = <<"assistant", faqs[n][2]>>
      BY <1>8, <3>4, <3>5
    <3>8. \A m \in (i + 1)..(j - 1) : talk[m][1] # "assistant"
      <4> SUFFICES ASSUME NEW m \in (i + 1)..(j - 1), talk[m][1] = "assistant" PROVE FALSE
        OBVIOUS
      <4>1. m \in 1..l /\ m > i /\ m < j
        BY <1>6, <2>1, <3>5
      <4>2. m \in L
        BY <2>2, <4>1
      <4> QED
        BY <3>3, <3>5, <4>1, <4>2
    <3> QED
      BY <3>6, <3>7, <3>8
  <2> QED
    BY <2>4, <2>5
<1>18. ASSUME NEW i \in said
       PROVE  \/ \E n \in 1..k : open(i) = open(taken[n])
              \/ k >= MaxFaqs /\ \A n \in 1..k : taken[n] < i
  <2>0. i \in 1..l /\ asked(i)
    BY <1>8
  <2> DEFINE same == {m \in 1..l : asked(m) /\ open(m) = open(i)}
  <2>1. same \subseteq Nat /\ i \in same
    BY <1>6, <2>0
  <2>2. \A m : m \in same <=> m \in 1..l /\ asked(m) /\ open(m) = open(i)
    OBVIOUS
  <2> HIDE DEF same
  <2>3. PICK j \in same : \A m \in same : j <= m
    BY <2>1, LeastNumber
  <2>4. j \in 1..l /\ asked(j) /\ open(j) = open(i) /\ j <= i
    BY <2>1, <2>2, <2>3
  <2>5. \A m \in 1..(j - 1) : asked(m) => open(m) # open(j)
    <3> SUFFICES ASSUME NEW m \in 1..(j - 1), asked(m), open(m) = open(j) PROVE FALSE
      OBVIOUS
    <3>1. m \in 1..l /\ m < j
      BY <1>6, <2>4
    <3>2. m \in same
      BY <2>2, <2>4, <3>1
    <3>3. j <= m
      BY <2>3, <3>2
    <3> QED
      BY <1>6, <2>4, <3>1, <3>3
  <2>6. first(j)
    BY <1>7, <2>4, <2>5
  <2>7. CASE \E n \in 1..k : taken[n] = j
    BY <2>4, <2>7
  <2>8. CASE ~(\E n \in 1..k : taken[n] = j)
    <3>1. k >= MaxFaqs /\ \A n \in 1..k : taken[n] < j
      BY <1>13, <2>4, <2>6, <2>8
    <3>2. ASSUME NEW n \in 1..k PROVE taken[n] < i
      <4>1. taken[n] \in Int /\ j \in Int /\ i \in Int
        BY <1>6, <1>12, <2>0, <2>4
      <4> QED
        BY <2>4, <3>1, <4>1
    <3> QED
      BY <3>1, <3>2
  <2> QED
    BY <2>7, <2>8
<1>19. /\ taken \in [DOMAIN faqs -> said]
       /\ \A n, m \in DOMAIN faqs : n < m => taken[n] < taken[m]
       /\ \A n \in DOMAIN faqs :
            /\ talk[taken[n]][2] = faqs[n][1]
            /\ \A i \in said : open(i) = open(taken[n]) => taken[n] <= i
            /\ \E j \in taken[n]..l :
                 /\ faqs[n][2] # "" => talk[j] = <<"assistant", faqs[n][2]>>
                 /\ \A m \in (taken[n] + 1)..(j - 1) : talk[m][1] # "assistant"
       /\ \A i \in said :
            \/ \E n \in DOMAIN faqs : open(i) = open(taken[n])
            \/ Len(faqs) >= MaxFaqs /\ \A n \in DOMAIN faqs : taken[n] < i
  BY <1>6, <1>13, <1>14, <1>15, <1>16, <1>17, <1>18
<1> QED
  BY <1>19 DEF faqs, l, open, said

LEMMA KnowledgeIsSound ==
  ASSUME EntriesAreKnown, MaxFaqs \in Nat, NEW W, Transcripts \subseteq Seq(W \X W), KnownInv
  PROVE  Known!KnowledgeSound
BY LiveSearchShowsBest, FaqsComeFirst DEF KnownInv, Known!KnowledgeSound

-----------------------------------------------------------------------------
(* Routes: rules, phone menus and intents.                                    *)

RouteStep == [Route!Next]_routeVars

RuleSet(W) ==
  [tenant : W, priority : Int, topic : W, from : Int, till : Int, cap : SUBSET Int, target : W,
   active : BOOLEAN]

\* A menu has a root; nobody looks whether it is one of the nodes.
MenuSet(W) == [root : W \ {Nowhere}, nodes : W]

\* Every text has a number of hits for each intent, and there is an intent.
IntentsAreCounted(W) ==
  /\ Intents \in Seq(W) /\ Intents # <<>>
  /\ \A t \in Texts : \A i \in Route!Range(Intents) : t.hits[i] \in Nat

RouteGiven(W) ==
  /\ Rules \subseteq RuleSet(W)
  /\ Menus \subseteq MenuSet(W)
  /\ IntentsAreCounted(W)

\* Nobody is in a menu that is not there; a log names an intent, and a scope.
RouteInv(W) ==
  /\ rules \in Seq(RuleSet(W))
  /\ menu \in MenuSet(W) \union {Route!NoMenu}
  /\ menu = Route!NoMenu => routeAt = Nowhere
  /\ Route!WalkStaysInMenu
  /\ mapping \in [Route!Scopes \X Route!AllIntents -> Templates \union {NoTemplate}]
  /\ logs \in Seq([tenant : Route!Scopes, intent : Route!AllIntents])

LEMMA ClassifyNamesIntent ==
  ASSUME NEW W, IntentsAreCounted(W), NEW t \in Texts
  PROVE  Route!Classify(t) \in Route!AllIntents
<1> DEFINE S == Route!Range(Intents)
           most(a) == \A b \in S : t.hits[b] <= t.hits[a]
           I == {i \in 1..Len(Intents) : most(Intents[i])}
           best == Route!SelectInSeq(Intents, most)
<1>1. /\ Intents \in Seq(W) /\ Len(Intents) \in Nat /\ Len(Intents) > 0
      /\ DOMAIN Intents = 1..Len(Intents)
  BY EmptySeq, LenProperties DEF IntentsAreCounted
<1>2. S = {Intents[i] : i \in 1..Len(Intents)}
  BY <1>1 DEF Route!Range
<1>3. IsFiniteSet(S) /\ S # {}
  <2>1. IsFiniteSet(1..Len(Intents))
    BY <1>1, FS_Interval
  <2> DEFINE f == [i \in 1..Len(Intents) |-> Intents[i]]
  <2>4. f \in Surjection(1..Len(Intents), S)
    BY <1>2 DEF Surjection
  <2>2. IsFiniteSet(S)
    BY <2>1, <2>4, FS_Surjection
  <2>3. 1 \in 1..Len(Intents)
    BY <1>1
  <2> QED
    BY <1>2, <2>2, <2>3
<1>4. Summed(t.hits, S)
  BY <1>3 DEF Summed, IntentsAreCounted
<1>5. \E a \in S : \A b \in S : t.hits[b] <= t.hits[a]
  BY <1>3, <1>4, SomeHasMost
<1>6. I # {} /\ I \subseteq Nat
  BY <1>1, <1>2, <1>5
<1>7. best = Route!Min(I)
  BY <1>6 DEF Route!SelectInSeq
<1>8. Route!Min(I) \in I
  <2> HIDE DEF I
  <2>1. \E n \in I : \A m \in I : n <= m
    BY <1>6, LeastNumber
  <2> QED
    BY <2>1 DEF Route!Min
<1>9. Intents[best] \in S
  BY <1>2, <1>7, <1>8
<1>10. Route!Classify(t) = "general" \/ Route!Classify(t) = Intents[best]
  BY DEF Route!Classify
<1> QED
  BY <1>9, <1>10 DEF Route!AllIntents

LEMMA RoutesBegin ==
  ASSUME NEW W, Route!Init PROVE RouteInv(W)
<1>1. rules = <<>> /\ logs = <<>> /\ routeAt = Nowhere
  BY DEF Route!Init
<1>2. rules \in Seq(RuleSet(W)) /\ logs \in Seq([tenant : Route!Scopes, intent : Route!AllIntents])
  BY <1>1, EmptySeq
<1> QED
  BY <1>1, <1>2 DEF RouteInv, Route!Init, Route!WalkStaysInMenu

LEMMA RuleStepKeeps ==
  ASSUME NEW W, RouteGiven(W), RouteInv(W), Route!RulesNext
  PROVE  RouteInv(W)'
<1> DEFINE R == RuleSet(W)
<1>1. rules \in Seq(R) /\ Len(rules) \in Nat /\ DOMAIN rules = 1..Len(rules)
  BY LenProperties DEF RouteInv
<1>2. rules' \in Seq(R) => RouteInv(W)'
  BY DEF RouteInv, Route!RulesNext, Route!PostRule, Route!PutRule, Route!DeleteRule,
    Route!WalkStaysInMenu, Route!ProcessInput
<1>3. ASSUME NEW r \in Rules, Route!PostRule(r) PROVE rules' \in Seq(R)
  <2>1. r \in R /\ rules' = Append(rules, r)
    BY <1>3 DEF RouteGiven, Route!PostRule
  <2> HIDE DEF R
  <2> QED
    BY <1>1, <2>1, AppendProperties
<1>4. ASSUME NEW r \in Rules, NEW i \in DOMAIN rules, Route!PutRule(i, r)
      PROVE  rules' \in Seq(R)
  <2>1. r \in R /\ i \in 1..Len(rules) /\ rules[i] \in R
    BY <1>1, ElementOfSeq DEF RouteGiven
  <2> DEFINE a == [rules[i] EXCEPT !.tenant = r.tenant]
             b == [rules[i] EXCEPT !.active = r.active]
  <2>2. a \in R
    BY <2>1 DEF RuleSet
  <2>3. b \in R
    BY <2>1 DEF RuleSet
  <2>4. \/ rules' = [rules EXCEPT ![i] = r]
        \/ rules' = [rules EXCEPT ![i] = a]
        \/ rules' = [rules EXCEPT ![i] = b]
    BY <1>4 DEF Route!PutRule
  <2> HIDE DEF a, b, R
  <2> QED
    BY <1>1, <2>1, <2>2, <2>3, <2>4, ExceptSeq
<1>5. ASSUME NEW i \in DOMAIN rules, Route!DeleteRule(i) PROVE rules' \in Seq(R)
  <2>1. rules' = SubSeq(rules, 1, i - 1) \o SubSeq(rules, i + 1, Len(rules))
    BY <1>5 DEF Route!DeleteRule, Route!RemoveAt
  <2>2. i \in 1..Len(rules) /\ i \in Int
    BY <1>1
  <2> HIDE DEF R
  <2>3. \A j \in 1..Len(rules) : rules[j] \in R
    BY <1>1, ElementOfSeq
  <2>4. /\ \A j \in 1..(i - 1) : rules[j] \in R
        /\ \A j \in (i + 1)..Len(rules) : rules[j] \in R
    BY <1>1, <2>2, <2>3
  <2>5. SubSeq(rules, 1, i - 1) \in Seq(R)
    BY <2>2, <2>4, SubSeqProperties
  <2>6. SubSeq(rules, i + 1, Len(rules)) \in Seq(R)
    BY <1>1, <2>2, <2>4, SubSeqProperties
  <2> QED
    BY <2>1, <2>5, <2>6, ConcatProperties
<1> QED
  BY <1>2, <1>3, <1>4, <1>5 DEF Route!RulesNext

LEMMA MenuStepKeeps ==
  ASSUME NEW W, RouteGiven(W), RouteInv(W), Route!MenusNext
  PROVE  RouteInv(W)'
<1> DEFINE Goal == /\ menu' \in MenuSet(W) \union {Route!NoMenu}
                   /\ menu' = Route!NoMenu => routeAt' = Nowhere
                   /\ (routeAt' # Nowhere /\ ~strayed') =>
                        \/ routeAt' = menu'.root
                        \/ \E n \in DOMAIN menu'.nodes, d \in Digits :
                             Route!ProcessInput(n, d)' = routeAt'
<1>1. /\ menu \in MenuSet(W) \union {Route!NoMenu}
      /\ menu = Route!NoMenu => routeAt = Nowhere
      /\ Route!WalkStaysInMenu
  BY DEF RouteInv
<1>2. Goal => RouteInv(W)'
  BY DEF RouteInv, Route!MenusNext, Route!PostMenu, Route!PutMenu, Route!DeleteMenu,
    Route!Enter, Route!Press, Route!WalkStaysInMenu, Route!Scopes, Route!AllIntents
<1>3. ASSUME NEW m \in Menus, Route!PostMenu(m) PROVE Goal
  BY <1>1, <1>3 DEF Route!PostMenu, RouteGiven, MenuSet, Route!NoMenu
<1>4. ASSUME NEW m \in Menus, Route!PutMenu(m) PROVE Goal
  <2>1. menu \in MenuSet(W) /\ m \in MenuSet(W)
    BY <1>1, <1>4 DEF Route!PutMenu, RouteGiven
  <2>2. [menu EXCEPT !.nodes = m.nodes] \in MenuSet(W)
    BY <2>1 DEF MenuSet
  <2>3. [menu EXCEPT !.root = m.root] \in MenuSet(W)
    BY <2>1 DEF MenuSet
  <2>4. menu' \in MenuSet(W) /\ strayed' = (routeAt # Nowhere) /\ routeAt' = routeAt
    BY <1>4, <2>1, <2>2, <2>3 DEF Route!PutMenu
  <2>5. menu' # Route!NoMenu
    BY <2>4 DEF MenuSet, Route!NoMenu
  <2> QED
    BY <2>4, <2>5
<1>5. ASSUME Route!DeleteMenu PROVE Goal
  BY <1>5 DEF Route!DeleteMenu
<1>6. ASSUME Route!Enter PROVE Goal
  BY <1>1, <1>6 DEF Route!Enter
<1>7. ASSUME NEW d \in Digits, Route!Press(d) PROVE Goal
  <2>1. /\ routeAt' = Route!ProcessInput(routeAt, d) /\ routeAt' # Nowhere
        /\ menu' = menu /\ menu # Route!NoMenu
    BY <1>1, <1>7 DEF Route!Press
  <2>2. routeAt \in DOMAIN menu.nodes
    BY <2>1 DEF Route!ProcessInput
  <2>3. Route!ProcessInput(routeAt, d) = IF routeAt \notin DOMAIN menu'.nodes THEN Nowhere
            ELSE IF d \in DOMAIN menu'.nodes[routeAt]
                    /\ menu'.nodes[routeAt][d] \in DOMAIN menu'.nodes
                 THEN menu'.nodes[routeAt][d] ELSE Nowhere
    BY <2>1 DEF Route!ProcessInput
  <2> QED
    BY <1>1, <2>1, <2>2, <2>3 DEF Route!ProcessInput
<1> QED
  BY <1>2, <1>3, <1>4, <1>5, <1>6, <1>7 DEF Route!MenusNext

LEMMA IntentStepKeeps ==
  ASSUME NEW W, RouteGiven(W), RouteInv(W), Route!IntentsNext
  PROVE  RouteInv(W)'
<1> DEFINE L == [tenant : Route!Scopes, intent : Route!AllIntents]
           M == [Route!Scopes \X Route!AllIntents -> Templates \union {NoTemplate}]
<1>1. mapping \in M /\ logs \in Seq(L)
  BY DEF RouteInv
<1>2. mapping' \in M /\ logs' \in Seq(L) => RouteInv(W)'
  BY DEF RouteInv, Route!IntentsNext, Route!PostDetect, Route!SetMapping, Route!DeleteMapping,
    Route!WalkStaysInMenu, Route!ProcessInput, Route!Scopes, Route!AllIntents
<1>3. ASSUME NEW c \in Route!Scopes, NEW t \in Texts, Route!PostDetect(c, t)
      PROVE  mapping' \in M /\ logs' \in Seq(L)
  <2>1. Route!Classify(t) \in Route!AllIntents
    BY ClassifyNamesIntent DEF RouteGiven
  <2>2. [tenant |-> c, intent |-> Route!Classify(t)] \in L
    BY <2>1
  <2>3. /\ logs' = Append(logs, [tenant |-> c, intent |-> Route!Classify(t)])
        /\ mapping' = mapping
    BY <1>3 DEF Route!PostDetect
  <2> HIDE DEF L, M
  <2> QED
    BY <1>1, <2>2, <2>3, AppendProperties
<1>4. ASSUME NEW c \in Route!Scopes, NEW i \in Route!Range(Intents),
             NEW t \in Templates \union {NoTemplate}, mapping' = [mapping EXCEPT ![<<c, i>>] = t]
      PROVE  mapping' \in M
  BY <1>1, <1>4
<1>5. ASSUME NEW c \in Route!Scopes, NEW i \in Route!Range(Intents),
             Route!DeleteMapping(c, i) \/ \E t \in Templates : Route!SetMapping(c, i, t)
      PROVE  mapping' \in M /\ logs' \in Seq(L)
  <2>1. logs' = logs /\ \E t \in Templates \union {NoTemplate} :
                          mapping' = [mapping EXCEPT ![<<c, i>>] = t]
    BY <1>5 DEF Route!DeleteMapping, Route!SetMapping
  <2> QED
    BY <1>1, <1>4, <2>1
<1> QED
  BY <1>2, <1>3, <1>5 DEF Route!IntentsNext

LEMMA RoutesKeepInv ==
  ASSUME NEW W, RouteGiven(W), RouteInv(W), RouteStep
  PROVE  RouteInv(W)'
<1>1. CASE UNCHANGED routeVars
  BY <1>1 DEF routeVars, RouteInv, Route!WalkStaysInMenu, Route!ProcessInput, Route!Scopes,
    Route!AllIntents
<1> QED
  BY <1>1, RuleStepKeeps, MenuStepKeeps, IntentStepKeeps DEF RouteStep, Route!Next

LEMMA RulesAreTried ==
  ASSUME NEW W, RouteInv(W)
  PROVE  Route!BestRuleWins
<1> SUFFICES ASSUME NEW tenant \in Tenants, NEW topic \in Topics \union {Unset}, NEW hour \in Hours
             PROVE  LET won == Route!PostEvaluate(tenant, topic, hour)
                        wants == {i \in DOMAIN rules :
                           /\ rules[i].active /\ rules[i].tenant \in {tenant, Shared}
                           /\ rules[i].topic \in {topic, Unset}
                           /\ Route!IsWithinTimeRange(rules[i], hour)}
                    IN  IF wants = {} THEN won.target = NoTemplate
                        ELSE \E i \in wants : won = rules[i]
                               /\ \A j \in wants : rules[j].priority >= won.priority
                                    /\ (rules[j].priority = won.priority => i <= j \/ rules[j] = won)
  BY DEF Route!BestRuleWins
<1> DEFINE won == Route!PostEvaluate(tenant, topic, hour)
           candidates == {i \in DOMAIN rules : rules[i].active /\ rules[i].tenant \in {Shared, tenant}}
           sc == [i \in candidates |-> -rules[i].priority]
           fits(i) == /\ rules[i].topic \in {topic, Unset}
                      /\ Route!IsWithinTimeRange(rules[i], hour)
           wants == {i \in candidates : fits(i)}
           q == Ranked(candidates, MostFirst(candidates, sc))
           n == Cardinality(candidates)
           matched == {k \in 1..n : fits(q[k])}
<1>1. /\ Len(rules) \in Nat /\ DOMAIN rules = 1..Len(rules)
      /\ \A i \in 1..Len(rules) : rules[i].priority \in Int
  <2>1. rules \in Seq(RuleSet(W))
    BY DEF RouteInv
  <2>2. Len(rules) \in Nat /\ DOMAIN rules = 1..Len(rules)
    BY <2>1, LenProperties
  <2>3. \A i \in 1..Len(rules) : rules[i] \in RuleSet(W)
    BY <2>1, ElementOfSeq
  <2> QED
    BY <2>2, <2>3 DEF RuleSet
<1>2. /\ candidates \subseteq Int /\ IsFiniteSet(candidates)
      /\ \A i \in candidates : rules[i].priority \in Int /\ sc[i] = -rules[i].priority
  <2>1. candidates \subseteq 1..Len(rules)
    BY <1>1
  <2>2. \A i \in candidates : rules[i].priority \in Int /\ sc[i] = -rules[i].priority
    BY <1>1, <2>1
  <2>3. IsFiniteSet(1..Len(rules)) /\ 1..Len(rules) \subseteq Int
    BY <1>1, FS_Interval
  <2> HIDE DEF candidates
  <2> QED
    BY <2>1, <2>2, <2>3, FS_Subset
<1>3. /\ wants \subseteq candidates /\ matched \subseteq 1..n
      /\ \A i : i \in wants <=> i \in candidates /\ fits(i)
      /\ \A k : k \in matched <=> k \in 1..n /\ fits(q[k])
  OBVIOUS
<1>4. Route!GetRules(tenant) = q
  BY DEF Route!GetRules, Route!InOrder, Route!Ranked, Ranked, Route!MostFirst, MostFirst,
    Route!Cardinality, Cardinality
<1>5. DOMAIN q = 1..n
  BY DEF Ranked
<1> DEFINE asked == [tenant |-> tenant, topic |-> topic, hour |-> hour, count |-> {}]
<1>6. \A k \in 1..n : q[k] \in candidates => (Route!MatchRule(rules[q[k]], asked) <=> fits(q[k]))
  BY DEF Route!MatchRule
<1> HIDE DEF q, asked
<1>7. won = LET found == {k \in 1..n : Route!MatchRule(rules[q[k]], asked)}
            IN  IF found = {} THEN [target |-> NoTemplate, priority |-> 0]
                ELSE rules[q[Route!Min(found)]]
  BY <1>4, <1>5 DEF Route!PostEvaluate, Route!Evaluate, asked
<1> HIDE DEF candidates, sc, wants, matched, fits, n, won
<1>8. /\ n \in Nat /\ q \in [1..n -> candidates]
      /\ \A i, j \in 1..n : i < j => <<q[i], q[j]>> \in MostFirst(candidates, sc)
      /\ \A i, j \in 1..n : q[i] = q[j] => i = j
      /\ \A x \in candidates : \E k \in 1..n : q[k] = x
  <2> DEFINE R == MostFirst(candidates, sc)
  <2>1. StrictOrder(candidates, R)
    <3>1. ASSUME NEW x \in candidates PROVE sc[x] \in Int
      <4> DEFINE p == rules[x].priority
      <4>1. p \in Int /\ sc[x] = -p
        BY <1>2
      <4> HIDE DEF p
      <4> QED
        BY <4>1
    <3> QED
      BY <1>2, <3>1, MostFirstOrders
  <2> HIDE DEF R
  <2>2. IsRanking(q, candidates, R)
    BY <1>2, <2>1, RankedIsRanking DEF q, R
  <2>3. n \in Nat /\ q \in [1..n -> candidates]
    BY <1>2, <2>2, FS_CardinalityType DEF IsRanking, n
  <2> QED
    BY <1>2, <2>1, <2>2, <2>3, RankingIsInOrder DEF n, R
<1>9. \A x, y \in candidates : <<x, y>> \in MostFirst(candidates, sc) =>
        /\ rules[y].priority >= rules[x].priority
        /\ rules[y].priority = rules[x].priority => x <= y
  <2> SUFFICES ASSUME NEW x \in candidates, NEW y \in candidates, <<x, y>> \in MostFirst(candidates, sc)
               PROVE  /\ rules[y].priority >= rules[x].priority
                      /\ rules[y].priority = rules[x].priority => x <= y
    OBVIOUS
  <2>1. sc[x] > sc[y] \/ (sc[x] = sc[y] /\ x < y)
    BY DEF MostFirst
  <2> DEFINE a == rules[x].priority
             b == rules[y].priority
  <2>2. sc[x] = -a /\ sc[y] = -b /\ a \in Int /\ b \in Int /\ x \in Int /\ y \in Int
    BY <1>2
  <2> HIDE DEF a, b
  <2>3. b >= a /\ (b = a => x <= y)
    BY <2>1, <2>2
  <2> QED
    BY <2>3 DEF a, b
<1>10. won = IF matched = {} THEN [target |-> NoTemplate, priority |-> 0]
             ELSE rules[q[Route!Min(matched)]]
  <2>1. {k \in 1..n : Route!MatchRule(rules[q[k]], asked)} = matched
    BY <1>3, <1>6, <1>8 DEF asked
  <2> QED
    BY <1>7, <2>1
<1>11. wants = {i \in DOMAIN rules :
                  /\ rules[i].active /\ rules[i].tenant \in {tenant, Shared}
                  /\ rules[i].topic \in {topic, Unset}
                  /\ Route!IsWithinTimeRange(rules[i], hour)}
  BY DEF wants, candidates, fits
<1>12. ASSUME wants = {} PROVE won.target = NoTemplate
  <2>1. matched = {}
    BY <1>3, <1>8, <1>12
  <2> QED
    BY <1>10, <2>1
<1>13. ASSUME wants # {}
       PROVE  \E i \in wants : won = rules[i]
                /\ \A j \in wants : rules[j].priority >= won.priority
                     /\ (rules[j].priority = won.priority => i <= j \/ rules[j] = won)
  <2>1. matched # {} /\ \A j \in wants : \E k \in matched : q[k] = j
    BY <1>3, <1>8, <1>13
  <2>2. matched \subseteq Nat
    <3>1. 1..n \subseteq Nat
      BY <1>8
    <3> QED
      BY <1>3, <3>1
  <2> DEFINE m == Route!Min(matched)
             i == q[m]
  <2>3. m \in matched /\ \A k \in matched : m <= k
    <3>1. \E k \in matched : \A l \in matched : k <= l
      BY <2>1, <2>2, LeastNumber
    <3> QED
      BY <3>1 DEF Route!Min
  <2> HIDE DEF m
  <2>4. i \in wants /\ won = rules[i]
    <3>1. m \in 1..n /\ fits(i) /\ i \in candidates
      BY <1>3, <1>8, <2>3
    <3>2. won = rules[i]
      BY <1>10, <2>1 DEF m
    <3> QED
      BY <1>3, <3>1, <3>2
  <2>5. ASSUME NEW j \in wants
        PROVE  /\ rules[j].priority >= won.priority
               /\ rules[j].priority = won.priority => i <= j \/ rules[j] = won
    <3>1. PICK k \in matched : q[k] = j
      BY <2>1
    <3>2. m <= k /\ m \in 1..n /\ k \in 1..n
      BY <1>3, <2>3
    <3>3. CASE m = k
      <4>1. j = i /\ rules[i].priority \in Int
        BY <1>2, <1>3, <2>4, <3>1, <3>3
      <4> QED
        BY <2>4, <4>1
    <3>4. CASE m # k
      <4>1. m < k
        BY <1>8, <3>2, <3>4
      <4>2. <<i, j>> \in MostFirst(candidates, sc) /\ i \in candidates /\ j \in candidates
        BY <1>3, <1>8, <2>4, <3>1, <3>2, <4>1
      <4> QED
        BY <1>9, <2>4, <4>2
    <3> QED
      BY <3>3, <3>4
  <2> HIDE DEF i
  <2> QED
    BY <2>4, <2>5
<1> HIDE DEF asked
<1>14. IF wants = {} THEN won.target = NoTemplate
       ELSE \E i \in wants : won = rules[i]
              /\ \A j \in wants : rules[j].priority >= won.priority
                   /\ (rules[j].priority = won.priority => i <= j \/ rules[j] = won)
  BY <1>12, <1>13
<1> QED
  BY <1>11, <1>14 DEF won

\* The counts of the elements' names add up to the elements.
LEMMA EachIsCounted ==
  ASSUME NEW K, IsFiniteSet(K), NEW n \in Nat, NEW name, \A k \in 1..n : name[k] \in K,
         NEW f, f = [i \in K |-> Cardinality({k \in 1..n : name[k] = i})]
  PROVE  SumFunctionOnSet(f, K) = n
<1> DEFINE Named(T) == {k \in 1..n : name[k] \in T}
           Wrong(T) == SumFunctionOnSet(f, T) # Cardinality(Named(T))
           Bad == {m \in Nat : \E T \in SUBSET K : Cardinality(T) = m /\ Wrong(T)}
<1>1. IsFiniteSet(1..n) /\ Cardinality(1..n) = n
  BY FS_Interval
<1>2. \A A : A \subseteq 1..n => IsFiniteSet(A) /\ Cardinality(A) \in Nat
  BY <1>1, FS_Subset, FS_CardinalityType
<1>3. \A i \in K : f[i] = Cardinality({k \in 1..n : name[k] = i}) /\ f[i] \in Int
  <2>1. \A i \in K : Cardinality({k \in 1..n : name[k] = i}) \in Nat
    BY <1>2
  <2> QED
    BY <2>1
<1>4. \A T \in SUBSET K : Summed(f, T) /\ IsFiniteSet(T) /\ Cardinality(T) \in Nat
                          /\ SumFunctionOnSet(f, T) \in Int
  <2> TAKE T \in SUBSET K
  <2>1. IsFiniteSet(T) /\ Cardinality(T) \in Nat
    BY Removed
  <2>2. Summed(f, T)
    BY <1>3, <2>1 DEF Summed
  <2> QED
    BY <2>1, <2>2, SumOfChosen
<1>5. ASSUME Bad # {} PROVE FALSE
  <2>1. PICK m \in Bad : \A l \in Bad : m <= l
    BY <1>5, LeastNumber
  <2>2. PICK T \in SUBSET K : Cardinality(T) = m /\ Wrong(T)
    BY <2>1
  <2>3. CASE T = {}
    <3>1. SumFunctionOnSet(f, T) = 0
      BY <1>4, <2>3, SumOfChosen
    <3>2. Named(T) = {}
      BY <2>3
    <3>3. Cardinality(Named(T)) = 0
      BY <3>2, FS_EmptySet
    <3> QED
      BY <2>2, <3>1, <3>3
  <2>4. ASSUME NEW x \in T PROVE FALSE
    <3> DEFINE U == T \ {x}
               A == {k \in 1..n : name[k] = x}
    <3>1. U \in SUBSET K /\ Cardinality(U) = m - 1 /\ m - 1 \in Nat
      BY <1>4, <2>2, Removed
    <3>2. m - 1 \notin Bad
      <4>1. m \in Nat
        OBVIOUS
      <4> HIDE DEF Bad
      <4> QED
        BY <2>1, <3>1, <4>1
    <3>3. ~Wrong(U)
      <4> HIDE DEF Wrong
      <4> QED
        BY <3>1, <3>2
    <3>4. SumFunctionOnSet(f, T) = f[x] + SumFunctionOnSet(f, U)
      BY <1>4, SumOfAny
    <3>5. f[x] = Cardinality(A)
      BY <1>3
    <3>6. Named(T) = A \union Named(U) /\ A \intersect Named(U) = {}
      BY <2>4
    <3>7. A \subseteq 1..n /\ Named(U) \subseteq 1..n
      OBVIOUS
    <3> HIDE DEF A, Named, U
    <3>8. Cardinality(Named(T)) = Cardinality(A) + Cardinality(Named(U))
      <4>1. IsFiniteSet(A) /\ IsFiniteSet(Named(U))
        BY <1>2, <3>7
      <4>2. Cardinality(Named(T)) = Cardinality(A) + Cardinality(Named(U)) - Cardinality({})
        BY <3>6, <4>1, FS_Union
      <4>3. Cardinality(A) \in Nat /\ Cardinality(Named(U)) \in Nat /\ Cardinality({}) = 0
        BY <1>2, <3>7, FS_EmptySet
      <4> QED
        BY <4>2, <4>3
    <3> QED
      BY <2>2, <3>3, <3>4, <3>5, <3>8
  <2> QED
    BY <2>3, <2>4
<1>6. ~Wrong(K)
  <2>1. Cardinality(K) \in Nat
    BY <1>4
  <2> QED
    BY <1>5, <2>1
<1>7. Named(K) = 1..n
  OBVIOUS
<1> QED
  BY <1>1, <1>6, <1>7

\* What a filter picks of a sequence, in its order: the places that it picks, each once, so
\* that among them there are as many of a kind as in the sequence.
Places(q, I) ==
  /\ q \in [1..Cardinality(I) -> I]
  /\ \A i, j \in 1..Cardinality(I) : i < j => q[i] < q[j]
  /\ \A i, j \in 1..Cardinality(I) : q[i] = q[j] => i = j
  /\ \A x \in I : \E k \in 1..Cardinality(I) : q[k] = x

LEMMA PickedInOrder ==
  ASSUME NEW V, NEW seq \in Seq(V), NEW I, I \subseteq DOMAIN seq
  PROVE  \E q : /\ Places(q, I)
                /\ Picked(seq, I) = [k \in 1..Cardinality(I) |-> seq[q[k]]]
<1> DEFINE R == Ascending(I)
           q == Ranked(I, R)
<1>1. Len(seq) \in Nat /\ DOMAIN seq = 1..Len(seq)
  BY LenProperties
<1>2. IsFiniteSet(1..Len(seq)) /\ 1..Len(seq) \subseteq Int
  BY <1>1, FS_Interval
<1>3. IsFiniteSet(I) /\ I \subseteq Int
  BY <1>1, <1>2, FS_Subset
<1>4. StrictOrder(I, R) /\ \A x, y \in I : <<x, y>> \in R <=> x < y
  BY <1>3, AscendingOrders
<1>5. Picked(seq, I) = [k \in 1..Cardinality(I) |-> seq[q[k]]]
  BY DEF Picked
<1> HIDE DEF R, q
<1>6. IsRanking(q, I, R)
  BY <1>3, <1>4, RankedIsRanking DEF q
<1>7. /\ \A i, j \in 1..Cardinality(I) : i < j => <<q[i], q[j]>> \in R
      /\ \A i, j \in 1..Cardinality(I) : q[i] = q[j] => i = j
      /\ \A x \in I : \E k \in 1..Cardinality(I) : q[k] = x
  BY <1>3, <1>4, <1>6, RankingIsInOrder
<1>8. q \in [1..Cardinality(I) -> I]
  BY <1>6 DEF IsRanking
<1>9. Places(q, I)
  BY <1>4, <1>7, <1>8 DEF Places
<1> QED
  BY <1>5, <1>9

LEMMA PickedAreOf ==
  ASSUME NEW V, NEW seq \in Seq(V), NEW I, I \subseteq DOMAIN seq
  PROVE  Range(Picked(seq, I)) \subseteq Range(seq)
<1>1. PICK q : /\ Places(q, I)
               /\ Picked(seq, I) = [k \in 1..Cardinality(I) |-> seq[q[k]]]
  BY PickedInOrder
<1> QED
  BY <1>1 DEF Places, Range

LEMMA PickedAreCounted ==
  ASSUME NEW I, IsFiniteSet(I), NEW q, Places(q, I), NEW A \in SUBSET I
  PROVE  Cardinality({k \in 1..Cardinality(I) : q[k] \in A}) = Cardinality(A)
<1> DEFINE B == {k \in 1..Cardinality(I) : q[k] \in A}
           f == [k \in B |-> q[k]]
<1>1. f \in [B -> A] /\ \A i, j \in B : f[i] = f[j] => i = j
  BY DEF Places
<1>2. \A x \in A : \E k \in B : f[k] = x
  BY DEF Places
<1>3. IsFiniteSet(A)
  BY FS_Subset
<1> HIDE DEF B, f
<1>4. f \in Injection(B, A) /\ f \in Surjection(B, A)
  BY <1>1, <1>2 DEF Injection, Surjection, IsInjective
<1>5. Cardinality(B) = Cardinality(A)
  BY <1>3, <1>4, FS_Injection
<1> QED
  BY <1>5 DEF B

\* What a filter picks of a sequence: as many as there are places, the last one last.
LEMMA PickedAreThere ==
  ASSUME NEW V, NEW seq \in Seq(V), NEW I, I \subseteq DOMAIN seq,
         NEW got, got = Picked(seq, I)
  PROVE  /\ IsFiniteSet(I) /\ Cardinality(I) \in Nat
         /\ got \in Seq(V) /\ Len(got) = Cardinality(I) /\ DOMAIN got = 1..Cardinality(I)
         /\ I = DOMAIN seq /\ seq # <<>> => Len(got) = Len(seq) /\ got[Len(got)] = seq[Len(seq)]
<1> DEFINE n == Cardinality(I)
           l == Len(seq)
<1>1. l \in Nat /\ DOMAIN seq = 1..l /\ \A i \in 1..l : seq[i] \in V
  BY LenProperties, ElementOfSeq
<1>2. IsFiniteSet(1..l) /\ 1..l \subseteq Int /\ Cardinality(1..l) = l
  BY <1>1, FS_Interval
<1>3. IsFiniteSet(I) /\ I \subseteq Int /\ n \in Nat
  BY <1>1, <1>2, FS_Subset, FS_CardinalityType
<1>5. PICK q : Places(q, I) /\ got = [k \in 1..n |-> seq[q[k]]]
  BY PickedInOrder
<1>7. /\ q \in [1..n -> I]
      /\ \A i, j \in 1..n : i < j => q[i] < q[j]
      /\ \A x \in I : \E k \in 1..n : q[k] = x
  BY <1>5 DEF Places
<1> HIDE DEF n, l
<1>8. got \in Seq(V) /\ Len(got) = n /\ DOMAIN got = 1..n
  <2>1. \A k \in 1..n : seq[q[k]] \in V
    BY <1>1, <1>7
  <2>2. got \in Seq(V)
    BY <1>3, <1>5, <2>1, IsASeq
  <2>3. DOMAIN got = 1..n /\ Len(got) \in Nat /\ DOMAIN got = 1..Len(got)
    BY <1>5, <2>2, LenProperties
  <2> QED
    BY <1>3, <2>2, <2>3
<1>9. ASSUME I = DOMAIN seq, seq # <<>> PROVE n = l /\ got[n] = seq[l]
  <2>1. n = l
    BY <1>1, <1>2, <1>9 DEF n
  <2>2. l > 0
    BY <1>1, <1>9, EmptySeq DEF l
  <2>3. n \in 1..n /\ q[n] \in 1..l
    BY <1>1, <1>7, <1>9, <2>1, <2>2
  <2>6. l \in I
    BY <1>1, <1>9, <2>2
  <2>4. PICK k \in 1..n : q[k] = l
    BY <1>7, <2>6
  <2>5. q[n] = l
    <3>1. k < n => l < q[n]
      BY <1>7, <2>3, <2>4
    <3>2. k <= n /\ k \in Nat /\ n \in Nat
      BY <1>3, <2>4
    <3>3. ~(l < q[n])
      BY <1>1, <2>3
    <3>4. k = n
      BY <3>1, <3>2, <3>3
    <3> QED
      BY <2>4, <3>4
  <2> QED
    BY <1>5, <2>1, <2>3, <2>5
<1> QED
  BY <1>3, <1>8, <1>9 DEF n, l

LEMMA LogsAreCounted ==
  ASSUME NEW W, RouteGiven(W), RouteInv(W), NEW C \in SUBSET Route!Scopes
  PROVE  Route!SumFunction(Route!GetFrequencies(C)) = Len(Route!LogsOf(C))
<1> DEFINE L == [tenant : Route!Scopes, intent : Route!AllIntents]
           I == {i \in DOMAIN logs : logs[i].tenant \in C}
           got == Route!LogsOf(C)
           n == Cardinality(I)
           K == Route!AllIntents
           name == [k \in 1..n |-> got[k].intent]
           f == [i \in K |-> Cardinality({k \in 1..n : name[k] = i})]
<1>1. logs \in Seq(L) /\ I \subseteq DOMAIN logs
  BY DEF RouteInv
<1>2. got = Picked(logs, I)
  BY DEF Route!LogsOf, Route!Picked, Picked, Route!Ranked, Ranked, Route!Ascending, Ascending,
    Route!Cardinality, Cardinality
<1>3. n \in Nat /\ got \in Seq(L) /\ Len(got) = n /\ DOMAIN got = 1..n
  <2> HIDE DEF I, L, got
  <2> QED
    BY <1>1, <1>2, PickedAreThere
<1>4. \A k \in 1..n : got[k].intent \in K
  <2>1. \A k \in 1..n : got[k] \in L
    <3> HIDE DEF L, got, n
    <3> QED
      BY <1>3, ElementOfSeq
  <2> QED
    BY <2>1
<1>5. Route!GetFrequencies(C) = [i \in K |-> Cardinality({k \in 1..n : got[k].intent = i})]
  <2> HIDE DEF n
  <2> QED
    BY <1>3 DEF Route!GetFrequencies, Route!Cardinality, Cardinality
<1>6. IsFiniteSet(K)
  <2>1. Len(Intents) \in Nat /\ DOMAIN Intents = 1..Len(Intents)
    BY LenProperties DEF RouteGiven, IntentsAreCounted
  <2> DEFINE S == Route!Range(Intents)
             g == [i \in 1..Len(Intents) |-> Intents[i]]
  <2>2. g \in Surjection(1..Len(Intents), S)
    BY <2>1 DEF Surjection, Route!Range
  <2>3. IsFiniteSet(1..Len(Intents))
    BY <2>1, FS_Interval
  <2>4. IsFiniteSet(S)
    BY <2>2, <2>3, FS_Surjection
  <2> HIDE DEF S
  <2>5. IsFiniteSet(S \union {"general"})
    BY <2>4, FS_AddElement
  <2> QED
    BY <2>5 DEF Route!AllIntents, S
<1> HIDE DEF n, got, K
<1>7. Route!GetFrequencies(C) = f
  BY <1>5
<1>8. SumFunctionOnSet(f, K) = n
  <2>1. \A k \in 1..n : name[k] \in K
    BY <1>4
  <2> HIDE DEF name
  <2> QED
    BY <1>3, <1>6, <2>1, EachIsCounted
<1>9. DOMAIN f = K
  OBVIOUS
<1> HIDE DEF f
<1>10. Route!SumFunction(f) = SumFunctionOnSet(f, K)
  BY <1>9 DEF Route!SumFunction, Route!SumFunctionOnSet, Route!FoldFunctionOnSet,
    Route!MapThenFoldSet, SumFunctionOnSet, FoldFunctionOnSet, MapThenFoldSet
<1> QED
  BY <1>3, <1>7, <1>8, <1>10 DEF got

LEMMA LogsAreAll ==
  ASSUME NEW W, RouteInv(W)
  PROVE  /\ Len(Route!LogsOf(Route!Scopes)) = Len(logs)
         /\ logs # <<>> =>
              Head(Route!ListLogs(Route!Scopes, 1)) = Route!Last(logs)
<1> DEFINE L == [tenant : Route!Scopes, intent : Route!AllIntents]
           I == {i \in DOMAIN logs : logs[i].tenant \in Route!Scopes}
           got == Route!LogsOf(Route!Scopes)
<1>1. logs \in Seq(L) /\ Len(logs) \in Nat /\ DOMAIN logs = 1..Len(logs)
  BY LenProperties DEF RouteInv
<1>2. \A i \in 1..Len(logs) : logs[i] \in L
  <2> HIDE DEF L
  <2> QED
    BY <1>1, ElementOfSeq
<1>3. I = DOMAIN logs
  BY <1>1, <1>2
<1>4. got = Picked(logs, I)
  BY DEF Route!LogsOf, Route!Picked, Picked, Route!Ranked, Ranked, Route!Ascending, Ascending,
    Route!Cardinality, Cardinality
<1>5. /\ got \in Seq(L) /\ Cardinality(I) = Len(logs) /\ Len(got) = Len(logs)
      /\ logs # <<>> => got[Len(got)] = logs[Len(logs)]
  <2>1. Cardinality(1..Len(logs)) = Len(logs)
    BY <1>1, FS_Interval
  <2> HIDE DEF L, I, got
  <2>2. Len(got) = Cardinality(I)
    BY <1>1, <1>3, <1>4, PickedAreThere
  <2>3. logs # <<>> => got[Len(got)] = logs[Len(logs)]
    BY <1>1, <1>3, <1>4, PickedAreThere
  <2>4. got \in Seq(L)
    BY <1>1, <1>3, <1>4, PickedAreThere
  <2> QED
    BY <1>1, <1>3, <2>1, <2>2, <2>3, <2>4
<1>6. ASSUME logs # <<>>
      PROVE  Head(Route!ListLogs(Route!Scopes, 1)) = logs[Len(logs)]
  <2> DEFINE n == Len(got)
             rev == [i \in 1..n |-> got[(n - i) + 1]]
  <2>1. n \in Nat /\ n > 0
    <3>1. Len(logs) # 0
      BY <1>1, <1>6, EmptySeq
    <3> QED
      BY <1>1, <1>5, <3>1
  <2> HIDE DEF got, L, n
  <2>2. \A i \in 1..n : rev[i] \in L
    <3>1. \A i \in 1..n : (n - i) + 1 \in 1..n
      BY <2>1
    <3>2. \A i \in 1..n : got[i] \in L
      BY <1>5, ElementOfSeq DEF n
    <3> QED
      BY <3>1, <3>2
  <2>3. rev \in Seq(L)
    BY <2>1, <2>2, IsASeq
  <2>4. Len(rev) = n
    <3>1. DOMAIN rev = 1..n /\ DOMAIN rev = 1..Len(rev) /\ Len(rev) \in Nat
      BY <2>3, LenProperties
    <3> QED
      BY <2>1, <3>1
  <2>5. rev[1] = got[n]
    BY <2>1
  <2>6. Route!ListLogs(Route!Scopes, 1) = SubSeq(rev, 1, 1)
    <3>1. Route!ListLogs(Route!Scopes, 1) = Route!Slice(rev, 1)
      BY DEF Route!ListLogs, Route!Reverse, got, n
    <3> HIDE DEF rev
    <3>2. Route!Slice(rev, 1) = SubSeq(rev, 1, 1)
      BY <2>1, <2>4 DEF Route!Slice
    <3> QED
      BY <3>1, <3>2
  <2> HIDE DEF rev
  <2>7. \A i \in 1..1 : rev[i] \in L
    BY <2>1, <2>2
  <2>8. /\ Len(SubSeq(rev, 1, 1)) = 1 /\ SubSeq(rev, 1, 1) \in Seq(L)
        /\ SubSeq(rev, 1, 1)[1] = rev[1]
    BY <2>7, SubSeqProperties
  <2>9. Head(SubSeq(rev, 1, 1)) = SubSeq(rev, 1, 1)[1]
    BY <2>8
  <2> QED
    BY <1>5, <1>6, <2>5, <2>6, <2>8, <2>9 DEF n
<1> QED
  BY <1>5, <1>6 DEF Route!Last, got

LEMMA RoutesAreSound ==
  ASSUME NEW W, RouteGiven(W), RouteInv(W)
  PROVE  Route!RoutingSound
<1>1. \A s \in Route!Scopes :
        Route!SumFunction(Route!GetFrequencies({s})) = Len(Route!LogsOf({s}))
  BY LogsAreCounted
<1>2. Route!SumFunction(Route!GetFrequencies(Route!Scopes)) = Len(logs)
  BY LogsAreAll, LogsAreCounted
<1>3. \A t \in Tenants : Route!ListMappings(t) \subseteq {t, Shared} \X Route!AllIntents
  <2>1. DOMAIN mapping = Route!Scopes \X Route!AllIntents
    BY DEF RouteInv
  <2> QED
    BY <2>1 DEF Route!ListMappings
<1>4. Route!CountsAgree
  BY <1>1, <1>2, <1>3, LogsAreAll DEF Route!CountsAgree
<1> QED
  BY <1>4, RulesAreTried DEF RouteInv, Route!RoutingSound

-----------------------------------------------------------------------------
(* All of them.                                                               *)

LEMMA RoutesAreRoutes ==
  \E W : RouteGiven(W)
<1> DEFINE A == {r.tenant : r \in Rules}
           B == {r.topic : r \in Rules}
           C == {r.target : r \in Rules}
           D == {m.root : m \in Menus}
           E == {m.nodes : m \in Menus}
           F == {Intents[i] : i \in DOMAIN Intents}
           W == (A \union B) \union (C \union D) \union (E \union F)
<1>1. /\ A \subseteq W /\ B \subseteq W /\ C \subseteq W /\ D \subseteq W /\ E \subseteq W
      /\ F \subseteq W
  OBVIOUS
<1>2. /\ Rules \subseteq [tenant : A, priority : Int, topic : B, from : Int, till : Int,
                          cap : SUBSET Int, target : C, active : BOOLEAN]
      /\ Menus \subseteq [root : D \ {Nowhere}, nodes : E]
      /\ Intents \in Seq(F) /\ Intents # <<>>
      /\ \A t \in Texts, i \in DOMAIN Intents : t.hits[Intents[i]] \in Nat
  BY ChoicesAssumption DEF RoutesAreGiven
<1>3. Route!Range(Intents) = F
  BY DEF Route!Range
<1>4. \A t \in Texts : \A x \in Route!Range(Intents) : t.hits[x] \in Nat
  BY <1>2, <1>3
<1> HIDE DEF A, B, C, D, E, F, W
<1>5. Rules \subseteq RuleSet(W)
  BY <1>1, <1>2 DEF RuleSet
<1>6. Menus \subseteq MenuSet(W)
  BY <1>1, <1>2 DEF MenuSet
<1>7. Intents \in Seq(W)
  <2>1. Len(Intents) \in Nat /\ Intents \in [1..Len(Intents) -> F]
    BY <1>2, LenProperties
  <2>2. Intents \in [1..Len(Intents) -> W]
    BY <1>1, <2>1
  <2> QED
    BY <1>1, <1>2, SeqDef
<1> QED
  BY <1>2, <1>4, <1>5, <1>6, <1>7 DEF RouteGiven, IntentsAreCounted

LEMMA TalksAreTalks ==
  \E W : Transcripts \subseteq Seq(W \X W)
<1> DEFINE texts(talk) == {talk[i][2] : i \in DOMAIN talk}
           W == Speakers \union UNION {texts(talk) : talk \in Transcripts}
<1>1. ASSUME NEW talk \in Transcripts PROVE talk \in Seq(W \X W)
  <2>1. talk \in Seq(Speakers \X texts(talk))
    BY ChoicesAssumption DEF TalksAreOfTwo
  <2>2. Speakers \subseteq W /\ texts(talk) \subseteq W
    OBVIOUS
  <2> HIDE DEF W, texts
  <2>3. Speakers \X texts(talk) \subseteq W \X W
    BY <2>2
  <2> QED
    BY <2>1, <2>3, SeqMonotonic
<1> QED
  BY <1>1

\* Each of them keeps its own.
ChoicesInv(W) == AbInv /\ HintInv /\ RetrievalInv /\ KnownInv /\ RouteInv(W)

LEMMA ChoicesKeepInv ==
  ASSUME NEW W, RouteGiven(W), ChoicesInv(W), [ChoicesNext]_choiceVars
  PROVE  ChoicesInv(W)'
<1>1. AbStep /\ HintStep /\ RetrievalStep /\ KnownStep /\ RouteStep
  <2>1. CASE ChoicesNext
    <3>1. HintStep
      BY <2>1 DEF ChoicesNext, HintStep, Hints!Next
    <3> QED
      BY <2>1, <3>1 DEF ChoicesNext, AbStep, RetrievalStep, KnownStep, RouteStep, Route!Next
  <2>2. CASE UNCHANGED choiceVars
    BY <2>2 DEF choiceVars, AbStep, HintStep, RetrievalStep, KnownStep, RouteStep
  <2> QED
    BY <2>1, <2>2
<1>2. AbInv' /\ HintInv'
  BY <1>1, AbKeepsInv, HintsKeepInv, ChoicesAssumption DEF ChoicesInv, VisitorsAreCounted
<1>3. RetrievalInv' /\ KnownInv'
  BY <1>1, RetrievalKeepsInv, KnownKeepsInv, ChoicesAssumption DEF ChoicesInv
<1>4. RouteInv(W)'
  BY <1>1, RoutesKeepInv DEF ChoicesInv
<1> QED
  BY <1>2, <1>3, <1>4 DEF ChoicesInv

LEMMA ChoicesBegin ==
  ASSUME NEW W, ChoicesInit
  PROVE  ChoicesInv(W)
BY AbBegins, HintsBegin, RetrievalBegins, KnownBegins, RoutesBegin DEF ChoicesInit, ChoicesInv

LEMMA ChoicesAreChoices ==
  ASSUME NEW W, RouteGiven(W), ChoicesInv(W)
  PROVE  ChoicesSound
<1>1. Ab!AbTestsSound
  BY AbTestsAreSound, ChoicesAssumption DEF ChoicesInv, VisitorsAreCounted
<1>2. Hints!SuggestionsSound
  BY HintsAreSound, ChoicesAssumption DEF ChoicesInv
<1>3. Retrieve!RetrievalSound
  BY RetrievalIsSound, ChoicesAssumption DEF ChoicesInv
<1>4. Known!KnowledgeSound
  BY KnowledgeIsSound, TalksAreTalks, ChoicesAssumption DEF ChoicesInv
<1>5. Route!RoutingSound
  BY RoutesAreSound DEF ChoicesInv
<1> QED
  BY <1>1, <1>2, <1>3, <1>4, <1>5 DEF ChoicesSound

\* Of what fits, the answer is the one the ranking promises: the winner of a test is the one
\* whose scores earned it, what is shown has the most, a call gets the first rule that wants
\* it, counts add up, a caller stands in his menu, what is found is the tenant's own and is
\* known by its name, a pack holds no more than its cap (ChoicesSound; AbTestService.ts,
\* SkillStore.ts, PlaybookStore.ts, RoutingEngine.ts, IvrMenuStore.ts, IntentStore.ts,
\* KnowledgeBaseStore.ts, LiveKbSearchService.ts, FaqExtractor.ts, retrieval/).
THEOREM ChoicesHold == ChoicesSpec => []ChoicesSound
<1> SUFFICES ASSUME NEW W, RouteGiven(W) PROVE ChoicesSpec => []ChoicesSound
  BY RoutesAreRoutes
<1>1. ChoicesInit => ChoicesInv(W)
  BY ChoicesBegin
<1>2. ChoicesInv(W) /\ [ChoicesNext]_choiceVars => ChoicesInv(W)'
  BY ChoicesKeepInv
<1>3. ChoicesInv(W) => ChoicesSound
  BY ChoicesAreChoices
<1> QED
  BY <1>1, <1>2, <1>3, PTL DEF ChoicesSpec
=============================================================================
